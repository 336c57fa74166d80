-------------------------- MODULE SubrequestsProofs --------------------------
(***************************************************************************)
(* Proofs about Subrequests, for any number of subrequests and of worker   *)
(* threads.                                                                *)
(***************************************************************************)
EXTENDS Subrequests, SequenceTheorems, FiniteSetTheorems, TLAPS

\* The prover of every leaf that does not name another.
USE Zenon

(***************************************************************************)
(* The shared array, the replies and the threads.                          *)
(***************************************************************************)

\* Writing through an index or a reference changes one slot at most, and never the length;
\* an array that was moved out has no slot to write to.
LEMMA WriteSlot ==
    ASSUME NEW s \in Seq(Slots), NEW i, NEW e \in Slots
    PROVE  /\ [s EXCEPT ![i] = e] \in Seq(Slots)
           /\ Len([s EXCEPT ![i] = e]) = Len(s)
           /\ \A j \in 1 .. Len(s) : [s EXCEPT ![i] = e][j] = IF j = i THEN e ELSE s[j]
<1>1. DOMAIN s = 1 .. Len(s) /\ s \in [1 .. Len(s) -> Slots] /\ Len(s) \in Nat
  BY LenProperties
<1>2. CASE i \in 1 .. Len(s)
  BY <1>2, ExceptSeq, SMT
<1>3. CASE i \notin 1 .. Len(s)
  <2>1. [s EXCEPT ![i] = e] = s
    BY <1>1, <1>3
  <2>2. QED
    BY <1>3, <2>1
<1>4. QED
  BY <1>2, <1>3

\* The record that the client's callback is invoked with.
ReplyRecord == [status : {"OK", "INTERNAL_SERVER_ERROR"}, results : Seq(Slots)]

\* The callback is invoked once more.
LEMMA RepliesGrow ==
    ASSUME replies \in Seq(ReplyRecord), NEW r \in ReplyRecord, replies' = Append(replies, r)
    PROVE  /\ replies' \in Seq(ReplyRecord)
           /\ replies' # <<>> /\ Len(replies') = Len(replies) + 1
           /\ replies # <<>> => replies'[1] = replies[1]
           /\ replies = <<>> => DOMAIN replies' = {1} /\ Len(replies') = 1 /\ replies'[1] = r
<1>1. /\ replies' \in Seq(ReplyRecord) /\ replies' # <<>>
      /\ Len(replies') = Len(replies) + 1
      /\ replies'[Len(replies) + 1] = r
  BY AppendProperties, SMT
<1>2. DOMAIN replies' = 1 .. Len(replies')
  BY <1>1, LenProperties
<1>3. ASSUME replies = <<>>
      PROVE  DOMAIN replies' = {1} /\ Len(replies') = 1 /\ replies'[1] = r
  <2>1. Len(replies) = 0
    BY <1>3, EmptySeq
  <2>2. QED
    BY <1>1, <1>2, <2>1, SMT
<1>4. ASSUME replies # <<>>
      PROVE  replies'[1] = replies[1]
  <2>1. Len(replies) \in Nat /\ Len(replies) # 0
    BY <1>4, EmptySeq, LenProperties
  <2>2. \A i \in 1 .. Len(replies) : replies'[i] = replies[i]
    BY AppendProperties, SMT
  <2>3. QED
    BY <2>1, <2>2, SMT
<1>5. QED
  BY <1>1, <1>3, <1>4

\* The threads in a handler after one of them has entered, moved on in or left it.
LEMMA BusyAfter ==
    ASSUME TypeOK, NEW t \in Threads, NEW p \in {"idle", "code", "body", "scan"},
           pc' = [pc EXCEPT ![t] = p]
    PROVE  /\ Busy' = IF p = "idle" THEN Busy \ {t} ELSE Busy \cup {t}
           /\ pc'[t] = p
           /\ \A u \in Threads : u # t => pc'[u] = pc[u]
BY DEF TypeOK, Busy

\* The subrequest a thread is at after it has taken one or let go of it.
LEMMA RunningAfter ==
    ASSUME TypeOK, NEW t \in Threads, NEW i, running' = [running EXCEPT ![t] = i]
    PROVE  /\ running'[t] = i
           /\ \A u \in Threads : u # t => running'[u] = running[u]
BY DEF TypeOK

\* A thread in a handler is at a subrequest, whichever thread has moved.
LEMMA AtSubrequests ==
    ASSUME TypeOK, NEW t \in Threads, NEW p \in {"idle", "code", "body", "scan"}, NEW i,
           pc' = [pc EXCEPT ![t] = p], running' = [running EXCEPT ![t] = i],
           p = "idle" \/ i \in Subs
    PROVE  \A u \in Busy' : running'[u] \in Subs
<1>1. /\ pc'[t] = p /\ running'[t] = i
      /\ \A u \in Threads : u # t => pc'[u] = pc[u] /\ running'[u] = running[u]
  BY BusyAfter, RunningAfter
<1>2. \A u \in Threads : pc[u] # "idle" => running[u] \in Subs
  BY DEF TypeOK, Busy
<1>3. QED
  BY <1>1, <1>2 DEF Busy

\* Nor when it stays at its own.
LEMMA StillAtSubrequests ==
    ASSUME TypeOK, NEW t \in Threads, NEW p \in {"body", "scan"}, pc[t] # "idle",
           pc' = [pc EXCEPT ![t] = p], UNCHANGED running
    PROVE  Busy' = Busy /\ \A u \in Busy' : running'[u] \in Subs
<1>1. p \in {"idle", "code", "body", "scan"} /\ p # "idle" /\ t \in Busy
  BY DEF Busy
<1>2. Busy' = Busy
  <2>1. Busy' = Busy \cup {t}
    BY <1>1, BusyAfter
  <2>2. QED
    BY <1>1, <2>1
<1>3. QED
  BY <1>2 DEF TypeOK

(***************************************************************************)
(* Type correctness, but for the length of the array of a sequence.        *)
(***************************************************************************)

\* Starting the next subrequest.
LEMMA StartTypes ==
    ASSUME TypeOK, NEW t \in Threads, StartSubrequest(t), UNCHANGED <<kind, fails, dispatching>>
    PROVE  TypeOK'
<1>1. next \in Subs /\ next' = next + 1 /\ next' \in 1 .. N + 1
  BY SubrequestsAssumption, SMT DEF StartSubrequest, TypeOK, Subs
<1>2. outstanding' \subseteq Subs
  BY <1>1 DEF StartSubrequest, TypeOK
<1>3. running' \in [Threads -> Subs \cup {Nobody}]
  BY <1>1 DEF StartSubrequest, TypeOK
<1>4. pc' \in [Threads -> {"idle", "code", "body", "scan"}]
  BY DEF StartSubrequest, TypeOK
<1>5. UNCHANGED <<subresults, replies, lost, late>>
  BY DEF StartSubrequest
<1>6. \A u \in Busy' : running'[u] \in Subs
  BY <1>1, AtSubrequests DEF StartSubrequest
<1>7. QED
  BY <1>1, <1>2, <1>3, <1>4, <1>5, <1>6 DEF TypeOK

\* A subrequest that throws.
LEMMA ThrowTypes ==
    ASSUME TypeOK, NEW t \in Threads, SubrequestThrows(t), UNCHANGED <<kind, fails, dispatching>>
    PROVE  TypeOK'
<1>1. next' \in 1 .. N + 1
  BY SubrequestsAssumption, SMT DEF SubrequestThrows
<1>2. running' \in [Threads -> Subs \cup {Nobody}]
  BY DEF SubrequestThrows, TypeOK
<1>3. pc' \in [Threads -> {"idle", "code", "body", "scan"}]
  BY DEF SubrequestThrows, TypeOK
<1>4. replies' \in Seq(ReplyRecord)
  <2>1. replies \in Seq(ReplyRecord)
    BY DEF TypeOK, ReplyRecord
  <2>2. [status |-> "INTERNAL_SERVER_ERROR", results |-> <<>>] \in ReplyRecord
    BY EmptySeq DEF ReplyRecord
  <2>3. QED
    BY <2>1, <2>2, RepliesGrow DEF SubrequestThrows
<1>5. lost' \in BOOLEAN
  BY DEF SubrequestThrows, TypeOK
<1>6. UNCHANGED <<outstanding, subresults, late>>
  BY DEF SubrequestThrows
<1>7. \A u \in Busy' : running'[u] \in Subs
  BY AtSubrequests DEF SubrequestThrows
<1>8. QED
  BY <1>1, <1>2, <1>3, <1>4, <1>5, <1>6, <1>7 DEF TypeOK, ReplyRecord

\* The callback with the array.
LEMMA ReplyTypes ==
    ASSUME TypeOK, NEW t \in Threads, Reply(t), UNCHANGED <<kind, fails, dispatching>>
    PROVE  TypeOK'
<1>1. replies' \in Seq(ReplyRecord)
  <2>1. replies \in Seq(ReplyRecord)
    BY DEF TypeOK, ReplyRecord
  <2>2. [status |-> "OK", results |-> subresults] \in ReplyRecord
    BY DEF ReplyRecord, TypeOK
  <2>3. QED
    BY <2>1, <2>2, RepliesGrow DEF Reply
<1>2. subresults' \in Seq(Slots) /\ Len(subresults') <= N
  BY EmptySeq, SubrequestsAssumption, SMT DEF Reply
<1>3. running' \in [Threads -> Subs \cup {Nobody}]
  BY DEF Reply, TypeOK
<1>4. pc' \in [Threads -> {"idle", "code", "body", "scan"}]
  BY DEF Reply, TypeOK
<1>5. UNCHANGED <<next, outstanding, lost>>
  BY DEF Reply
<1>6. \A u \in Busy' : running'[u] \in Subs
  BY AtSubrequests DEF Reply
<1>7. late' \subseteq Subs
  BY DEF Reply, TypeOK
<1>8. QED
  BY <1>1, <1>2, <1>3, <1>4, <1>5, <1>6, <1>7 DEF TypeOK, ReplyRecord

-----------------------------------------------------------------------------
(***************************************************************************)
(* Sequences, on any number of threads.                                    *)
(***************************************************************************)

\* What holds of the handlers whatever the threads: the inductive invariant of a sequence.
HandlerInv == TypeOK /\ SequenceInv /\ SequenceStops /\ (kind = "sequence" => RepliedOnce)

\* Thread t, in the handler of the subrequest before or in the endpoint, is about to start
\* the next one of a sequence: nothing else is under way, and nothing has been replied.
Quiet(t) ==
    /\ kind = "sequence" /\ Busy \subseteq {t} /\ outstanding = {} /\ replies = <<>>
    /\ Len(subresults) = next - 1
    /\ \A i \in 1 .. next - 1 : i \notin fails

\* The endpoint starts the first one.
LEMMA QuietAtFirst ==
    ASSUME HandlerInv, kind = "sequence", next = 1
    PROVE  Quiet(Main)
<1>1. Busy \cup outstanding = {}
  BY SMT DEF HandlerInv, SequenceInv
<1>2. replies = <<>> /\ subresults = <<>>
  BY DEF HandlerInv, SequenceInv
<1>3. Len(subresults) = 0
  BY <1>2, EmptySeq
<1>4. QED
  BY <1>1, <1>2, <1>3, SMT DEF Quiet

\* The handler of a subrequest that went well starts the next one.
LEMMA QuietAfterHandler ==
    ASSUME HandlerInv, kind = "sequence", NEW t \in Threads, pc[t] = "scan", ~Stops(running[t])
    PROVE  Quiet(t)
<1>1. t \in Busy
  BY DEF Busy
<1>2. Busy \subseteq {t} /\ outstanding = {} /\ replies = <<>> /\ running[t] = next - 1
  BY <1>1 DEF HandlerInv, SequenceInv
<1>3. Len(subresults) = next - 1
  BY <1>1, SMT DEF HandlerInv, SequenceInv
<1>4. \A i \in 1 .. next - 2 : i \notin fails
  BY <1>1 DEF HandlerInv, SequenceInv
<1>5. next - 1 \notin fails
  BY <1>2 DEF Stops
<1>6. next \in Int
  BY SubrequestsAssumption, SMT DEF HandlerInv, TypeOK
<1>7. \A i \in 1 .. next - 1 : i \in 1 .. next - 2 \/ i = next - 1
  BY <1>6, SMT
<1>8. QED
  BY <1>2, <1>3, <1>4, <1>5, <1>7 DEF Quiet

\* No reply, no second reply and none that is wrong.
LEMMA NothingReplied ==
    ASSUME replies = <<>>
    PROVE  RepliedOnce /\ SequenceStops
BY EmptySeq, SMT DEF RepliedOnce, SequenceStops

\* Starting it makes it the one under way.
LEMMA SequenceStarts ==
    ASSUME TypeOK, NEW t \in Threads, Quiet(t), StartSubrequest(t),
           UNCHANGED <<kind, fails, dispatching>>
    PROVE  HandlerInv'
<1>1. TypeOK'
  BY StartTypes
<1>2. /\ next \in Nat /\ next >= 1 /\ next' = next + 1
      /\ UNCHANGED <<subresults, replies>>
      /\ Len(subresults) = next - 1 /\ replies = <<>>
  BY SubrequestsAssumption, SMT DEF TypeOK, StartSubrequest, Quiet
<1>3. \A i \in 1 .. next' - 2 : i \notin fails'
  BY <1>2, SMT DEF Quiet
<1>4. RepliedOnce' /\ SequenceStops'
  <2>1. replies' = <<>>
    BY <1>2
  <2>2. QED
    BY <2>1, EmptySeq, SMT DEF RepliedOnce, SequenceStops
<1>5. next' # 1 /\ next' > 1
  BY <1>2, SMT
<1>6. CASE /\ running' = [running EXCEPT ![t] = next]
           /\ pc' = [pc EXCEPT ![t] = "code"]
           /\ UNCHANGED outstanding
  <2>1. Busy' = Busy \cup {t} /\ pc'[t] = "code"
    BY <1>6, BusyAfter
  <2>2. Busy' = {t} /\ outstanding' = {}
    BY <2>1, <1>6 DEF Quiet
  <2>3. running'[t] = next' - 1
    <3>1. running'[t] = next
      BY <1>6, RunningAfter
    <3>2. QED
      BY <3>1, <1>2, SMT
  <2>4. Len(subresults') = next' - 2
    BY <1>2, SMT
  <2>5. SequenceInv'
    BY <1>2, <1>3, <1>5, <2>1, <2>2, <2>3, <2>4 DEF SequenceInv
  <2>6. QED
    BY <1>1, <1>4, <2>5 DEF HandlerInv
<1>7. CASE /\ outstanding' = outstanding \cup {next}
           /\ pc' = [pc EXCEPT ![t] = "idle"]
  <2>1. Busy' = Busy \ {t}
    BY <1>7, BusyAfter
  <2>2. Busy' = {}
    BY <2>1 DEF Quiet
  <2>3. outstanding' = {next' - 1}
    BY <1>2, <1>7, SMT DEF Quiet
  <2>4. Len(subresults') = next' - 2
    BY <1>2, SMT
  <2>5. SequenceInv'
    BY <1>2, <1>3, <1>5, <2>2, <2>3, <2>4 DEF SequenceInv
  <2>6. QED
    BY <1>1, <1>4, <2>5 DEF HandlerInv
<1>8. QED
  BY <1>6, <1>7 DEF StartSubrequest

\* One that throws ends the sequence, with an error reply or without.
LEMMA SequenceThrows ==
    ASSUME TypeOK, NEW t \in Threads, Quiet(t), SubrequestThrows(t),
           UNCHANGED <<kind, fails, dispatching>>
    PROVE  HandlerInv'
<1>1. TypeOK'
  BY ThrowTypes
<1>2. Busy' = {} /\ outstanding' = {}
  <2>1. Busy' = Busy \ {t}
    BY BusyAfter DEF SubrequestThrows
  <2>2. QED
    BY <2>1 DEF Quiet, SubrequestThrows
<1>3. next' # 1
  BY SubrequestsAssumption, SMT DEF SubrequestThrows
<1>4. SequenceInv'
  BY <1>2, <1>3 DEF SequenceInv
<1>5. RepliedOnce' /\ SequenceStops'
  <2> DEFINE e == [status |-> "INTERNAL_SERVER_ERROR", results |-> <<>>]
  <2>1. CASE replies' = Append(replies, e)
    <3>1. replies \in Seq(ReplyRecord) /\ e \in ReplyRecord /\ replies = <<>>
      BY EmptySeq DEF TypeOK, ReplyRecord, Quiet
    <3>2. DOMAIN replies' = {1} /\ Len(replies') = 1 /\ replies'[1] = e
      BY <2>1, <3>1, RepliesGrow
    <3>3. QED
      BY <3>2, SMT DEF RepliedOnce, SequenceStops
  <2>2. CASE replies' = replies
    <3>1. replies' = <<>>
      BY <2>2 DEF Quiet
    <3>2. QED
      BY <3>1, EmptySeq, SMT DEF RepliedOnce, SequenceStops
  <2>3. QED
    BY <2>1, <2>2 DEF SubrequestThrows
<1>6. QED
  BY <1>1, <1>4, <1>5 DEF HandlerInv

\* The callback of a sequence: the results end with the handler's own, which failed or is the
\* last, and nothing is under way any more.
LEMMA SequenceReplies ==
    ASSUME HandlerInv, kind = "sequence", NEW t \in Threads, pc[t] = "scan",
           Stops(running[t]), Reply(t), UNCHANGED <<kind, fails, dispatching>>
    PROVE  HandlerInv'
<1>1. TypeOK'
  BY ReplyTypes DEF HandlerInv
<1>2. t \in Busy
  BY DEF Busy
<1>3. /\ Busy \subseteq {t} /\ outstanding = {} /\ replies = <<>> /\ running[t] = next - 1
      /\ next > 1 /\ \A i \in 1 .. next - 2 : i \notin fails
  BY <1>2 DEF HandlerInv, SequenceInv
<1>4. Len(subresults) = next - 1
  BY <1>2, SMT DEF HandlerInv, SequenceInv
<1>5. next \in Nat /\ N \in Nat /\ Len(subresults) <= N
  BY SubrequestsAssumption, SMT DEF HandlerInv, TypeOK
<1>6. Busy' = {} /\ outstanding' = {} /\ next' = next
  <2>1. Busy' = Busy \ {t}
    BY BusyAfter DEF Reply, HandlerInv
  <2>2. QED
    BY <2>1, <1>3 DEF Reply
<1>7. SequenceInv'
  <2>1. next' # 1
    BY <1>3, <1>5, <1>6, SMT
  <2>2. QED
    BY <2>1, <1>6 DEF SequenceInv
<1> DEFINE r == [status |-> "OK", results |-> subresults]
<1>8. DOMAIN replies' = {1} /\ Len(replies') = 1 /\ replies'[1] = r
  <2>1. replies \in Seq(ReplyRecord) /\ r \in ReplyRecord
    BY DEF HandlerInv, TypeOK, ReplyRecord
  <2>2. QED
    BY <2>1, <1>3, RepliesGrow DEF Reply
<1>9. RepliedOnce'
  BY <1>8, SMT DEF RepliedOnce
<1>10. Len(r.results) = next - 1
  BY <1>4
<1>11. next - 1 = N \/ next - 1 \in fails
  <2>1. CASE running[t] \in fails
    BY <2>1, <1>3
  <2>2. CASE Len(subresults) >= N
    BY <2>2, <1>4, <1>5, SMT
  <2>3. QED
    BY <2>1, <2>2 DEF Stops
<1>12. SequenceStops'
  <2>1. next' = (next - 1) + 1
    BY <1>5, <1>6, SMT
  <2>2. \A i \in 1 .. (next - 1) - 1 : i \notin fails'
    BY <1>3, <1>5, SMT
  <2>3. QED
    BY <1>8, <1>10, <1>11, <2>1, <2>2 DEF SequenceStops
<1>13. QED
  BY <1>1, <1>7, <1>9, <1>12 DEF HandlerInv

\* A worker enters the handler of the subrequest that the swarm has completed.
LEMMA CompletePreserves ==
    ASSUME HandlerInv, NEW t \in Threads, NEW i \in Subs, Complete(t, i)
    PROVE  HandlerInv'
<1>1. /\ i \in outstanding /\ outstanding' = outstanding \ {i}
      /\ running' = [running EXCEPT ![t] = i] /\ pc' = [pc EXCEPT ![t] = "code"]
      /\ UNCHANGED <<kind, fails, dispatching, next, subresults, replies, lost, late>>
  BY DEF Complete
<1>2. TypeOK'
  <2>1. running' \in [Threads -> Subs \cup {Nobody}]
    BY <1>1 DEF HandlerInv, TypeOK
  <2>2. pc' \in [Threads -> {"idle", "code", "body", "scan"}]
    BY <1>1 DEF HandlerInv, TypeOK
  <2>3. \A u \in Busy' : running'[u] \in Subs
    BY <1>1, AtSubrequests DEF HandlerInv
  <2>4. QED
    BY <1>1, <2>1, <2>2, <2>3 DEF HandlerInv, TypeOK
<1>3. SequenceInv'
  <2> SUFFICES ASSUME kind = "sequence"
               PROVE  SequenceInv'
    BY <1>1 DEF SequenceInv
  <2>1. outstanding = {next - 1} /\ Len(subresults) = next - 2 /\ i = next - 1
    BY <1>1 DEF HandlerInv, SequenceInv
  <2>2. Busy = {}
    BY <1>1 DEF HandlerInv, SequenceInv
  <2>3. Busy' = {t} /\ pc'[t] = "code" /\ running'[t] = i /\ outstanding' = {}
    BY <1>1, <2>1, <2>2, BusyAfter, RunningAfter DEF HandlerInv
  <2>4. replies = <<>> /\ next > 1 /\ \A j \in 1 .. next - 2 : j \notin fails
    BY <1>1 DEF HandlerInv, SequenceInv
  <2>5. next # 1
    BY <2>4, SubrequestsAssumption, SMT DEF HandlerInv, TypeOK
  <2>6. QED
    BY <1>1, <2>1, <2>3, <2>4, <2>5 DEF SequenceInv
<1>4. QED
  BY <1>1, <1>2, <1>3 DEF HandlerInv, SequenceStops, RepliedOnce

\* A handler sets its code: the slot of a sequence is appended, and there is room for it.
LEMMA SetCodePreserves ==
    ASSUME HandlerInv, NEW t \in Threads, SetCode(t)
    PROVE  HandlerInv'
<1>1. /\ pc[t] = "code" /\ pc' = [pc EXCEPT ![t] = "body"]
      /\ UNCHANGED <<kind, fails, dispatching, next, outstanding, running, replies, lost, late>>
  BY DEF SetCode
<1>2. t \in Busy
  BY <1>1 DEF Busy
<1>3. pc' \in [Threads -> {"idle", "code", "body", "scan"}]
  BY <1>1 DEF HandlerInv, TypeOK
<1>4. Busy' = Busy \cup {t} /\ pc'[t] = "body" /\ \A u \in Busy' : running'[u] \in Subs
  BY <1>1, BusyAfter, StillAtSubrequests DEF HandlerInv
<1>5. SequenceStops' /\ (kind' = "sequence" => RepliedOnce')
  BY <1>1 DEF HandlerInv, SequenceStops, RepliedOnce
<1>6. subresults \in Seq(Slots) /\ "code" \in Slots /\ N \in Nat /\ next \in 1 .. N + 1
      /\ Len(subresults) <= N
  BY SubrequestsAssumption DEF HandlerInv, TypeOK, Slots
<1>7. CASE kind = "batch"
  <2>1. subresults' \in Seq(Slots) /\ Len(subresults') <= N
    BY <1>6, <1>7, WriteSlot DEF SetCode
  <2>2. TypeOK'
    BY <1>1, <1>3, <1>4, <2>1 DEF HandlerInv, TypeOK
  <2>3. SequenceInv'
    BY <1>1, <1>7 DEF SequenceInv
  <2>4. QED
    BY <2>2, <2>3, <1>5 DEF HandlerInv
<1>8. CASE kind = "sequence"
  <2>1. Len(subresults) = next - 2 /\ running[t] = next - 1 /\ outstanding = {}
    BY <1>1, <1>2, <1>8 DEF HandlerInv, SequenceInv
  <2>2. subresults' = Append(subresults, "code")
    BY <1>8 DEF SetCode
  <2>3. subresults' \in Seq(Slots) /\ Len(subresults') = Len(subresults) + 1
    BY <1>6, <2>2, AppendProperties
  <2>4. Len(subresults') = next - 1 /\ Len(subresults') <= N
    BY <1>6, <2>1, <2>3, SMT
  <2>5. TypeOK'
    BY <1>1, <1>3, <1>4, <2>3, <2>4 DEF HandlerInv, TypeOK
  <2>6. Busy \subseteq {t}
    BY <1>2, <1>8 DEF HandlerInv, SequenceInv
  <2>7. replies = <<>> /\ next > 1 /\ \A i \in 1 .. next - 2 : i \notin fails
    BY <1>2, <1>8 DEF HandlerInv, SequenceInv
  <2>8. next # 1
    BY <1>6, <2>7, SMT
  <2>9. SequenceInv'
    BY <1>1, <1>4, <2>1, <2>4, <2>6, <2>7, <2>8 DEF SequenceInv
  <2>10. QED
    BY <2>5, <2>9, <1>5 DEF HandlerInv
<1>9. QED
  BY <1>7, <1>8 DEF HandlerInv, TypeOK

\* A handler writes its body; nothing is appended.
LEMMA SetBodyPreserves ==
    ASSUME HandlerInv, NEW t \in Threads, SetBody(t)
    PROVE  HandlerInv'
<1>1. /\ pc[t] = "body" /\ pc' = [pc EXCEPT ![t] = "scan"]
      /\ UNCHANGED <<kind, fails, dispatching, next, outstanding, running, replies, lost, late>>
  BY DEF SetBody
<1>2. t \in Busy
  BY <1>1 DEF Busy
<1>3. Busy' = Busy /\ pc'[t] = "scan" /\ \A u \in Threads : u # t => pc'[u] = pc[u]
  <2>1. /\ Busy' = Busy \cup {t} /\ pc'[t] = "scan"
        /\ \A u \in Threads : u # t => pc'[u] = pc[u]
    BY <1>1, BusyAfter DEF HandlerInv
  <2>2. QED
    BY <2>1, <1>2
<1>4. subresults' \in Seq(Slots) /\ Len(subresults') = Len(subresults)
  <2>1. subresults \in Seq(Slots) /\ "full" \in Slots
    BY DEF HandlerInv, TypeOK, Slots
  <2>2. CASE subresults = <<>>
    BY <2>1, <2>2 DEF SetBody
  <2>3. CASE subresults # <<>>
    BY <2>1, <2>3, WriteSlot DEF SetBody
  <2>4. QED
    BY <2>2, <2>3
<1>5. TypeOK'
  <2>1. pc' \in [Threads -> {"idle", "code", "body", "scan"}]
    BY <1>1 DEF HandlerInv, TypeOK
  <2>2. \A u \in Busy' : running'[u] \in Subs
    BY <1>1, StillAtSubrequests DEF HandlerInv
  <2>3. QED
    BY <1>1, <1>4, <2>1, <2>2 DEF HandlerInv, TypeOK
<1>6. ASSUME kind = "sequence"
      PROVE  SequenceInv'
  <2>1. Len(subresults) = next - 1 /\ running[t] = next - 1 /\ outstanding = {}
    BY <1>1, <1>2, <1>6 DEF HandlerInv, SequenceInv
  <2>2. Busy \subseteq {t}
    BY <1>2, <1>6 DEF HandlerInv, SequenceInv
  <2>3. replies = <<>> /\ next > 1 /\ \A i \in 1 .. next - 2 : i \notin fails
    BY <1>2, <1>6 DEF HandlerInv, SequenceInv
  <2>4. next # 1
    BY <2>3, SubrequestsAssumption, SMT DEF HandlerInv, TypeOK
  <2>5. QED
    BY <1>1, <1>3, <1>4, <2>1, <2>2, <2>3, <2>4 DEF SequenceInv
<1>7. SequenceInv'
  BY <1>1, <1>6 DEF SequenceInv
<1>8. QED
  BY <1>1, <1>5, <1>7 DEF HandlerInv, SequenceStops, RepliedOnce

\* For a batch, of which the invariant says no more than its types.
LEMMA BatchTypesSuffice ==
    ASSUME TypeOK', kind = "batch", kind' = kind
    PROVE  HandlerInv'
BY DEF HandlerInv, SequenceInv, SequenceStops

\* Every step keeps the invariant.
LEMMA HandlerStep ==
    ASSUME HandlerInv, [Next]_vars
    PROVE  HandlerInv'
<1>1. TypeOK /\ Main \in Threads
  BY SubrequestsAssumption DEF HandlerInv
<1>2. ASSUME Dispatch
      PROVE  HandlerInv'
  <2>1. kind = "batch" \/ (kind = "sequence" /\ next = 1)
    BY <1>1, <1>2 DEF Dispatch, TypeOK
  <2>2. UNCHANGED <<kind, fails, dispatching>>
    BY <1>2 DEF Dispatch
  <2>3. CASE kind = "batch"
    BY <1>1, <1>2, <2>2, <2>3, StartTypes, ThrowTypes, BatchTypesSuffice DEF Dispatch
  <2>4. CASE kind = "sequence" /\ next = 1
    BY <1>1, <1>2, <2>2, <2>4, QuietAtFirst, SequenceStarts, SequenceThrows DEF Dispatch
  <2>5. QED
    BY <2>1, <2>3, <2>4
<1>3. ASSUME Return
      PROVE  HandlerInv'
  <2>1. UNCHANGED <<kind, fails, next, outstanding, running, pc, subresults, replies, lost, late>>
        /\ dispatching' \in BOOLEAN
    BY <1>3 DEF Return
  <2>2. TypeOK' /\ SequenceInv'
    BY <2>1 DEF HandlerInv, TypeOK, SequenceInv, Busy
  <2>3. QED
    BY <2>1, <2>2 DEF HandlerInv, SequenceStops, RepliedOnce
<1>4. ASSUME NEW t \in Threads, BatchScan(t)
      PROVE  HandlerInv'
  <2>1. kind = "batch" /\ UNCHANGED <<kind, fails, dispatching>>
    BY <1>4 DEF BatchScan
  <2>2. CASE Reply(t)
    BY <1>1, <2>1, <2>2, ReplyTypes, BatchTypesSuffice
  <2>3. CASE /\ running' = [running EXCEPT ![t] = Nobody]
             /\ pc' = [pc EXCEPT ![t] = "idle"]
             /\ UNCHANGED <<next, outstanding, subresults, replies, lost, late>>
    <3>1. running' \in [Threads -> Subs \cup {Nobody}]
      BY <1>1, <2>3 DEF TypeOK
    <3>2. pc' \in [Threads -> {"idle", "code", "body", "scan"}]
      BY <1>1, <2>3 DEF TypeOK
    <3>3. \A u \in Busy' : running'[u] \in Subs
      BY <1>1, <2>3, AtSubrequests
    <3>4. TypeOK'
      BY <1>1, <2>1, <2>3, <3>1, <3>2, <3>3 DEF TypeOK
    <3>5. QED
      BY <2>1, <3>4, BatchTypesSuffice
  <2>4. QED
    BY <1>4, <2>2, <2>3 DEF BatchScan
<1>5. ASSUME NEW t \in Threads, SequenceStep(t)
      PROVE  HandlerInv'
  <2>1. kind = "sequence" /\ pc[t] = "scan" /\ UNCHANGED <<kind, fails, dispatching>>
    BY <1>5 DEF SequenceStep
  <2>2. CASE Stops(running[t])
    BY <1>5, <2>1, <2>2, SequenceReplies DEF SequenceStep
  <2>3. CASE ~Stops(running[t])
    BY <1>1, <1>5, <2>1, <2>3, QuietAfterHandler, SequenceStarts, SequenceThrows DEF SequenceStep
  <2>4. QED
    BY <2>2, <2>3
<1>6. ASSUME UNCHANGED vars
      PROVE  HandlerInv'
  <2>1. UNCHANGED <<kind, fails, next, outstanding, running, pc, subresults, replies, lost,
                    dispatching, late>>
    BY <1>6 DEF vars
  <2>2. TypeOK' /\ SequenceInv'
    BY <2>1 DEF HandlerInv, TypeOK, SequenceInv, Busy
  <2>3. QED
    BY <2>1, <2>2 DEF HandlerInv, SequenceStops, RepliedOnce
<1>7. QED
  BY <1>2, <1>3, <1>4, <1>5, <1>6, CompletePreserves, SetCodePreserves, SetBodyPreserves
     DEF Next, ThreadStep

\* The empty array and the array of null slots are arrays of slots.
LEMMA NullSlots ==
    /\ NullResults \in Seq(Slots) /\ Len(NullResults) = N
    /\ \A i \in Subs : NullResults[i] = "null"
<1>1. NullResults \in [1 .. N -> Slots] /\ DOMAIN NullResults = 1 .. N
  BY DEF NullResults, Subs, Slots
<1>2. NullResults \in Seq(Slots)
  BY <1>1, SubrequestsAssumption, SeqDef
<1>3. Len(NullResults) \in Nat /\ DOMAIN NullResults = 1 .. Len(NullResults)
  BY <1>2, LenProperties
<1>4. Len(NullResults) = N
  BY <1>1, <1>3, SubrequestsAssumption, SMT
<1>5. QED
  BY <1>2, <1>4 DEF NullResults

\* It holds at first.
LEMMA HandlerInit == Init => HandlerInv
<1> SUFFICES ASSUME Init
             PROVE  HandlerInv
  OBVIOUS
<1>1. subresults \in Seq(Slots) /\ Len(subresults) <= N
  BY NullSlots, EmptySeq, SubrequestsAssumption, SMT DEF Init
<1>2. replies = <<>> /\ replies \in Seq(ReplyRecord)
  BY EmptySeq DEF Init
<1>3. TypeOK
  <2>1. next \in 1 .. N + 1 /\ outstanding \subseteq Subs
    BY SubrequestsAssumption, SMT DEF Init
  <2>2. running \in [Threads -> Subs \cup {Nobody}]
    BY DEF Init
  <2>3. pc \in [Threads -> {"idle", "code", "body", "scan"}]
    BY DEF Init
  <2>4. kind \in {"batch", "sequence"} /\ fails \subseteq Subs
    BY DEF Init
  <2>5. dispatching \in BOOLEAN /\ lost \in BOOLEAN /\ late \subseteq Subs
    BY DEF Init
  <2>6. \A t \in Busy : running[t] \in Subs
    BY DEF Init, Busy
  <2>7. QED
    BY <1>1, <1>2, <2>1, <2>2, <2>3, <2>4, <2>5, <2>6 DEF TypeOK, ReplyRecord
<1>4. Busy = {} /\ outstanding = {}
  BY DEF Init, Busy
<1>5. SequenceInv
  BY <1>2, <1>4 DEF Init, SequenceInv
<1>6. QED
  BY <1>2, <1>3, <1>5, NothingReplied DEF HandlerInv

\* On any threads: the inductive invariant of sequences holds.
LEMMA HandlersInvariant == Spec => []HandlerInv
<1>1. HandlerInv /\ [Next]_vars => HandlerInv'
  BY HandlerStep
<1>2. QED
  BY <1>1, HandlerInit, PTL DEF Spec

\* On any threads the state of the endpoints has its types: the array never outgrows the
\* list of subrequests, and no callback gets anything but slots.
THEOREM TypeCorrect == Spec => []TypeOK
<1>1. HandlerInv => TypeOK
  BY DEF HandlerInv
<1>2. QED
  BY <1>1, HandlersInvariant, PTL

\* "method3 is not executed at all, and the result will contain 2 responses": whatever threads
\* complete the subrequests, a sequence's results end with the first failure or with the last
\* subrequest, and nothing beyond them was started.
THEOREM SequencesStop == Spec => []SequenceStops
<1>1. HandlerInv => SequenceStops
  BY DEF HandlerInv
<1>2. QED
  BY <1>1, HandlersInvariant, PTL

\* Whatever threads complete the subrequests, a sequence replies once at most.
THEOREM SequencesReplyOnce == Spec => [](kind = "sequence" => RepliedOnce)
<1>1. HandlerInv => (kind = "sequence" => RepliedOnce)
  BY DEF HandlerInv
<1>2. QED
  BY <1>1, HandlersInvariant, PTL

-----------------------------------------------------------------------------
(***************************************************************************)
(* Batches, on any number of threads.                                      *)
(***************************************************************************)

\* The inductive invariant of both endpoints.
EndpointInv == HandlerInv /\ BatchInv /\ BatchIsFull

\* A thread other than t is about to set the code of subrequest j.
OthersSet(t, j) == \E u \in Threads \ {t} : pc[u] = "code" /\ running[u] = j

\* Thread t goes on to place p of the handler of subrequest i.
Moves(t, p, i) == pc' = [pc EXCEPT ![t] = p] /\ running' = [running EXCEPT ![t] = i]

\* What a thread that moves changes: where it is, not where the others are.
LEMMA MovesOn ==
    ASSUME TypeOK, NEW t \in Threads, NEW p \in {"idle", "code", "body", "scan"}, NEW i,
           Moves(t, p, i)
    PROVE  /\ pc'[t] = p /\ running'[t] = i
           /\ \A u \in Threads : u # t => pc'[u] = pc[u] /\ running'[u] = running[u]
           /\ \A u \in Busy' : u = t \/ u \in Busy
           /\ \A u \in Busy : u = t \/ u \in Busy'
<1>1. /\ pc'[t] = p /\ running'[t] = i
      /\ \A u \in Threads : u # t => pc'[u] = pc[u] /\ running'[u] = running[u]
  BY BusyAfter, RunningAfter DEF Moves
<1>2. QED
  BY <1>1 DEF Busy

\* The slots that are still to be set, before and after a thread has moved.
LEMMA UnsetBefore ==
    ASSUME NEW t \in Threads
    PROVE  \A j : Unset(j) <=> \/ j >= next \/ j \in outstanding \/ OthersSet(t, j)
                               \/ pc[t] = "code" /\ running[t] = j
BY DEF Unset, OthersSet

LEMMA UnsetAfter ==
    ASSUME TypeOK, NEW t \in Threads, NEW p \in {"idle", "code", "body", "scan"}, NEW i,
           Moves(t, p, i)
    PROVE  \A j : Unset(j)' <=> \/ j >= next' \/ j \in outstanding' \/ OthersSet(t, j)
                                \/ p = "code" /\ i = j
<1>1. /\ pc'[t] = p /\ running'[t] = i
      /\ \A u \in Threads : u # t => pc'[u] = pc[u] /\ running'[u] = running[u]
  BY MovesOn
<1>2. QED
  BY <1>1 DEF Unset, OthersSet

\* A slot without a body keeps the handler that is about to write it, if another thread moves.
LEMMA WriterStays ==
    ASSUME TypeOK, NEW t \in Threads, NEW p \in {"idle", "code", "body", "scan"}, NEW i,
           Moves(t, p, i), NEW j, pc[t] # "body" \/ running[t] # j,
           \E u \in Busy : pc[u] = "body" /\ running[u] = j
    PROVE  \E u \in Busy' : pc'[u] = "body" /\ running'[u] = j
<1>1. PICK u \in Busy : pc[u] = "body" /\ running[u] = j
  OBVIOUS
<1>2. u # t /\ u \in Threads
  BY <1>1 DEF Busy
<1>3. pc'[u] = "body" /\ running'[u] = j /\ u \in Busy'
  BY <1>1, <1>2, MovesOn DEF Busy
<1>4. QED
  BY <1>3

\* While nothing has been replied, the slots are what BatchInv says of them.
BatchSlots ==
    /\ Len(subresults) = N
    /\ \A i \in Subs :
           IF Unset(i) THEN subresults[i] = "null"
           ELSE \/ subresults[i] = "full"
                \/ subresults[i] = "code" /\ \E t \in Busy : pc[t] = "body" /\ running[t] = i

\* The handlers under way are those of different subrequests, and none is to be run again.
BatchHandlers ==
    /\ \A i \in outstanding : i < next
    /\ \A t \in Busy : running[t] < next /\ running[t] \notin outstanding
    /\ \A t, u \in Busy : running[t] = running[u] => t = u

\* batch starts a subrequest: its slot is as much to be set as before.
LEMMA BatchStarts ==
    ASSUME EndpointInv, kind = "batch", pc[Main] = "idle",
           StartSubrequest(Main), UNCHANGED <<kind, fails, dispatching>>
    PROVE  BatchInv' /\ BatchIsFull'
<1>0. TypeOK /\ Main \in Threads /\ BatchHandlers
  BY SubrequestsAssumption DEF EndpointInv, HandlerInv, BatchInv, BatchHandlers
<1>1. next \in Nat /\ N \in Nat /\ next <= N /\ next' = next + 1 /\ outstanding \subseteq 1 .. N
  BY SubrequestsAssumption, SMT DEF StartSubrequest, EndpointInv, HandlerInv, TypeOK, Subs
<1>2. UNCHANGED <<subresults, replies>> /\ replies = <<>>
  <2>1. replies # <<>> => next = N + 1
    BY DEF EndpointInv, BatchInv
  <2>2. QED
    BY <1>1, <2>1, SMT DEF StartSubrequest
<1>3. BatchSlots
  BY <1>2 DEF EndpointInv, BatchInv, BatchSlots
<1>4. /\ \A i \in outstanding : i < next /\ i < next + 1 /\ i # next
      /\ \A t \in Busy : running[t] < next /\ running[t] < next + 1 /\ running[t] # next
      /\ next < next + 1 /\ next \notin outstanding
      /\ \A j \in Subs : j >= next <=> j >= next + 1 \/ j = next
  <2>1. \A i \in outstanding : i < next /\ i \in Nat
    BY <1>0, <1>1, SMT DEF BatchHandlers
  <2>2. \A t \in Busy : running[t] < next /\ running[t] \in Nat
    BY <1>0, SMT DEF BatchHandlers, TypeOK, Subs
  <2>3. \A i \in Nat : i < next => i < next + 1 /\ i # next
    BY <1>1, SMT
  <2>4. next < next + 1 /\ \A j \in Subs : j >= next <=> j >= next + 1 \/ j = next
    BY <1>1, SMT DEF Subs
  <2>5. QED
    BY <2>1, <2>2, <2>3, <2>4
<1>5. ASSUME NEW p \in {"idle", "code"}, NEW i, Moves(Main, p, i), BatchHandlers',
             \A j \in Subs : Unset(j)' <=> Unset(j)
      PROVE  BatchInv' /\ BatchIsFull'
  <2>1. p \in {"idle", "code", "body", "scan"}
    OBVIOUS
  <2>2. \A j : (\E t \in Busy : pc[t] = "body" /\ running[t] = j)
                   => \E t \in Busy' : pc'[t] = "body" /\ running'[t] = j
    BY <1>0, <1>5, <2>1, WriterStays
  <2>3. BatchSlots'
    BY <1>2, <1>3, <1>5, <2>2 DEF BatchSlots
  <2>4. replies' = <<>>
    BY <1>2
  <2>5. QED
    BY <1>5, <2>3, <2>4 DEF BatchSlots, BatchHandlers, BatchInv, BatchIsFull
<1>6. Main \notin Busy
  BY DEF Busy
<1>7. CASE /\ running' = [running EXCEPT ![Main] = next]
           /\ pc' = [pc EXCEPT ![Main] = "code"]
           /\ UNCHANGED outstanding
  <2>1. Moves(Main, "code", next)
    BY <1>7 DEF Moves
  <2>2. \A j \in Subs : Unset(j)' <=> Unset(j)
    BY <1>0, <1>1, <1>4, <1>7, <2>1, UnsetBefore, UnsetAfter
  <2>3. /\ running'[Main] = next
        /\ \A u \in Busy' : u = Main \/ (u \in Busy /\ running'[u] = running[u])
    BY <1>0, <2>1, MovesOn DEF Busy
  <2>4. \A i \in outstanding' : i < next'
    BY <1>1, <1>4, <1>7
  <2>5. \A t \in Busy' : running'[t] < next' /\ running'[t] \notin outstanding'
    <3>1. running'[Main] < next' /\ running'[Main] \notin outstanding'
      BY <1>1, <1>4, <1>7, <2>3
    <3>2. ASSUME NEW u \in Busy, running'[u] = running[u]
          PROVE  running'[u] < next' /\ running'[u] \notin outstanding'
      <4>1. running[u] < next + 1 /\ running[u] \notin outstanding
        BY <1>0, <1>4 DEF BatchHandlers
      <4>2. QED
        BY <1>1, <1>7, <3>2, <4>1, SMT
    <3>3. QED
      BY <2>3, <3>1, <3>2
  <2>6. \A t, u \in Busy' : running'[t] = running'[u] => t = u
    BY <1>0, <1>4, <2>3 DEF BatchHandlers
  <2>7. QED
    BY <1>5, <2>1, <2>2, <2>4, <2>5, <2>6 DEF BatchHandlers
<1>8. CASE /\ outstanding' = outstanding \cup {next}
           /\ running' = [running EXCEPT ![Main] = Nobody]
           /\ pc' = [pc EXCEPT ![Main] = "idle"]
  <2>1. Moves(Main, "idle", Nobody)
    BY <1>8 DEF Moves
  <2>2. \A j \in Subs : Unset(j)' <=> Unset(j)
    BY <1>0, <1>1, <1>4, <1>8, <2>1, UnsetBefore, UnsetAfter
  <2>3. \A u \in Busy' : u \in Busy /\ running'[u] = running[u]
    BY <1>0, <2>1, MovesOn DEF Busy
  <2>4. \A i \in outstanding' : i < next'
    BY <1>1, <1>4, <1>8
  <2>5. \A t \in Busy' : running'[t] < next' /\ running'[t] \notin outstanding'
    <3>1. ASSUME NEW u \in Busy, running'[u] = running[u]
          PROVE  running'[u] < next' /\ running'[u] \notin outstanding'
      <4>1. running[u] < next + 1 /\ running[u] \notin outstanding /\ running[u] # next
        BY <1>0, <1>4 DEF BatchHandlers
      <4>2. QED
        BY <1>1, <1>8, <3>1, <4>1, SMT
    <3>2. QED
      BY <2>3, <3>1
  <2>6. \A t, u \in Busy' : running'[t] = running'[u] => t = u
    BY <1>0, <2>3 DEF BatchHandlers
  <2>7. QED
    BY <1>5, <2>1, <2>2, <2>4, <2>5, <2>6 DEF BatchHandlers
<1>9. QED
  BY <1>7, <1>8 DEF StartSubrequest

\* A subrequest of a batch throws on the dispatching thread: an error is the reply, and the
\* slot of the subrequest is left null for good.
LEMMA BatchThrows ==
    ASSUME EndpointInv, kind = "batch", dispatching, pc[Main] = "idle",
           SubrequestThrows(Main), UNCHANGED <<kind, fails, dispatching>>
    PROVE  BatchInv' /\ BatchIsFull'
<1> DEFINE e == [status |-> "INTERNAL_SERVER_ERROR", results |-> <<>>]
<1>0. TypeOK /\ Main \in Threads /\ BatchHandlers
  BY SubrequestsAssumption DEF EndpointInv, HandlerInv, BatchInv, BatchHandlers
<1>1. next \in 1 .. N /\ N \in Nat /\ outstanding \subseteq 1 .. N
  BY SubrequestsAssumption, SMT DEF SubrequestThrows, EndpointInv, HandlerInv, TypeOK, Subs
<1>2. /\ next' = N + 1 /\ replies' = Append(replies, e)
      /\ UNCHANGED <<outstanding, subresults>>
      /\ Moves(Main, "idle", Nobody)
  BY DEF SubrequestThrows, Moves
<1>3. replies = <<>>
  <2>1. replies # <<>> => next = N + 1
    BY DEF EndpointInv, BatchInv
  <2>2. QED
    BY <1>1, <2>1, SMT
<1>4. DOMAIN replies' = {1} /\ Len(replies') = 1 /\ replies'[1] = e /\ replies' # <<>>
  <2>1. replies \in Seq(ReplyRecord) /\ e \in ReplyRecord
    BY <1>0, EmptySeq DEF TypeOK, ReplyRecord
  <2>2. QED
    BY <1>2, <1>3, <2>1, RepliesGrow
<1>5. \A u \in Busy' : u \in Busy /\ running'[u] = running[u]
  BY <1>0, <1>2, MovesOn DEF Busy
<1>6. PICK k : k = next
  OBVIOUS
<1>7. /\ \A i \in outstanding : i < N + 1 /\ i # k
      /\ \A t \in Busy : running[t] < N + 1 /\ running[t] # k
      /\ k \in Subs /\ k >= next /\ ~(k >= N + 1)
  <2>1. \A i \in outstanding : i < next /\ i \in Subs
    BY <1>0, <1>1 DEF BatchHandlers, Subs
  <2>2. \A t \in Busy : running[t] < next /\ running[t] \in Subs
    BY <1>0 DEF BatchHandlers, TypeOK
  <2>3. \A i \in Subs : i < next => i < N + 1 /\ i # next
    BY <1>1, SMT DEF Subs
  <2>4. k \in Subs /\ k >= next /\ ~(k >= N + 1)
    BY <1>1, <1>6, SMT DEF Subs
  <2>5. QED
    BY <1>6, <2>1, <2>2, <2>3, <2>4
<1>8. BatchHandlers'
  BY <1>0, <1>2, <1>5, <1>7 DEF BatchHandlers
<1>9. Len(subresults') = N /\ subresults'[k] = "null"
  <2>1. Unset(k)
    BY <1>7 DEF Unset
  <2>2. QED
    BY <1>2, <1>3, <1>7, <2>1 DEF EndpointInv, BatchInv
<1>10. ~Unset(k)' /\ \A t \in Busy' : running'[t] # k
  <2>1. ~OthersSet(Main, k)
    BY <1>7 DEF OthersSet, Busy
  <2>2. ~Unset(k)'
    BY <1>0, <1>2, <1>7, <2>1, UnsetAfter
  <2>3. QED
    BY <1>5, <1>7, <2>2
<1>11. replies'[1].status # "OK"
  BY <1>4, SMT
<1>12. QED
  BY <1>2, <1>4, <1>7, <1>8, <1>9, <1>10, <1>11 DEF BatchInv, BatchHandlers, BatchIsFull

\* The invariant of a batch, by what has been replied.
BatchAfter ==
    /\ next = N + 1
    /\ IF replies[1].status = "OK"
       THEN /\ outstanding = {} /\ subresults = <<>> /\ InHand \subseteq late
            /\ \A t \in Busy : pc[t] # "code"
            /\ Len(replies) = 1 + Cardinality(late \ InHand)
       ELSE /\ Len(subresults) = N /\ Len(replies) = 1
            /\ \E i \in Subs : ~Unset(i) /\ subresults[i] = "null"
                              /\ \A t \in Busy : running[t] # i

LEMMA BatchParts ==
    ASSUME kind = "batch"
    PROVE  BatchInv <=> /\ BatchHandlers
                        /\ replies = <<>> => BatchSlots
                        /\ replies # <<>> => BatchAfter
BY DEF BatchInv, BatchHandlers, BatchSlots, BatchAfter

LEMMA BatchPartsNext ==
    ASSUME kind' = "batch", BatchHandlers', replies' = <<>> => BatchSlots',
           replies' # <<>> => BatchAfter'
    PROVE  BatchInv'
BY DEF BatchInv, BatchHandlers, BatchSlots, BatchAfter

\* A worker enters the handler of a subrequest that the swarm has completed.
LEMMA BatchCompletes ==
    ASSUME EndpointInv, kind = "batch", NEW t \in Threads, NEW i \in Subs, Complete(t, i)
    PROVE  BatchInv'
<1>0. TypeOK /\ BatchHandlers
  BY DEF EndpointInv, HandlerInv, BatchInv, BatchHandlers
<1>1. /\ i \in outstanding /\ outstanding' = outstanding \ {i} /\ pc[t] = "idle"
      /\ UNCHANGED <<kind, next, subresults, replies>>
      /\ Moves(t, "code", i)
  BY DEF Complete, Moves
<1>2. \A j : Unset(j)' <=> Unset(j)
  BY <1>0, <1>1, UnsetBefore, UnsetAfter
<1>3. /\ running'[t] = i
      /\ \A u \in Busy' : u = t \/ (u \in Busy /\ running'[u] = running[u])
  BY <1>0, <1>1, MovesOn DEF Busy
<1>4. \A u \in Busy : running[u] # i /\ running[u] \notin outstanding'
  BY <1>0, <1>1 DEF BatchHandlers
<1>5. BatchHandlers'
  <2>1. \A j \in outstanding' : j < next'
    BY <1>0, <1>1 DEF BatchHandlers
  <2>2. \A u \in Busy' : running'[u] < next' /\ running'[u] \notin outstanding'
    <3>1. running'[t] < next' /\ running'[t] \notin outstanding'
      BY <1>0, <1>1, <1>3 DEF BatchHandlers
    <3>2. \A u \in Busy : running[u] < next'
      BY <1>0, <1>1 DEF BatchHandlers
    <3>3. QED
      BY <1>3, <1>4, <3>1, <3>2
  <2>3. \A u, v \in Busy' : running'[u] = running'[v] => u = v
    BY <1>0, <1>3, <1>4 DEF BatchHandlers
  <2>4. QED
    BY <2>1, <2>2, <2>3 DEF BatchHandlers
<1>6. ASSUME replies = <<>>
      PROVE  BatchSlots'
  <2>1. BatchSlots
    BY <1>6, BatchParts DEF EndpointInv
  <2>2. \A j : (\E u \in Busy : pc[u] = "body" /\ running[u] = j)
                   => \E u \in Busy' : pc'[u] = "body" /\ running'[u] = j
    BY <1>0, <1>1, WriterStays
  <2>3. QED
    BY <1>1, <1>2, <2>1, <2>2 DEF BatchSlots
<1>7. ASSUME replies # <<>>
      PROVE  BatchAfter'
  <2>1. BatchAfter
    BY <1>7, BatchParts DEF EndpointInv
  <2>2. /\ next = N + 1 /\ replies[1].status # "OK" /\ Len(subresults) = N /\ Len(replies) = 1
        /\ \E k \in Subs : /\ ~Unset(k) /\ subresults[k] = "null"
                           /\ \A u \in Busy : running[u] # k
    BY <1>1, <2>1 DEF BatchAfter
  <2>3. PICK k \in Subs : /\ ~Unset(k) /\ subresults[k] = "null"
                          /\ \A u \in Busy : running[u] # k
    BY <2>2
  <2>4. k # i
    BY <1>1, <2>3 DEF Unset
  <2>5. ~Unset(k)' /\ subresults'[k] = "null" /\ \A u \in Busy' : running'[u] # k
    BY <1>1, <1>2, <1>3, <2>3, <2>4
  <2>6. QED
    BY <1>1, <2>2, <2>5 DEF BatchAfter
<1>8. QED
  BY <1>1, <1>5, <1>6, <1>7, BatchPartsNext

\* What a handler that stays at its subrequest does not disturb.
LEMMA StaysApart ==
    ASSUME EndpointInv, kind = "batch", NEW t \in Threads, NEW p \in {"body", "scan"},
           pc[t] # "idle", pc' = [pc EXCEPT ![t] = p],
           UNCHANGED <<next, outstanding, running>>
    PROVE  /\ Moves(t, p, running[t]) /\ BatchHandlers' /\ Busy' = Busy /\ InHand' = InHand
           /\ running[t] \in Subs /\ running[t] < next /\ running[t] \notin outstanding
           /\ ~OthersSet(t, running[t])
<1>0. TypeOK /\ BatchHandlers
  BY DEF EndpointInv, HandlerInv, BatchInv, BatchHandlers
<1>1. Moves(t, p, running[t])
  BY <1>0 DEF Moves, TypeOK
<1>2. Busy' = Busy
  BY <1>0, StillAtSubrequests
<1>3. BatchHandlers' /\ InHand' = InHand
  BY <1>0, <1>2 DEF BatchHandlers, InHand
<1>4. t \in Busy
  BY DEF Busy
<1>5. running[t] \in Subs /\ running[t] < next /\ running[t] \notin outstanding
  BY <1>0, <1>4 DEF BatchHandlers, TypeOK
<1>6. ~OthersSet(t, running[t])
  <2>1. \A u \in Threads : pc[u] = "code" => u \in Busy
    BY DEF Busy
  <2>2. QED
    BY <1>0, <1>4, <2>1 DEF BatchHandlers, OthersSet
<1>7. QED
  BY <1>1, <1>2, <1>3, <1>5, <1>6

\* The handler sets its code: of the slots only its own changes, which is no longer to be set.
LEMMA BatchSetsCode ==
    ASSUME EndpointInv, kind = "batch", NEW t \in Threads, SetCode(t)
    PROVE  BatchInv'
<1>0. TypeOK
  BY DEF EndpointInv, HandlerInv
<1>1. PICK i : i = running[t]
  OBVIOUS
<1>2. /\ pc[t] = "code" /\ subresults' = [subresults EXCEPT ![i] = "code"]
      /\ pc' = [pc EXCEPT ![t] = "body"]
      /\ UNCHANGED <<kind, next, outstanding, running, replies>>
  BY <1>1 DEF SetCode
<1>3. /\ Moves(t, "body", i) /\ BatchHandlers' /\ Busy' = Busy /\ t \in Busy
      /\ i \in Subs /\ i < next /\ i \notin outstanding /\ ~OthersSet(t, i)
  BY <1>1, <1>2, StaysApart DEF Busy
<1>4. /\ Len(subresults') = Len(subresults)
      /\ \A j \in 1 .. Len(subresults) : subresults'[j] = IF j = i THEN "code" ELSE subresults[j]
  <2>1. subresults \in Seq(Slots) /\ "code" \in Slots
    BY <1>0 DEF TypeOK, Slots
  <2>2. QED
    BY <1>2, <2>1, WriteSlot, SMT
<1>5. \A j \in Subs : Unset(j)' <=> Unset(j) /\ j # i
  <2>1. ~(i >= next)
    BY <1>0, <1>3, SubrequestsAssumption, SMT DEF Subs, TypeOK
  <2>2. \A j \in Subs : Unset(j) <=> j >= next \/ j \in outstanding \/ OthersSet(t, j) \/ i = j
    BY <1>1, <1>2, UnsetBefore
  <2>3. \A j \in Subs : Unset(j)' <=> j >= next \/ j \in outstanding \/ OthersSet(t, j)
    BY <1>0, <1>2, <1>3, UnsetAfter
  <2>4. QED
    BY <1>3, <2>1, <2>2, <2>3
<1>6. Moves(t, "body", i)
  BY <1>3
<1>7. pc'[t] = "body" /\ running'[t] = i
  BY <1>0, <1>6, MovesOn, SMT
<1>8. ASSUME replies = <<>>
      PROVE  BatchSlots'
  <2>1. BatchSlots
    BY <1>8, BatchParts DEF EndpointInv
  <2>2. Len(subresults') = N
    BY <1>4, <2>1 DEF BatchSlots
  <2>3. ASSUME NEW j \in Subs, Unset(j)'
        PROVE  subresults'[j] = "null"
    BY <1>4, <1>5, <2>1, <2>3 DEF BatchSlots, Subs
  <2>4. ASSUME NEW j \in Subs, ~Unset(j)'
        PROVE  \/ subresults'[j] = "full"
               \/ subresults'[j] = "code" /\ \E u \in Busy' : pc'[u] = "body" /\ running'[u] = j
    <3>1. CASE j = i
      BY <1>3, <1>4, <1>7, <2>1, <3>1 DEF BatchSlots, Subs
    <3>2. CASE j # i
      <4>1. ~Unset(j) /\ subresults'[j] = subresults[j]
        BY <1>4, <1>5, <2>1, <2>4, <3>2 DEF BatchSlots, Subs
      <4>2. \/ subresults[j] = "full"
            \/ subresults[j] = "code" /\ \E u \in Busy : pc[u] = "body" /\ running[u] = j
        BY <2>1, <4>1 DEF BatchSlots
      <4>3. (\E u \in Busy : pc[u] = "body" /\ running[u] = j)
                => \E u \in Busy' : pc'[u] = "body" /\ running'[u] = j
        BY <1>0, <1>2, <1>6, WriterStays, SMT
      <4>4. QED
        BY <4>1, <4>2, <4>3
    <3>3. QED
      BY <3>1, <3>2
  <2>5. QED
    BY <2>2, <2>3, <2>4 DEF BatchSlots
<1>9. ASSUME replies # <<>>
      PROVE  BatchAfter'
  <2>1. BatchAfter
    BY <1>9, BatchParts DEF EndpointInv
  <2>2. /\ next = N + 1 /\ replies[1].status # "OK" /\ Len(subresults) = N /\ Len(replies) = 1
        /\ \E k \in Subs : /\ ~Unset(k) /\ subresults[k] = "null"
                           /\ \A u \in Busy : running[u] # k
    BY <1>2, <1>3, <2>1 DEF BatchAfter
  <2>3. PICK k \in Subs : /\ ~Unset(k) /\ subresults[k] = "null"
                          /\ \A u \in Busy : running[u] # k
    BY <2>2
  <2>4. k # i
    BY <1>1, <1>3, <2>3
  <2>5. ~Unset(k)' /\ subresults'[k] = "null" /\ \A u \in Busy' : running'[u] # k
    BY <1>2, <1>3, <1>4, <1>5, <2>2, <2>3, <2>4 DEF Subs
  <2>6. QED
    BY <1>2, <1>4, <2>2, <2>5 DEF BatchAfter
<1>10. QED
  BY <1>2, <1>3, <1>8, <1>9, BatchPartsNext

\* The handler writes its body.
LEMMA BatchSetsBody ==
    ASSUME EndpointInv, kind = "batch", NEW t \in Threads, SetBody(t)
    PROVE  BatchInv'
<1>0. TypeOK
  BY DEF EndpointInv, HandlerInv
<1>1. PICK i : i = running[t]
  OBVIOUS
<1>2. /\ pc[t] = "body" /\ pc' = [pc EXCEPT ![t] = "scan"]
      /\ UNCHANGED <<kind, next, outstanding, running, replies, late>>
  BY DEF SetBody
<1>3. /\ Moves(t, "scan", i) /\ BatchHandlers' /\ Busy' = Busy /\ InHand' = InHand
      /\ i \in Subs /\ i < next /\ i \notin outstanding /\ ~OthersSet(t, i) /\ t \in Busy
  BY <1>1, <1>2, StaysApart DEF Busy
<1>4. Moves(t, "scan", i)
  BY <1>3
<1>5. \A j : Unset(j)' <=> Unset(j)
  BY <1>0, <1>2, <1>4, UnsetBefore, UnsetAfter, SMT
<1>6. ~Unset(i)
  <2>1. ~(i >= next)
    BY <1>0, <1>3, SubrequestsAssumption, SMT DEF Subs, TypeOK
  <2>2. QED
    BY <1>2, <1>3, <2>1, UnsetBefore
<1>7. ASSUME Len(subresults) = N
      PROVE  /\ Len(subresults') = N
             /\ \A j \in Subs : subresults'[j] = IF j = i THEN "full" ELSE subresults[j]
  <2>1. subresults \in Seq(Slots) /\ "full" \in Slots
    BY <1>0 DEF TypeOK, Slots
  <2>2. subresults # <<>>
    BY <1>7, EmptySeq, SubrequestsAssumption
  <2>3. subresults' = [subresults EXCEPT ![i] = "full"]
    BY <1>1, <2>2 DEF SetBody
  <2>4. QED
    BY <1>7, <2>1, <2>3, WriteSlot, SMT DEF Subs
<1>8. ASSUME replies = <<>>
      PROVE  BatchSlots'
  <2>1. BatchSlots
    BY <1>8, BatchParts DEF EndpointInv
  <2>2. /\ Len(subresults') = N
        /\ \A j \in Subs : subresults'[j] = IF j = i THEN "full" ELSE subresults[j]
    BY <1>7, <2>1 DEF BatchSlots
  <2>3. ASSUME NEW j \in Subs, Unset(j)'
        PROVE  subresults'[j] = "null"
    BY <1>5, <1>6, <2>1, <2>2, <2>3 DEF BatchSlots
  <2>4. ASSUME NEW j \in Subs, ~Unset(j)'
        PROVE  \/ subresults'[j] = "full"
               \/ subresults'[j] = "code" /\ \E u \in Busy' : pc'[u] = "body" /\ running'[u] = j
    <3>1. CASE j = i
      BY <2>2, <3>1
    <3>2. CASE j # i
      <4>1. ~Unset(j) /\ subresults'[j] = subresults[j]
        BY <1>5, <2>2, <2>4, <3>2
      <4>2. \/ subresults[j] = "full"
            \/ subresults[j] = "code" /\ \E u \in Busy : pc[u] = "body" /\ running[u] = j
        BY <2>1, <4>1 DEF BatchSlots
      <4>3. (\E u \in Busy : pc[u] = "body" /\ running[u] = j)
                => \E u \in Busy' : pc'[u] = "body" /\ running'[u] = j
        BY <1>0, <1>1, <1>4, <3>2, WriterStays, SMT
      <4>4. QED
        BY <4>1, <4>2, <4>3
    <3>3. QED
      BY <3>1, <3>2
  <2>5. QED
    BY <2>2, <2>3, <2>4 DEF BatchSlots
<1>9. ASSUME replies # <<>>, replies[1].status = "OK"
      PROVE  BatchAfter'
  <2>1. BatchAfter
    BY <1>9, BatchParts DEF EndpointInv
  <2>2. subresults' = <<>> /\ \A u \in Busy' : pc'[u] # "code"
    <3>1. subresults' = <<>>
      BY <1>9, <2>1 DEF BatchAfter, SetBody
    <3>2. pc'[t] = "scan" /\ \A u \in Threads : u # t => pc'[u] = pc[u]
      BY <1>0, <1>4, MovesOn, SMT
    <3>3. \A u \in Busy : u \in Threads /\ pc[u] # "code"
      BY <1>9, <2>1 DEF BatchAfter, Busy
    <3>4. QED
      BY <1>3, <3>1, <3>2, <3>3
  <2>3. QED
    BY <1>2, <1>3, <1>9, <2>1, <2>2 DEF BatchAfter
<1>10. ASSUME replies # <<>>, replies[1].status # "OK"
       PROVE  BatchAfter'
  <2>1. BatchAfter
    BY <1>10, BatchParts DEF EndpointInv
  <2>2. PICK k \in Subs : /\ ~Unset(k) /\ subresults[k] = "null"
                          /\ \A u \in Busy : running[u] # k
    BY <1>10, <2>1 DEF BatchAfter
  <2>3. next = N + 1 /\ Len(replies) = 1 /\ Len(subresults) = N
    BY <1>10, <2>1 DEF BatchAfter
  <2>4. k # i
    BY <1>1, <1>3, <2>2
  <2>5. ~Unset(k)' /\ subresults'[k] = "null" /\ \A u \in Busy' : running'[u] # k
    BY <1>2, <1>3, <1>5, <1>7, <2>2, <2>3, <2>4
  <2>6. QED
    BY <1>2, <1>7, <1>10, <2>3, <2>5 DEF BatchAfter
<1>11. QED
  BY <1>2, <1>3, <1>8, <1>9, <1>10, BatchPartsNext

\* The sets of subrequests that TypeOK knows of are finite.
LEMMA SubsFinite ==
    ASSUME NEW S \in SUBSET Subs
    PROVE  IsFiniteSet(S) /\ Cardinality(S) \in Nat
<1>1. IsFiniteSet(Subs)
  BY FS_Interval, SubrequestsAssumption, SMT DEF Subs
<1>2. IsFiniteSet(S)
  BY <1>1, FS_Subset
<1>3. QED
  BY <1>2, FS_CardinalityType

\* The handler has left: what is in hand is what was, without its subrequest.
LEMMA HandlerLeaves ==
    ASSUME EndpointInv, kind = "batch", NEW t \in Threads, pc[t] = "scan",
           Moves(t, "idle", Nobody), UNCHANGED <<next, outstanding>>
    PROVE  /\ BatchHandlers' /\ Busy' = Busy \ {t}
           /\ \A u \in Busy' : u # t /\ pc'[u] = pc[u] /\ running'[u] = running[u]
           /\ InHand' = {running[u] : u \in Busy \ {t}}
           /\ InHand' = InHand \ {running[t]} /\ running[t] \in InHand
           /\ \A j : Unset(j)' <=> Unset(j)
<1>0. TypeOK /\ BatchHandlers
  BY DEF EndpointInv, HandlerInv, BatchInv, BatchHandlers
<1>1. Busy' = Busy \ {t} /\ t \in Busy
  BY <1>0, BusyAfter DEF Moves, Busy
<1>2. \A u \in Busy \ {t} : u # t /\ pc'[u] = pc[u] /\ running'[u] = running[u]
  BY <1>0, MovesOn, SMT DEF Busy
<1>3. BatchHandlers'
  <2>1. \A u \in Busy' : u \in Busy /\ running'[u] = running[u]
    BY <1>1, <1>2
  <2>2. QED
    BY <1>0, <2>1 DEF BatchHandlers
<1>4. InHand' = {running[u] : u \in Busy \ {t}}
  <2>1. InHand' = {running'[u] : u \in Busy \ {t}}
    BY <1>1 DEF InHand
  <2>2. QED
    BY <1>2, <2>1
<1>5. InHand' = InHand \ {running[t]} /\ running[t] \in InHand
  BY <1>0, <1>1, <1>4 DEF InHand, BatchHandlers
<1>6. \A j : Unset(j)' <=> Unset(j)
  BY <1>0, UnsetBefore, UnsetAfter, SMT
<1>7. QED
  BY <1>1, <1>2, <1>3, <1>4, <1>5, <1>6

\* The first time a handler finds no null slot: the codes are all set, nothing is left to start
\* or to complete, and a slot without a body is that of a handler on another thread.
LEMMA BatchRepliesFirst ==
    ASSUME EndpointInv, kind = "batch", NEW t \in Threads, pc[t] = "scan", replies = <<>>,
           AllFilled(running[t]), Reply(t), UNCHANGED <<kind, fails, dispatching>>
    PROVE  BatchInv' /\ BatchIsFull'
<1>0. TypeOK /\ BatchSlots
  BY BatchParts DEF EndpointInv, HandlerInv
<1>1. Moves(t, "idle", Nobody) /\ UNCHANGED <<next, outstanding>> /\ subresults' = <<>>
  BY DEF Reply, Moves
<1>2. late' = {running[u] : u \in Busy \ {t}}
  BY DEF Reply
<1>3. /\ BatchHandlers' /\ Busy' = Busy \ {t} /\ InHand' = late'
      /\ \A u \in Busy' : u # t /\ pc'[u] = pc[u] /\ running'[u] = running[u]
  BY <1>1, <1>2, HandlerLeaves
<1>4. DOMAIN subresults = Subs /\ subresults \in Seq(Slots)
  BY <1>0, LenProperties DEF TypeOK, Subs, BatchSlots
<1>5. \A j \in Subs : ~Unset(j)
  BY <1>0, <1>4 DEF AllFilled, BatchSlots
<1>6. next = N + 1 /\ outstanding = {} /\ \A u \in Busy : pc[u] # "code"
  <2>1. N \in Subs /\ N \in Nat /\ next \in 1 .. N + 1 /\ outstanding \subseteq Subs
    BY <1>0, SubrequestsAssumption, SMT DEF Subs, TypeOK
  <2>2. ~(N >= next) /\ outstanding = {}
    BY <1>5, <2>1 DEF Unset
  <2>3. next = N + 1
    BY <2>1, <2>2, SMT
  <2>4. \A u \in Busy : u \in Threads /\ running[u] \in Subs
    BY <1>0 DEF TypeOK, Busy
  <2>5. \A u \in Busy : pc[u] # "code"
    BY <1>5, <2>4 DEF Unset
  <2>6. QED
    BY <2>2, <2>3, <2>5
<1> DEFINE r == [status |-> "OK", results |-> subresults]
<1>7. Len(replies') = 1 /\ replies'[1] = r /\ replies' # <<>>
  <2>1. replies \in Seq(ReplyRecord) /\ r \in ReplyRecord
    BY <1>0 DEF TypeOK, ReplyRecord
  <2>2. QED
    BY <2>1, RepliesGrow DEF Reply
<1>8. replies'[1].status = "OK" /\ replies'[1].results = subresults
  BY <1>7, SMT
<1>9. Len(replies') = 1 + Cardinality(late' \ InHand')
  <2>1. late' \ InHand' = {}
    BY <1>3
  <2>2. Cardinality(late' \ InHand') = 0
    BY <2>1, FS_EmptySet
  <2>3. QED
    BY <1>7, <2>2, SMT
<1>10. BatchInv'
  <2>1. \A u \in Busy' : pc'[u] # "code"
    BY <1>3, <1>6
  <2>2. BatchAfter'
    BY <1>1, <1>3, <1>6, <1>8, <1>9, <2>1 DEF BatchAfter
  <2>3. QED
    BY <1>3, <1>7, <2>2, BatchPartsNext
<1>11. \A j \in Subs : subresults[j] = "full" \/ (subresults[j] = "code" /\ j \in late')
  <2>1. SUFFICES ASSUME NEW j \in Subs, subresults[j] # "full"
                 PROVE  subresults[j] = "code" /\ j \in late'
    OBVIOUS
  <2>2. subresults[j] = "code" /\ \E u \in Busy : pc[u] = "body" /\ running[u] = j
    BY <1>0, <1>5, <2>1 DEF BatchSlots
  <2>3. PICK u \in Busy : pc[u] = "body" /\ running[u] = j
    BY <2>2
  <2>4. u # t
    BY <2>3
  <2>5. QED
    BY <1>2, <2>2, <2>3, <2>4
<1>12. BatchIsFull'
  BY <1>1, <1>4, <1>6, <1>8, <1>11 DEF BatchIsFull
<1>13. QED
  BY <1>10, <1>12

\* A handler that finds the array moved out replies again, and was one of the late ones.
LEMMA BatchRepliesAgain ==
    ASSUME EndpointInv, kind = "batch", NEW t \in Threads, pc[t] = "scan", replies # <<>>,
           AllFilled(running[t]), Reply(t), UNCHANGED <<kind, fails, dispatching>>
    PROVE  BatchInv' /\ BatchIsFull'
<1>0. TypeOK /\ BatchAfter
  BY BatchParts DEF EndpointInv, HandlerInv
<1>1. Moves(t, "idle", Nobody) /\ UNCHANGED <<next, outstanding, late>> /\ subresults' = <<>>
  BY DEF Reply, Moves
<1>2. /\ BatchHandlers' /\ Busy' = Busy \ {t}
      /\ InHand' = InHand \ {running[t]} /\ running[t] \in InHand
      /\ \A u \in Busy' : u # t /\ pc'[u] = pc[u] /\ running'[u] = running[u]
  BY <1>1, HandlerLeaves
<1>3. replies[1].status = "OK"
  <2>1. SUFFICES ASSUME replies[1].status # "OK"
                 PROVE  FALSE
    OBVIOUS
  <2>2. Len(subresults) = N /\ \E k \in Subs : subresults[k] = "null"
    BY <1>0, <2>1 DEF BatchAfter
  <2>3. DOMAIN subresults = Subs
    BY <1>0, <2>2, LenProperties DEF TypeOK, Subs
  <2>4. QED
    BY <2>2, <2>3 DEF AllFilled
<1>4. /\ next = N + 1 /\ outstanding = {} /\ InHand \subseteq late
      /\ \A u \in Busy : pc[u] # "code"
      /\ Len(replies) = 1 + Cardinality(late \ InHand)
  BY <1>0, <1>3 DEF BatchAfter
<1> DEFINE r == [status |-> "OK", results |-> subresults]
<1>5. Len(replies') = Len(replies) + 1 /\ replies'[1] = replies[1] /\ replies' # <<>>
  <2>1. replies \in Seq(ReplyRecord) /\ r \in ReplyRecord
    BY <1>0 DEF TypeOK, ReplyRecord
  <2>2. QED
    BY <2>1, RepliesGrow DEF Reply
<1>6. Len(replies') = 1 + Cardinality(late' \ InHand')
  <2>1. late' \ InHand' = (late \ InHand) \cup {running[t]} /\ running[t] \notin late \ InHand
    BY <1>1, <1>2, <1>4
  <2>2. IsFiniteSet(late \ InHand) /\ Cardinality(late \ InHand) \in Nat
    <3>1. late \ InHand \in SUBSET Subs
      BY <1>0 DEF TypeOK
    <3>2. QED
      BY <3>1, SubsFinite
  <2>3. Cardinality(late' \ InHand') = Cardinality(late \ InHand) + 1
    BY <2>1, <2>2, FS_AddElement
  <2>4. QED
    BY <1>4, <1>5, <2>2, <2>3, SMT
<1>7. BatchInv'
  <2>1. \A u \in Busy' : pc'[u] # "code"
    BY <1>2, <1>4
  <2>2. InHand' \subseteq late'
    BY <1>1, <1>2, <1>4
  <2>3. BatchAfter'
    BY <1>1, <1>3, <1>4, <1>5, <1>6, <2>1, <2>2 DEF BatchAfter
  <2>4. QED
    BY <1>2, <1>5, <2>3, BatchPartsNext
<1>8. BatchIsFull'
  BY <1>1, <1>4, <1>5 DEF BatchIsFull, EndpointInv
<1>9. QED
  BY <1>7, <1>8

\* The handler finds a null slot and leaves.
LEMMA BatchLeaves ==
    ASSUME EndpointInv, kind = "batch", NEW t \in Threads, pc[t] = "scan",
           ~AllFilled(running[t]), Moves(t, "idle", Nobody),
           UNCHANGED <<kind, next, outstanding, subresults, replies, late>>
    PROVE  BatchInv'
<1>0. TypeOK
  BY DEF EndpointInv, HandlerInv
<1>1. /\ BatchHandlers' /\ Busy' = Busy \ {t}
      /\ \A u \in Busy' : u # t /\ pc'[u] = pc[u] /\ running'[u] = running[u]
      /\ \A j : Unset(j)' <=> Unset(j)
  BY HandlerLeaves
<1>2. ASSUME replies = <<>>
      PROVE  BatchSlots'
  <2>1. BatchSlots
    BY <1>2, BatchParts DEF EndpointInv
  <2>2. \A j : (\E u \in Busy : pc[u] = "body" /\ running[u] = j)
                   => \E u \in Busy' : pc'[u] = "body" /\ running'[u] = j
    BY <1>0, WriterStays, SMT
  <2>3. QED
    BY <1>1, <2>1, <2>2 DEF BatchSlots
<1>3. ASSUME replies # <<>>
      PROVE  BatchAfter'
  <2>1. BatchAfter
    BY <1>3, BatchParts DEF EndpointInv
  <2>2. replies[1].status # "OK"
    <3>1. subresults = <<>> => AllFilled(running[t])
      BY SMT DEF AllFilled
    <3>2. QED
      BY <2>1, <3>1 DEF BatchAfter
  <2>3. PICK k \in Subs : /\ ~Unset(k) /\ subresults[k] = "null"
                          /\ \A u \in Busy : running[u] # k
    BY <2>1, <2>2 DEF BatchAfter
  <2>4. ~Unset(k)' /\ subresults'[k] = "null" /\ \A u \in Busy' : running'[u] # k
    BY <1>1, <2>3
  <2>5. QED
    BY <2>1, <2>2, <2>4 DEF BatchAfter
<1>4. QED
  BY <1>1, <1>2, <1>3, BatchPartsNext

\* Every step of every thread keeps the invariant.
LEMMA EndpointStep ==
    ASSUME EndpointInv, [Next]_vars
    PROVE  EndpointInv'
<1>1. HandlerInv'
  BY HandlerStep DEF EndpointInv
<1>2. CASE kind = "sequence"
  <2>1. kind' = "sequence"
    BY <1>2 DEF Next, Dispatch, Return, ThreadStep, SetCode, SetBody, BatchScan, SequenceStep,
        Complete, vars
  <2>2. QED
    BY <1>1, <2>1 DEF EndpointInv, BatchInv, BatchIsFull
<1>3. CASE kind = "batch"
  <2>1. ASSUME Dispatch
        PROVE  BatchInv' /\ BatchIsFull'
    BY <1>3, <2>1, BatchStarts, BatchThrows DEF Dispatch
  <2>2. ASSUME UNCHANGED <<kind, next, replies, late>>, outstanding' \subseteq outstanding
        PROVE  BatchIsFull'
    <3>1. outstanding = {} => outstanding' = {}
      BY <2>2
    <3>2. QED
      BY <2>2, <3>1 DEF BatchIsFull, EndpointInv
  <2>3. ASSUME NEW t \in Threads, NEW i \in Subs, Complete(t, i)
        PROVE  BatchInv' /\ BatchIsFull'
    <3>1. BatchInv'
      BY <1>3, <2>3, BatchCompletes
    <3>2. UNCHANGED <<kind, next, replies, late>> /\ outstanding' \subseteq outstanding
      BY <2>3 DEF Complete
    <3>3. QED
      BY <2>2, <3>1, <3>2
  <2>4. ASSUME NEW t \in Threads, SetCode(t) \/ SetBody(t)
        PROVE  BatchInv' /\ BatchIsFull'
    <3>1. BatchInv'
      BY <1>3, <2>4, BatchSetsCode, BatchSetsBody
    <3>2. UNCHANGED <<kind, next, replies, late>> /\ outstanding' \subseteq outstanding
      BY <2>4 DEF SetCode, SetBody
    <3>3. QED
      BY <2>2, <3>1, <3>2
  <2>5. ASSUME NEW t \in Threads, BatchScan(t)
        PROVE  BatchInv' /\ BatchIsFull'
    <3>1. pc[t] = "scan" /\ UNCHANGED <<kind, fails, dispatching>>
      BY <2>5 DEF BatchScan
    <3>2. CASE AllFilled(running[t])
      BY <1>3, <2>5, <3>1, <3>2, BatchRepliesFirst, BatchRepliesAgain DEF BatchScan
    <3>3. CASE ~AllFilled(running[t])
      <4>1. /\ Moves(t, "idle", Nobody)
            /\ UNCHANGED <<next, outstanding, subresults, replies, late>>
        BY <2>5, <3>3 DEF BatchScan, Moves
      <4>2. BatchInv'
        BY <1>3, <3>1, <3>3, <4>1, BatchLeaves
      <4>3. QED
        BY <2>2, <3>1, <4>1, <4>2
    <3>4. QED
      BY <3>2, <3>3
  <2>6. ASSUME UNCHANGED <<kind, next, outstanding, running, pc, subresults, replies, late>>
        PROVE  BatchInv' /\ BatchIsFull'
    <3>1. Busy' = Busy /\ InHand' = InHand /\ \A i : Unset(i)' <=> Unset(i)
      BY <2>6 DEF Busy, InHand, Unset
    <3>2. BatchHandlers'
      BY <1>3, <2>6, <3>1, BatchParts DEF EndpointInv, BatchHandlers
    <3>3. replies' = <<>> => BatchSlots'
      <4>1. replies = <<>> => BatchSlots
        BY <1>3, BatchParts DEF EndpointInv
      <4>2. QED
        BY <2>6, <3>1, <4>1 DEF BatchSlots
    <3>4. replies' # <<>> => BatchAfter'
      <4>1. replies # <<>> => BatchAfter
        BY <1>3, BatchParts DEF EndpointInv
      <4>2. QED
        BY <2>6, <3>1, <4>1 DEF BatchAfter
    <3>5. BatchInv'
      BY <1>3, <2>6, <3>2, <3>3, <3>4, BatchPartsNext
    <3>6. QED
      BY <2>2, <2>6, <3>5
  <2>7. BatchInv' /\ BatchIsFull'
    <3>1. \A t \in Threads : ~SequenceStep(t)
      BY <1>3 DEF SequenceStep
    <3>2. (Return \/ UNCHANGED vars) =>
              UNCHANGED <<kind, next, outstanding, running, pc, subresults, replies, late>>
      BY DEF Return, vars
    <3>3. QED
      BY <2>1, <2>3, <2>4, <2>5, <2>6, <3>1, <3>2 DEF Next, ThreadStep
  <2>8. QED
    BY <1>1, <2>7 DEF EndpointInv
<1>4. QED
  BY <1>2, <1>3 DEF EndpointInv, HandlerInv, TypeOK

\* It holds at first.
LEMMA EndpointInit == Init => EndpointInv
<1> SUFFICES ASSUME Init
             PROVE  EndpointInv
  OBVIOUS
<1>1. HandlerInv /\ replies = <<>>
  BY HandlerInit DEF Init
<1>2. Busy = {} /\ outstanding = {} /\ next = 1
  BY DEF Init, Busy
<1>3. BatchInv
  <2> SUFFICES ASSUME kind = "batch"
               PROVE  BatchInv
    BY DEF BatchInv
  <2>1. subresults = NullResults
    BY DEF Init
  <2>2. Len(subresults) = N /\ \A i \in Subs : subresults[i] = "null"
    BY <2>1, NullSlots
  <2>3. \A i \in Subs : Unset(i)
    BY <1>2, SubrequestsAssumption, SMT DEF Unset, Subs
  <2>4. QED
    BY <1>1, <1>2, <2>2, <2>3 DEF BatchInv
<1>4. QED
  BY <1>1, <1>3 DEF EndpointInv, BatchIsFull

\* It says how many replies there can be.
LEMMA EndpointReplies ==
    ASSUME EndpointInv
    PROVE  RepliesAccountedFor
<1>1. TypeOK /\ (kind = "sequence" => RepliedOnce) /\ kind \in {"batch", "sequence"}
  BY DEF EndpointInv, HandlerInv, TypeOK
<1>2. Len(replies) \in Nat /\ Cardinality(late) \in Nat /\ IsFiniteSet(late)
  BY <1>1, LenProperties, SubsFinite DEF TypeOK
<1>3. CASE kind = "sequence"
  BY <1>1, <1>2, <1>3, SMT DEF RepliesAccountedFor, RepliedOnce
<1>4. CASE replies = <<>>
  BY <1>2, <1>4, EmptySeq, SMT DEF RepliesAccountedFor, RepliedOnce
<1>5. CASE kind = "batch" /\ replies # <<>>
  <2>1. BatchAfter
    BY <1>5, BatchParts DEF EndpointInv
  <2>2. CASE replies[1].status = "OK"
    <3>1. Len(replies) = 1 + Cardinality(late \ InHand)
      BY <2>1, <2>2 DEF BatchAfter
    <3>2. Cardinality(late \ InHand) <= Cardinality(late)
      BY <1>2, FS_Subset
    <3>3. Cardinality(late \ InHand) \in Nat
      BY <1>1, SubsFinite DEF TypeOK
    <3>4. Len(replies) <= 1 + Cardinality(late)
      BY <1>2, <3>1, <3>2, <3>3, SMT
    <3>5. QED
      BY <1>5, <2>2, <3>4, SMT DEF RepliesAccountedFor
  <2>3. CASE replies[1].status # "OK"
    <3>1. Len(replies) = 1
      BY <2>1, <2>3 DEF BatchAfter
    <3>2. QED
      BY <1>2, <3>1, SMT DEF RepliesAccountedFor, RepliedOnce
  <2>4. QED
    BY <2>2, <2>3
<1>6. QED
  BY <1>1, <1>3, <1>4, <1>5

\* However many threads share the array: until a reply the null slots of a batch are those of
\* subrequests that are still to set them, the slot of one that threw stays null, and once
\* the array is moved out no handler is still to set a code.
THEOREM EndpointsInvariant == Spec => []EndpointInv
<1>1. EndpointInv /\ [Next]_vars => EndpointInv'
  BY EndpointStep
<1>2. QED
  BY <1>1, EndpointInit, PTL DEF Spec

\* Of "`cb` expects to be invoked once" what holds on any number of threads: it is invoked
\* again only by handlers that other threads were in when it was first invoked, once by each,
\* and never after an error nor by a sequence.
THEOREM RepliesAreAccountedFor == Spec => []RepliesAccountedFor
<1>1. EndpointInv => RepliesAccountedFor
  BY EndpointReplies
<1>2. QED
  BY <1>1, EndpointsInvariant, PTL

\* On any number of threads the first response of a batch has a result for every subrequest,
\* with its body unless a handler on another thread was about to write it, and nothing of the
\* batch is still to come.
THEOREM BatchesAreFull == Spec => []BatchIsFull
<1>1. EndpointInv => BatchIsFull
  BY DEF EndpointInv
<1>2. QED
  BY <1>1, EndpointsInvariant, PTL
=============================================================================
