----------------------------- MODULE Subrequests -----------------------------
(***************************************************************************)
(* The batch and sequence endpoints (oxenss/rpc/request_handler.cpp), which*)
(* run a list of subrequests and reply with the list of their results.     *)
(*                                                                         *)
(* batch starts all of them, one after another.  The handler of each fills *)
(* in its slot of the shared subresults array, scans the array for slots   *)
(* still null, and hands it to the client's callback when it finds none.   *)
(* sequence starts the next subrequest from the handler of the one before, *)
(* and replies after a failure or after the last.                          *)
(*                                                                         *)
(* A subrequest that recurses through the swarm completes later, on        *)
(* whatever thread runs the callback of its last peer; the others complete *)
(* on the thread that starts them.  No lock protects the array: a handler  *)
(* takes three steps (code, body, scan), and handlers on different threads *)
(* interleave.  An exception reaches the endpoint's dispatcher, which      *)
(* replies with an error, only on the dispatching thread.                  *)
(***************************************************************************)
EXTENDS Integers, Sequences, FiniteSets

CONSTANTS
    N,         \* number of subrequests
    Threads,   \* the worker threads
    Main,      \* the one that dispatches the request
    Nobody

ASSUME SubrequestsAssumption == /\ N \in Nat \ {0}
                                /\ Main \in Threads
                                /\ Nobody \notin 1 .. N

VARIABLES
    kind,         \* "batch" or "sequence"
    fails,        \* the subrequests whose status is not 2xx
    dispatching,  \* Main has not returned to the dispatcher
    next,         \* the subrequest to start next
    outstanding,  \* started, to be completed by the swarm
    running,      \* the subrequest whose handler a thread is in, or Nobody
    pc,           \* where that thread is in the handler
    subresults,   \* the slots: "null", "code" (no body yet) or "full"
    replies,      \* what the client's callback was invoked with
    lost,         \* history: an exception had nobody to report it
    late          \* history: the subrequests other threads were at when it first got an array

vars == <<kind, fails, dispatching, next, outstanding, running, pc, subresults, replies, lost,
          late>>

Subs == 1 .. N

\* Mutant of NullResults: one slot too many.
NullResultsOneMore == [i \in 1 .. N + 1 |-> "null"]

\* batch puts one null slot per subrequest into subresults; sequence appends its slots.
NullResults == [i \in Subs |-> "null"]

Init ==
    /\ kind \in {"batch", "sequence"}
    /\ fails \in SUBSET Subs
    /\ dispatching = TRUE
    /\ next = 1
    /\ outstanding = {}
    /\ running = [t \in Threads |-> Nobody]
    /\ pc = [t \in Threads |-> "idle"]
    /\ subresults = IF kind = "batch" THEN NullResults ELSE <<>>
    /\ replies = <<>>
    /\ lost = FALSE
    /\ late = {}

\* The threads in a handler.
Busy == {t \in Threads : pc[t] # "idle"}

\* The subrequest Next on thread t, idle for it: it completes in the call, or later.
StartSubrequest(t) ==
    /\ next <= N
    /\ next' = next + 1
    /\ \/ /\ running' = [running EXCEPT ![t] = next]
          /\ pc' = [pc EXCEPT ![t] = "code"]
          /\ UNCHANGED outstanding
       \/ /\ outstanding' = outstanding \cup {next}
          /\ running' = [running EXCEPT ![t] = Nobody]
          /\ pc' = [pc EXCEPT ![t] = "idle"]
    /\ UNCHANGED <<subresults, replies, lost, late>>

\* Mutant of SubrequestThrows: the error goes into the slot too, and the loop goes on.
SubrequestThrowsInSlot(t) ==
    /\ next <= N
    /\ next' = next + 1
    /\ replies' = Append(replies, [status |-> "INTERNAL_SERVER_ERROR", results |-> <<>>])
    /\ subresults' = [i \in DOMAIN subresults \cup {next} |->
                          IF i = next THEN "full" ELSE subresults[i]]
    /\ UNCHANGED <<running, pc, outstanding, lost, late>>

\* It throws instead, and nothing else is started.
SubrequestThrows(t) ==
    /\ next <= N
    /\ next' = N + 1
    /\ IF t = Main /\ dispatching
       THEN /\ replies' = Append(replies, [status |-> "INTERNAL_SERVER_ERROR",
                                           results |-> <<>>])
            /\ UNCHANGED lost
       ELSE lost' = TRUE /\ UNCHANGED replies
    /\ running' = [running EXCEPT ![t] = Nobody]
    /\ pc' = [pc EXCEPT ![t] = "idle"]
    /\ UNCHANGED <<outstanding, subresults, late>>

\* batch's loop over the subrequests, and sequence's start of the first one.
Dispatch ==
    /\ dispatching /\ pc[Main] = "idle"
    /\ kind = "batch" \/ next = 1
    /\ StartSubrequest(Main) \/ SubrequestThrows(Main)
    /\ UNCHANGED <<kind, fails, dispatching>>

\* Main is through with the endpoint.
Return ==
    /\ dispatching /\ pc[Main] = "idle"
    /\ next > N \/ (kind = "sequence" /\ next > 1)
    /\ dispatching' = FALSE
    /\ UNCHANGED <<kind, fails, next, outstanding, running, pc, subresults, replies, lost, late>>

\* The last peer has answered (or timed out): a worker invokes the handler.
Complete(t, i) ==
    /\ i \in outstanding /\ pc[t] = "idle"
    /\ t = Main => ~dispatching
    /\ outstanding' = outstanding \ {i}
    /\ running' = [running EXCEPT ![t] = i]
    /\ pc' = [pc EXCEPT ![t] = "code"]
    /\ UNCHANGED <<kind, fails, dispatching, next, subresults, replies, lost, late>>

\* subres["code"] = ..., on the slot found by index or appended.
SetCode(t) ==
    /\ pc[t] = "code"
    /\ subresults' = IF kind = "batch" THEN [subresults EXCEPT ![running[t]] = "code"]
                                       ELSE Append(subresults, "code")
    /\ pc' = [pc EXCEPT ![t] = "body"]
    /\ UNCHANGED <<kind, fails, dispatching, next, outstanding, running, replies, lost, late>>

\* The body is written through a reference to the slot: when another thread has moved
\* the array out meanwhile, the write goes to the reply that is being sent.
SetBody(t) ==
    /\ pc[t] = "body"
    /\ subresults' = IF subresults = <<>> THEN <<>>
                     ELSE [subresults EXCEPT ![running[t]] = "full"]
    /\ pc' = [pc EXCEPT ![t] = "scan"]
    /\ UNCHANGED <<kind, fails, dispatching, next, outstanding, running, replies, lost, late>>

\* Mutant of AllFilled: only the slots up to the handler's own are looked at.
FilledUpTo(i) == \A j \in DOMAIN subresults : j <= i => subresults[j] # "null"

\* batch: no slot is null; an array that was moved out has none.
AllFilled(i) == \A j \in DOMAIN subresults : subresults[j] # "null"

\* Mutant of Stops: a failure does not end the sequence.
StopsAtTheEnd(i) == Len(subresults) >= N

\* sequence: a failure, or a full set of results.
Stops(i) == i \in fails \/ Len(subresults) >= N

\* The callback with the array moved into the response.
Reply(t) ==
    /\ replies' = Append(replies, [status |-> "OK", results |-> subresults])
    /\ subresults' = <<>>
    /\ late' = IF replies = <<>> THEN {running[u] : u \in Busy \ {t}} ELSE late
    /\ running' = [running EXCEPT ![t] = Nobody]
    /\ pc' = [pc EXCEPT ![t] = "idle"]
    /\ UNCHANGED <<next, outstanding, lost>>

\* The end of batch's handler.
BatchScan(t) ==
    /\ pc[t] = "scan" /\ kind = "batch"
    /\ IF AllFilled(running[t])
       THEN Reply(t)
       ELSE /\ running' = [running EXCEPT ![t] = Nobody]
            /\ pc' = [pc EXCEPT ![t] = "idle"]
            /\ UNCHANGED <<next, outstanding, subresults, replies, lost, late>>
    /\ UNCHANGED <<kind, fails, dispatching>>

\* The end of sequence's handler.
SequenceStep(t) ==
    /\ pc[t] = "scan" /\ kind = "sequence"
    /\ IF Stops(running[t]) THEN Reply(t)
                            ELSE StartSubrequest(t) \/ SubrequestThrows(t)
    /\ UNCHANGED <<kind, fails, dispatching>>

ThreadStep(t) == SetCode(t) \/ SetBody(t) \/ BatchScan(t) \/ SequenceStep(t)

Next ==
    \/ Dispatch
    \/ Return
    \/ \E t \in Threads : ThreadStep(t) \/ (\E i \in Subs : Complete(t, i))

\* Threads do not stop in a handler or in the loop, and SwarmRequest shows that every
\* recursive request completes.
Fairness ==
    /\ WF_vars(Dispatch)
    /\ WF_vars(Return)
    /\ \A t \in Threads : WF_vars(ThreadStep(t))
    /\ \A i \in Subs : WF_vars(\E t \in Threads : Complete(t, i))

Spec == Init /\ [][Next]_vars /\ Fairness

-----------------------------------------------------------------------------
Slots == {"null", "code", "full"}

TypeOK ==
    /\ kind \in {"batch", "sequence"} /\ fails \subseteq Subs
    /\ dispatching \in BOOLEAN /\ lost \in BOOLEAN
    /\ next \in 1 .. N + 1
    /\ outstanding \subseteq Subs /\ late \subseteq Subs
    /\ running \in [Threads -> Subs \cup {Nobody}]
    /\ pc \in [Threads -> {"idle", "code", "body", "scan"}]
    /\ \A t \in Busy : running[t] \in Subs
    /\ subresults \in Seq(Slots) /\ Len(subresults) <= N
    /\ replies \in Seq([status : {"OK", "INTERNAL_SERVER_ERROR"}, results : Seq(Slots)])

\* "`cb` expects to be invoked once with the full response": never a second reply, the
\* error reply of a subrequest that throws counted.
RepliedOnce == Len(replies) <= 1

\* Where the handlers of a batch share the array without a lock, the callback is invoked a
\* second time only by handlers that other threads were in when it was first invoked, once by
\* each; never after an error, nor by a sequence, nor because results come in late, or in
\* another order, or one at a time on many threads.
RepliesAccountedFor ==
    /\ Len(replies) <= 1 + Cardinality(late)
    /\ (kind = "sequence" \/ (replies # <<>> /\ replies[1].status # "OK")) => RepliedOnce

\* The first response of a batch, which is the one the client gets, has a result for every
\* subrequest, with its code and its body; only the body of one whose handler another thread
\* was in just then may be missing.  Nothing is still to come when it is sent.
BatchIsFull ==
    (kind = "batch" /\ replies # <<>> /\ replies[1].status = "OK") =>
        /\ DOMAIN replies[1].results = Subs
        /\ \A i \in Subs : \/ replies[1].results[i] = "full"
                           \/ replies[1].results[i] = "code" /\ i \in late
        /\ next = N + 1 /\ outstanding = {}

\* "if you execute sequence method1, method2, method3 and method2 returns status code 456
\* then method3 is not executed at all, and the result will contain 2 responses": the
\* results end with the first failure, or with the last subrequest, and nothing has been
\* started beyond them.
SequenceStops ==
    \A r \in DOMAIN replies :
        (kind = "sequence" /\ replies[r].status = "OK") =>
            LET n == Len(replies[r].results)
            IN  /\ next = n + 1
                /\ \A i \in 1 .. n - 1 : i \notin fails
                /\ n = N \/ n \in fails

\* A sequence is the business of one thread at a time, however many there are: what is
\* under way is the last subrequest started, whose slot is appended when its code is set,
\* and none before it has failed.
SequenceInv ==
    kind = "sequence" =>
        /\ \A t, u \in Busy : t = u
        /\ \A t \in Busy : /\ outstanding = {} /\ running[t] = next - 1
                           /\ Len(subresults) = next - (IF pc[t] = "code" THEN 2 ELSE 1)
        /\ outstanding # {} => outstanding = {next - 1} /\ Len(subresults) = next - 2
        /\ Busy \cup outstanding # {} =>
               /\ replies = <<>> /\ next > 1
               /\ \A i \in 1 .. next - 2 : i \notin fails
        /\ next = 1 => replies = <<>> /\ subresults = <<>>

\* Subrequest i of a batch has not got to setting its code, and still may.
Unset(i) ==
    \/ i >= next \/ i \in outstanding
    \/ \E t \in Threads : pc[t] = "code" /\ running[t] = i

\* The subrequests whose handlers are under way.
InHand == {running[t] : t \in Busy}

\* A batch.  Until a reply, the slots that are null are those of subrequests that are still to
\* set them, and a slot without a body has a handler about to write it.  The slot of a
\* subrequest that throws stays null for good.  Once the array is moved out nothing is left to
\* start, and the handlers that have not replied again are late ones.
BatchInv ==
    kind = "batch" =>
        /\ \A i \in outstanding : i < next
        /\ \A t \in Busy : running[t] < next /\ running[t] \notin outstanding
        /\ \A t, u \in Busy : running[t] = running[u] => t = u
        /\ replies = <<>> =>
               /\ Len(subresults) = N
               /\ \A i \in Subs :
                      IF Unset(i) THEN subresults[i] = "null"
                      ELSE \/ subresults[i] = "full"
                           \/ subresults[i] = "code" /\ \E t \in Busy : pc[t] = "body" /\ running[t] = i
        /\ replies # <<>> =>
               /\ next = N + 1
               /\ IF replies[1].status = "OK"
                  THEN /\ outstanding = {} /\ subresults = <<>> /\ InHand \subseteq late
                       /\ \A t \in Busy : pc[t] # "code"
                       /\ Len(replies) = 1 + Cardinality(late \ InHand)
                  ELSE /\ Len(subresults) = N /\ Len(replies) = 1
                       /\ \E i \in Subs : ~Unset(i) /\ subresults[i] = "null"
                                         /\ \A t \in Busy : running[t] # i

\* The client gets a reply, unless a subrequest of a sequence throws when it is started
\* from the callback of an asynchronous one.
RepliedUnlessLost == <>(replies # <<>> \/ (lost /\ kind = "sequence"))
=============================================================================
