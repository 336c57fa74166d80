------------------------- MODULE SwarmRequestProofs -------------------------
(***************************************************************************)
(* Proofs about SwarmRequest, for every swarm, every set of operations and *)
(* any number of requests.                                                 *)
(***************************************************************************)
EXTENDS SwarmRequest, SequenceTheorems, FiniteSetTheorems, TLAPS

\* The prover of every leaf that does not name another.
USE Zenon

\* The indices of the per-request sequences are the requests.
LEMMA RequestIndices ==
    ASSUME ControlTypeOK
    PROVE  /\ Requests = 1 .. Len(requests) /\ Len(requests) \in Nat
           /\ DOMAIN pending = Requests /\ DOMAIN entries = Requests
           /\ \A k \in Requests : /\ requests[k] \in [op : Operations, entry : Nodes]
                                  /\ pending[k] \in Nat
                                  /\ entries[k] \in [Nodes -> {"none", "ok", "failed"}]
<1>1. /\ DOMAIN requests = 1 .. Len(requests) /\ Len(requests) \in Nat
      /\ DOMAIN pending = 1 .. Len(pending)
      /\ DOMAIN entries = 1 .. Len(entries)
  BY LenProperties DEF ControlTypeOK
<1>2. /\ \A k \in 1 .. Len(requests) : requests[k] \in [op : Operations, entry : Nodes]
      /\ \A k \in 1 .. Len(pending) : pending[k] \in Nat
      /\ \A k \in 1 .. Len(entries) : entries[k] \in [Nodes -> {"none", "ok", "failed"}]
  BY ElementOfSeq DEF ControlTypeOK
<1>3. Len(pending) = Len(requests) /\ Len(entries) = Len(requests)
  BY DEF ControlTypeOK
<1>4. QED
  BY <1>1, <1>2, <1>3 DEF Requests

(***************************************************************************)
(* Type correctness of the databases.                                      *)
(***************************************************************************)

\* An operation whose expiry may be what a node's limit makes of it.
GrantedOperation ==
    [endpoint : {"store", "delete_all", "delete_msgs", "delete_before", "expire_all",
                 "expire_msgs", "extend_msgs", "shorten_msgs"},
     hash : Hashes, expiry : Expiries \cup Limits]

\* Every endpoint leaves a database a database.
LEMMA EffectType ==
    ASSUME NEW b \in [Hashes -> Expiries \cup Limits \cup {0}], NEW op \in GrantedOperation
    PROVE  Effect(b, op) \in [Hashes -> Expiries \cup Limits \cup {0}]
<1>1. op.hash \in Hashes /\ op.expiry \in Expiries \cup Limits
  BY DEF GrantedOperation
<1>2. op.endpoint \in {"store", "delete_all", "delete_msgs", "delete_before", "expire_all",
                       "expire_msgs", "extend_msgs", "shorten_msgs"}
  BY DEF GrantedOperation
<1>3. /\ StoreEffect(b, op) \in [Hashes -> Expiries \cup Limits \cup {0}]
      /\ DeleteAllEffect(b, op) \in [Hashes -> Expiries \cup Limits \cup {0}]
      /\ DeleteMsgsEffect(b, op) \in [Hashes -> Expiries \cup Limits \cup {0}]
      /\ DeleteBeforeEffect(b, op) \in [Hashes -> Expiries \cup Limits \cup {0}]
  BY <1>1 DEF StoreEffect, DeleteAllEffect, DeleteMsgsEffect, DeleteBeforeEffect
<1>4. /\ ExpireAllEffect(b, op) \in [Hashes -> Expiries \cup Limits \cup {0}]
      /\ ExpireMsgsEffect(b, op) \in [Hashes -> Expiries \cup Limits \cup {0}]
      /\ ExtendMsgsEffect(b, op) \in [Hashes -> Expiries \cup Limits \cup {0}]
      /\ ShortenMsgsEffect(b, op) \in [Hashes -> Expiries \cup Limits \cup {0}]
  BY <1>1 DEF ExpireAllEffect, ExpireMsgsEffect, ExtendMsgsEffect, ShortenMsgsEffect
<1>5. QED
  BY <1>2, <1>3, <1>4 DEF Effect

\* What a node grants of an operation.
LEMMA GrantedType ==
    ASSUME NEW op \in Operation, NEW e \in Expiries \cup Limits
    PROVE  [op EXCEPT !.expiry = e] \in GrantedOperation
BY SMT DEF Operation, GrantedOperation

\* The request as node n may carry it out, and what it then does.
LEMMA CarryOutGrants ==
    ASSUME ControlTypeOK, NEW k \in Requests, NEW n \in Nodes, CarryOut(k, n)
    PROVE  \/ UNCHANGED <<box, effected, granted>> /\ ~CarriesOut(n, requests[k].op)
           \/ \E e \in Expiries \cup Limits :
                 /\ [requests[k].op EXCEPT !.expiry = e] \in GrantedOperation
                 /\ box' = [box EXCEPT
                              ![n] = Effect(box[n], [requests[k].op EXCEPT !.expiry = e])]
                 /\ effected' = effected \cup {<<k, n>>}
                 /\ granted' = [x \in effected \cup {<<k, n>>} |->
                                   IF x = <<k, n>> THEN e ELSE granted[x]]
<1>1. PICK op : op = requests[k].op
  OBVIOUS
<1>2. op \in Operation
  BY <1>1, SwarmAssumption, RequestIndices
<1>3. PICK limit \in Limits :
          IF CarriesOut(n, op)
          THEN /\ box' = [box EXCEPT
                            ![n] = Effect(box[n], [op EXCEPT !.expiry = Granted(op, limit)])]
               /\ effected' = effected \cup {<<k, n>>}
               /\ granted' = [x \in effected \cup {<<k, n>>} |->
                                IF x = <<k, n>> THEN Granted(op, limit) ELSE granted[x]]
          ELSE UNCHANGED <<box, effected, granted>>
  BY <1>1 DEF CarryOut
<1>4. PICK e : e = Granted(op, limit)
  OBVIOUS
<1>5. e \in Expiries \cup Limits
  BY <1>2, <1>4 DEF Granted, Operation
<1>6. [op EXCEPT !.expiry = e] \in GrantedOperation
  BY <1>2, <1>5, GrantedType
<1>7. QED
  BY <1>1, <1>3, <1>4, <1>5, <1>6

\* A node that carries out a request keeps the databases and the history well formed.
LEMMA CarryOutType ==
    ASSUME ControlTypeOK, DataTypeOK, NEW k \in Requests, NEW n \in Nodes, CarryOut(k, n)
    PROVE  /\ box' \in [Nodes -> [Hashes -> Expiries \cup Limits \cup {0}]]
           /\ effected' \subseteq Requests \X Nodes
           /\ granted' \in [effected' -> Expiries \cup Limits]
<1>1. CASE UNCHANGED <<box, effected, granted>>
  BY <1>1 DEF DataTypeOK
<1>2. CASE \E e \in Expiries \cup Limits :
               /\ [requests[k].op EXCEPT !.expiry = e] \in GrantedOperation
               /\ box' = [box EXCEPT
                            ![n] = Effect(box[n], [requests[k].op EXCEPT !.expiry = e])]
               /\ effected' = effected \cup {<<k, n>>}
               /\ granted' = [x \in effected \cup {<<k, n>>} |->
                                 IF x = <<k, n>> THEN e ELSE granted[x]]
  <2>1. PICK e \in Expiries \cup Limits :
            /\ [requests[k].op EXCEPT !.expiry = e] \in GrantedOperation
            /\ box' = [box EXCEPT
                         ![n] = Effect(box[n], [requests[k].op EXCEPT !.expiry = e])]
            /\ effected' = effected \cup {<<k, n>>}
            /\ granted' = [x \in effected \cup {<<k, n>>} |->
                              IF x = <<k, n>> THEN e ELSE granted[x]]
    BY <1>2
  <2>2. Effect(box[n], [requests[k].op EXCEPT !.expiry = e])
            \in [Hashes -> Expiries \cup Limits \cup {0}]
    BY <2>1, EffectType DEF DataTypeOK
  <2>3. box' \in [Nodes -> [Hashes -> Expiries \cup Limits \cup {0}]]
    BY <2>1, <2>2 DEF DataTypeOK
  <2>4. granted' \in [effected' -> Expiries \cup Limits]
    BY <2>1 DEF DataTypeOK
  <2>5. effected' \subseteq Requests \X Nodes
    BY <2>1, SMT DEF DataTypeOK
  <2>6. QED
    BY <2>3, <2>4, <2>5
<1>3. QED
  BY <1>1, <1>2, CarryOutGrants

(***************************************************************************)
(* The countdown.                                                          *)
(***************************************************************************)

\* The set of callbacks to come is finite, so it can be counted.
LEMMA WaitingForFinite ==
    ASSUME NEW k
    PROVE  /\ IsFiniteSet(WaitingFor(k))
           /\ Cardinality(WaitingFor(k)) \in Nat
<1>1. WaitingFor(k) \in SUBSET Nodes
  BY DEF WaitingFor
<1>2. IsFiniteSet(WaitingFor(k))
  BY <1>1, FS_Subset, SwarmAssumption
<1>3. QED
  BY <1>2, FS_CardinalityType

\* The top level of a swarm reply always has a key without "failed".
LEMMA ReplyIsOK == ReplyStatus = "OK"
<1>1. CountFailed("t") = 0
  BY DEF CountFailed
<1>2. QED
  BY <1>1 DEF ReplyStatus


\* What the end of a part changes, and what it does not.
LEMMA FinishValues ==
    ASSUME ControlTypeOK, NEW k \in Requests, NEW n \in Nodes, NEW e \in {"ok", "failed"},
           pending[k] >= 1, Finish(k, n, e),
           requests' = requests, own' \subseteq own, waiting' \subseteq waiting
    PROVE  /\ ControlTypeOK'
           /\ Requests' = Requests
           /\ \A j \in Requests :
                  pending'[j] = IF j = k THEN pending[k] - 1 ELSE pending[j]
           /\ \A j \in Requests, m \in Nodes :
                  entries'[j][m] = IF j = k /\ m = n THEN e ELSE entries[j][m]
           /\ replies' = IF pending[k] = 1
                         THEN replies \cup {[request |-> k, status |-> "OK", by |-> n]}
                         ELSE replies
           /\ \A j : Thrown(j)' <=> Thrown(j)
           /\ \A j : Refused(j)' <=> Refused(j)
<1>1. Requests' = Requests
  BY DEF Requests
<1>2. /\ Requests = 1 .. Len(requests)
      /\ DOMAIN pending = Requests /\ DOMAIN entries = Requests
      /\ pending[k] \in Nat
      /\ entries[k] \in [Nodes -> {"none", "ok", "failed"}]
  BY RequestIndices
<1>3. pending' \in Seq(Nat) /\ Len(pending') = Len(pending)
  <2>1. pending[k] - 1 \in Nat /\ k \in 1 .. Len(pending)
    BY <1>2, SMT DEF ControlTypeOK
  <2>2. QED
    BY <2>1, ExceptSeq, SMT DEF Finish, ControlTypeOK
<1>4. /\ entries' \in Seq([Nodes -> {"none", "ok", "failed"}])
      /\ Len(entries') = Len(entries)
  <2> DEFINE E == [entries[k] EXCEPT ![n] = e]
  <2>1. E \in [Nodes -> {"none", "ok", "failed"}] /\ k \in 1 .. Len(entries)
    BY <1>2 DEF ControlTypeOK
  <2>2. entries' = [entries EXCEPT ![k] = E]
    BY DEF Finish
  <2>3. QED
    BY <2>1, <2>2, ExceptSeq, SMT DEF ControlTypeOK
<1>5. replies' = IF pending[k] = 1
                 THEN replies \cup {[request |-> k, status |-> "OK", by |-> n]}
                 ELSE replies
  BY <1>2, ReplyIsOK, SMT DEF Finish
<1>6. ControlTypeOK'
  BY <1>1, <1>3, <1>4, <1>5, SMT DEF ControlTypeOK
<1>7. \A j \in Requests : pending'[j] = IF j = k THEN pending[k] - 1 ELSE pending[j]
  BY <1>2 DEF Finish
<1>8. \A j \in Requests, m \in Nodes :
          entries'[j][m] = IF j = k /\ m = n THEN e ELSE entries[j][m]
  BY <1>2 DEF Finish
<1>9. \A j : (Thrown(j)' <=> Thrown(j)) /\ (Refused(j)' <=> Refused(j))
  BY <1>5, SMT DEF Thrown, Refused
<1>10. QED
  BY <1>1, <1>5, <1>6, <1>7, <1>8, <1>9

\* The own part counts itself down once, and is the last part exactly when no callback
\* is to come.
LEMMA OwnFinishPreserves ==
    ASSUME CountdownInv, NEW k \in own, NEW e \in {"ok", "failed"},
           own' = own \ {k}, Finish(k, requests[k].entry, e),
           UNCHANGED <<requests, waiting>>
    PROVE  CountdownInv'
<1> DEFINE n == requests[k].entry
<1>1. k \in Requests /\ n \in Nodes /\ ~Thrown(k)
  BY RequestIndices DEF CountdownInv, ControlTypeOK, RepliesInOrder
<1>2. pending[k] = Cardinality(WaitingFor(k)) + 1 /\ Cardinality(WaitingFor(k)) \in Nat
  BY <1>1, WaitingForFinite DEF CountdownInv, PendingCounts
<1>3. pending[k] >= 1
  BY <1>2, SMT
<1> HIDE DEF n
<1>4. /\ ControlTypeOK'
      /\ Requests' = Requests
      /\ \A j \in Requests : pending'[j] = IF j = k THEN pending[k] - 1 ELSE pending[j]
      /\ \A j \in Requests, m \in Nodes :
             entries'[j][m] = IF j = k /\ m = n THEN e ELSE entries[j][m]
      /\ replies' = IF pending[k] = 1
                    THEN replies \cup {[request |-> k, status |-> "OK", by |-> n]}
                    ELSE replies
      /\ \A j : (Thrown(j)' <=> Thrown(j)) /\ (Refused(j)' <=> Refused(j))
  BY <1>1, <1>3, FinishValues, SMT DEF CountdownInv, n
<1>5. \A j : WaitingFor(j)' = WaitingFor(j)
  BY DEF WaitingFor
<1>6. PendingCounts'
  <2> SUFFICES ASSUME NEW j \in Requests
               PROVE  pending'[j] = Cardinality(WaitingFor(j))
                                        + (IF j \in own' \/ Thrown(j) THEN 1 ELSE 0)
    BY <1>4, <1>5 DEF PendingCounts
  <2>1. CASE j = k
    BY <2>1, <1>1, <1>2, <1>4, SMT
  <2>2. CASE j # k
    BY <2>2, <1>4 DEF CountdownInv, PendingCounts
  <2>3. QED
    BY <2>1, <2>2
<1>7. EntriesAwaited'
  BY <1>4, SMT DEF CountdownInv, EntriesAwaited, n
<1>8. RepliesInOrder'
  <2>1. \A r \in replies : r.status # "INTERNAL_SERVER_ERROR" =>
            pending[r.request] = 0 /\ r.request \in Requests
    BY DEF CountdownInv, RepliesInOrder, ControlTypeOK
  <2>2. \A r \in replies : r.status # "INTERNAL_SERVER_ERROR" => r.request # k
    BY <2>1, <1>2, SMT
  <2>3. \A r \in replies' : r.status # "INTERNAL_SERVER_ERROR" => pending'[r.request] = 0
    BY <2>1, <2>2, <1>1, <1>4, SMT
  <2>4. QED
    BY <2>3, <1>4 DEF CountdownInv, RepliesInOrder
<1>9. RepliesOnce'
  <2>1. \A r \in replies : r.request # k
    BY <1>1, <1>2, SMT DEF CountdownInv, RepliesInOrder, Thrown
  <2>2. QED
    BY <2>1, <1>4, SMT DEF CountdownInv, RepliesOnce
<1>10. QED
  BY <1>4, <1>6, <1>7, <1>8, <1>9 DEF CountdownInv

\* A peer's callback counts the peer down once, and is the last part exactly when the
\* own part is done and no other callback is to come.
LEMMA PeerFinishPreserves ==
    ASSUME CountdownInv, NEW k \in Requests, NEW p \in Nodes, NEW e \in {"ok", "failed"},
           <<k, p>> \in waiting, waiting' = waiting \ {<<k, p>>}, Finish(k, p, e),
           UNCHANGED <<requests, own>>
    PROVE  CountdownInv'
<1>1. /\ IsFiniteSet(WaitingFor(k)) /\ p \in WaitingFor(k)
      /\ Cardinality(WaitingFor(k)) \in Nat
  BY WaitingForFinite DEF WaitingFor
<1>2. Cardinality(WaitingFor(k)) >= 1
  BY <1>1, FS_EmptySet, SMT
<1>3. pending[k] = Cardinality(WaitingFor(k)) + (IF k \in own \/ Thrown(k) THEN 1 ELSE 0)
  BY DEF CountdownInv, PendingCounts
<1>4. /\ pending[k] >= 1
      /\ pending[k] = 1 => ~(k \in own \/ Thrown(k))
  BY <1>1, <1>2, <1>3, SMT
<1>5. /\ ControlTypeOK'
      /\ Requests' = Requests
      /\ \A j \in Requests : pending'[j] = IF j = k THEN pending[k] - 1 ELSE pending[j]
      /\ \A j \in Requests, m \in Nodes :
             entries'[j][m] = IF j = k /\ m = p THEN e ELSE entries[j][m]
      /\ replies' = IF pending[k] = 1
                    THEN replies \cup {[request |-> k, status |-> "OK", by |-> p]}
                    ELSE replies
      /\ \A j : (Thrown(j)' <=> Thrown(j)) /\ (Refused(j)' <=> Refused(j))
  BY <1>4, FinishValues, SMT DEF CountdownInv
<1>6. \A j : WaitingFor(j)' = IF j = k THEN WaitingFor(k) \ {p} ELSE WaitingFor(j)
  BY DEF WaitingFor
<1>7. Cardinality(WaitingFor(k) \ {p}) = Cardinality(WaitingFor(k)) - 1
  BY <1>1, FS_RemoveElement
<1>8. PendingCounts'
  <2> SUFFICES ASSUME NEW j \in Requests
               PROVE  pending'[j] = Cardinality(WaitingFor(j)')
                                        + (IF j \in own \/ Thrown(j) THEN 1 ELSE 0)
    BY <1>5 DEF PendingCounts
  <2>1. CASE j = k
    <3>1. pending'[k] = Cardinality(WaitingFor(k)) - 1
                            + (IF k \in own \/ Thrown(k) THEN 1 ELSE 0)
      <4>1. pending'[k] = pending[k] - 1
        BY <1>5
      <4>2. QED
        BY <4>1, <1>1, <1>3, SMT
    <3>2. Cardinality(WaitingFor(j)') = Cardinality(WaitingFor(k)) - 1
      BY <2>1, <1>6, <1>7
    <3>3. QED
      BY <2>1, <3>1, <3>2
  <2>2. CASE j # k
    BY <2>2, <1>5, <1>6 DEF CountdownInv, PendingCounts
  <2>3. QED
    BY <2>1, <2>2
<1>9. EntriesAwaited'
  BY <1>5, SMT DEF CountdownInv, EntriesAwaited
<1>10. RepliesInOrder'
  <2>1. \A r \in replies : r.status # "INTERNAL_SERVER_ERROR" =>
            pending[r.request] = 0 /\ r.request \in Requests
    BY DEF CountdownInv, RepliesInOrder, ControlTypeOK
  <2>2. \A r \in replies : r.status # "INTERNAL_SERVER_ERROR" => r.request # k
    BY <2>1, <1>4, SMT
  <2>3. \A r \in replies' : r.status # "INTERNAL_SERVER_ERROR" => pending'[r.request] = 0
    BY <2>1, <2>2, <1>5, SMT
  <2>4. QED
    BY <2>3, <1>5 DEF CountdownInv, RepliesInOrder
<1>11. RepliesOnce'
  <2>1. pending[k] = 1 => \A r \in replies : r.request # k
    BY <1>4, SMT DEF CountdownInv, RepliesInOrder, Thrown
  <2>2. QED
    BY <2>1, <1>5, SMT DEF CountdownInv, RepliesOnce
<1>12. QED
  BY <1>5, <1>8, <1>9, <1>10, <1>11 DEF CountdownInv

\* A new request starts with every part to come and nothing replied.
LEMMA SetupPreserves ==
    ASSUME CountdownInv, NEW op \in Operations, NEW n \in Nodes,
           SetupRecursiveRequest(op, n)
    PROVE  CountdownInv'
<1> PICK k : k = Len(requests) + 1
  OBVIOUS
<1> DEFINE peers == Nodes \ {n}
<1>1. /\ Requests = 1 .. Len(requests) /\ Len(requests) \in Nat
      /\ Len(pending) = Len(requests) /\ Len(entries) = Len(requests)
  BY RequestIndices DEF CountdownInv, ControlTypeOK
<1>2. k \notin Requests
  BY <1>1, SMT
<1>3. IsFiniteSet(peers) /\ Cardinality(peers) \in Nat
  BY FS_Subset, FS_CardinalityType, SwarmAssumption
<1>4. /\ requests' = Append(requests, [op |-> op, entry |-> n])
      /\ pending' = Append(pending, 1 + Cardinality(peers))
      /\ entries' = Append(entries, [m \in Nodes |-> "none"])
      /\ own' = own \cup {k}
      /\ waiting' = waiting \cup {<<k, p>> : p \in peers}
      /\ replies' = replies
  BY DEF SetupRecursiveRequest, InitialPending
<1>5. /\ requests' \in Seq([op : Operations, entry : Nodes])
      /\ Len(requests') = k
      /\ requests'[k].entry = n
      /\ \A j \in Requests : requests'[j] = requests[j]
  BY <1>1, <1>4, AppendProperties, SMT DEF CountdownInv, ControlTypeOK
<1>6. /\ pending' \in Seq(Nat)
      /\ Len(pending') = k
      /\ pending'[k] = 1 + Cardinality(peers)
      /\ \A j \in Requests : pending'[j] = pending[j]
  <2>1. 1 + Cardinality(peers) \in Nat
    BY <1>3, SMT
  <2>2. QED
    BY <2>1, <1>1, <1>4, AppendProperties, SMT DEF CountdownInv, ControlTypeOK
<1>7. /\ entries' \in Seq([Nodes -> {"none", "ok", "failed"}])
      /\ Len(entries') = k
      /\ entries'[k] = [m \in Nodes |-> "none"]
      /\ \A j \in Requests : entries'[j] = entries[j]
  BY <1>1, <1>4, AppendProperties, SMT DEF CountdownInv, ControlTypeOK
<1>8. Requests' = Requests \cup {k}
  <2>1. DOMAIN requests' = 1 .. k
    BY <1>5, LenProperties
  <2>2. QED
    BY <2>1, <1>1, SMT DEF Requests
<1> HIDE DEF peers
<1>9. ControlTypeOK'
  BY <1>4, <1>5, <1>6, <1>7, <1>8, SMT DEF CountdownInv, ControlTypeOK, peers
<1>10. \A j : (Thrown(j)' <=> Thrown(j)) /\ (Refused(j)' <=> Refused(j))
  BY <1>4 DEF Thrown, Refused
<1>11. ~Thrown(k)
  BY <1>2 DEF CountdownInv, ControlTypeOK, Thrown
<1>12. \A j \in Requests \cup {k} :
           WaitingFor(j)' = IF j = k THEN peers ELSE WaitingFor(j)
  BY <1>2, <1>4 DEF WaitingFor, CountdownInv, ControlTypeOK, peers
<1>13. PendingCounts'
  <2> SUFFICES ASSUME NEW j \in Requests \cup {k}
               PROVE  pending'[j] = Cardinality(WaitingFor(j)')
                                        + (IF j \in own' \/ Thrown(j) THEN 1 ELSE 0)
    BY <1>8, <1>10 DEF PendingCounts
  <2>1. CASE j = k
    BY <2>1, <1>3, <1>4, <1>6, <1>12, SMT
  <2>2. CASE j # k
    BY <2>2, <1>4, <1>6, <1>12 DEF CountdownInv, PendingCounts
  <2>3. QED
    BY <2>1, <2>2
<1>14. EntriesAwaited'
  <2> SUFFICES ASSUME NEW j \in Requests \cup {k}, NEW m \in Nodes, entries'[j][m] = "none"
               PROVE  \/ <<j, m>> \in waiting'
                      \/ m = requests'[j].entry /\ (j \in own' \/ Thrown(j))
                      \/ Refused(j)
    BY <1>8, <1>10 DEF EntriesAwaited
  <2>1. CASE j = k
    BY <2>1, <1>4, <1>5 DEF peers
  <2>2. CASE j # k
    <3>1. j \in Requests /\ entries[j][m] = "none" /\ requests'[j] = requests[j]
      BY <2>2, <1>5, <1>7
    <3>2. \/ <<j, m>> \in waiting
          \/ m = requests[j].entry /\ (j \in own \/ Thrown(j))
          \/ Refused(j)
      BY <3>1 DEF CountdownInv, EntriesAwaited
    <3>3. QED
      BY <3>1, <3>2, <1>4
  <2>3. QED
    BY <2>1, <2>2
<1>15. RepliesInOrder'
  BY <1>4, <1>6, <1>10, <1>11 DEF CountdownInv, ControlTypeOK, RepliesInOrder
<1>16. RepliesOnce'
  BY <1>4 DEF CountdownInv, RepliesOnce
<1>17. QED
  BY <1>9, <1>13, <1>14, <1>15, <1>16 DEF CountdownInv

\* A refused request is replied to and has no part to come.
LEMMA RefusePreserves ==
    ASSUME CountdownInv, NEW op \in Operations, NEW n \in Nodes, RefuseRequest(op, n)
    PROVE  CountdownInv'
<1> PICK k : k = Len(requests) + 1
  OBVIOUS
<1>1. /\ Requests = 1 .. Len(requests) /\ Len(requests) \in Nat
      /\ Len(pending) = Len(requests) /\ Len(entries) = Len(requests)
  BY RequestIndices DEF CountdownInv, ControlTypeOK
<1>2. k \notin Requests
  BY <1>1, SMT
<1>3. /\ requests' = Append(requests, [op |-> op, entry |-> n])
      /\ pending' = Append(pending, 0)
      /\ entries' = Append(entries, [m \in Nodes |-> "none"])
      /\ replies' = replies \cup {[request |-> k, status |-> "REFUSED", by |-> n]}
      /\ own' = own /\ waiting' = waiting
  BY DEF RefuseRequest
<1>4. /\ requests' \in Seq([op : Operations, entry : Nodes])
      /\ Len(requests') = k
      /\ \A j \in Requests : requests'[j] = requests[j]
  BY <1>1, <1>3, AppendProperties, SMT DEF CountdownInv, ControlTypeOK
<1>5. /\ pending' \in Seq(Nat)
      /\ Len(pending') = k
      /\ pending'[k] = 0
      /\ \A j \in Requests : pending'[j] = pending[j]
  BY <1>1, <1>3, AppendProperties, SMT DEF CountdownInv, ControlTypeOK
<1>6. /\ entries' \in Seq([Nodes -> {"none", "ok", "failed"}])
      /\ Len(entries') = k
      /\ \A j \in Requests : entries'[j] = entries[j]
  BY <1>1, <1>3, AppendProperties, SMT DEF CountdownInv, ControlTypeOK
<1>7. Requests' = Requests \cup {k}
  <2>1. DOMAIN requests' = 1 .. k
    BY <1>4, LenProperties
  <2>2. QED
    BY <2>1, <1>1, SMT DEF Requests
<1>8. ControlTypeOK'
  BY <1>3, <1>4, <1>5, <1>6, <1>7, SMT DEF CountdownInv, ControlTypeOK
<1> PICK new : new = [request |-> k, status |-> "REFUSED", by |-> n]
  OBVIOUS
<1>9. \A j : (Thrown(j)' <=> Thrown(j)) /\ (Refused(j)' <=> (Refused(j) \/ j = k))
  <2>1. /\ replies' = replies \cup {new}
        /\ new.request = k /\ new.status = "REFUSED" /\ new.status # "INTERNAL_SERVER_ERROR"
    BY <1>3
  <2>2. \A j : Thrown(j)' <=> Thrown(j)
    BY <2>1 DEF Thrown
  <2>3. \A j : Refused(j)' <=> (Refused(j) \/ j = k)
    BY <2>1 DEF Refused
  <2>4. QED
    BY <2>2, <2>3
<1>10. ~Thrown(k) /\ k \notin own
  BY <1>2 DEF CountdownInv, ControlTypeOK, Thrown
<1>11. \A j \in Requests \cup {k} :
           WaitingFor(j)' = IF j = k THEN {} ELSE WaitingFor(j)
  BY <1>2, <1>3 DEF WaitingFor, CountdownInv, ControlTypeOK
<1>12. PendingCounts'
  <2> SUFFICES ASSUME NEW j \in Requests \cup {k}
               PROVE  pending'[j] = Cardinality(WaitingFor(j)')
                                        + (IF j \in own \/ Thrown(j) THEN 1 ELSE 0)
    BY <1>3, <1>7, <1>9 DEF PendingCounts
  <2>1. CASE j = k
    <3>1. pending'[j] = 0 /\ WaitingFor(j)' = {} /\ ~(j \in own \/ Thrown(j))
      BY <2>1, <1>5, <1>10, <1>11
    <3>2. Cardinality(WaitingFor(j)') = 0
      BY <3>1, FS_EmptySet
    <3>3. QED
      BY <3>1, <3>2, SMT
  <2>2. CASE j # k
    BY <2>2, <1>5, <1>11 DEF CountdownInv, PendingCounts
  <2>3. QED
    BY <2>1, <2>2
<1>13. EntriesAwaited'
  <2> SUFFICES ASSUME NEW j \in Requests \cup {k}, NEW m \in Nodes, entries'[j][m] = "none"
               PROVE  \/ <<j, m>> \in waiting
                      \/ m = requests'[j].entry /\ (j \in own \/ Thrown(j))
                      \/ Refused(j) \/ j = k
    BY <1>3, <1>7, <1>9 DEF EntriesAwaited
  <2>1. CASE j = k
    BY <2>1
  <2>2. CASE j # k
    <3>1. j \in Requests /\ entries[j][m] = "none" /\ requests'[j] = requests[j]
      BY <2>2, <1>4, <1>6
    <3>2. QED
      BY <3>1 DEF CountdownInv, EntriesAwaited
  <2>3. QED
    BY <2>1, <2>2
<1>14. RepliesInOrder'
  <2>1. \A r \in replies : r.request \in Requests
    BY DEF CountdownInv, ControlTypeOK
  <2>2. \A r \in replies : r.status # "INTERNAL_SERVER_ERROR" => pending'[r.request] = 0
    BY <2>1, <1>5 DEF CountdownInv, RepliesInOrder
  <2>3. replies' = replies \cup {new} /\ new.request = k
    BY <1>3
  <2>4. \A r \in replies' : r.status # "INTERNAL_SERVER_ERROR" => pending'[r.request] = 0
    BY <2>2, <2>3, <1>5
  <2>5. \A j \in own' : ~Thrown(j)'
    BY <1>3, <1>9 DEF CountdownInv, RepliesInOrder
  <2>6. QED
    BY <2>4, <2>5 DEF RepliesInOrder
<1>15. RepliesOnce'
  <2>1. \A r \in replies : r.request # k
    BY <1>2 DEF CountdownInv, ControlTypeOK
  <2>2. QED
    BY <1>3, <2>1, SMT DEF CountdownInv, RepliesOnce
<1>16. QED
  BY <1>8, <1>12, <1>13, <1>14, <1>15 DEF CountdownInv

\* An own part that throws is answered at once, and keeps the countdown from ever
\* reaching zero.
LEMMA ThrowsPreserves ==
    ASSUME CountdownInv, NEW k \in Requests, OwnPartThrows(k)
    PROVE  CountdownInv'
<1> PICK n : n = requests[k].entry
  OBVIOUS
<1> DEFINE r == [request |-> k, status |-> "INTERNAL_SERVER_ERROR", by |-> n]
<1>1. /\ k \in own /\ own' = own \ {k} /\ replies' = replies \cup {r}
      /\ UNCHANGED <<requests, waiting, pending, entries>>
  BY DEF OwnPartThrows, Abandon
<1>2. n \in Nodes
  BY RequestIndices DEF CountdownInv
<1>3. Requests' = Requests
  BY <1>1 DEF Requests
<1>4. ControlTypeOK'
  BY <1>1, <1>2, <1>3, SMT DEF CountdownInv, ControlTypeOK
<1>5. \A j : Thrown(j)' <=> (Thrown(j) \/ j = k)
  <2>1. r.request = k /\ r.status = "INTERNAL_SERVER_ERROR"
    OBVIOUS
  <2> HIDE DEF r
  <2>2. QED
    BY <1>1, <2>1 DEF Thrown
<1>6. /\ \A j : WaitingFor(j)' = WaitingFor(j)
      /\ \A j : Refused(j)' <=> Refused(j)
  BY <1>1, SMT DEF WaitingFor, Refused
<1>7. PendingCounts'
  BY <1>1, <1>3, <1>5, <1>6 DEF CountdownInv, PendingCounts
<1>8. EntriesAwaited'
  BY <1>1, <1>3, <1>5, <1>6 DEF CountdownInv, EntriesAwaited
<1>9. pending[k] = Cardinality(WaitingFor(k)) + 1 /\ Cardinality(WaitingFor(k)) \in Nat
  BY <1>1, WaitingForFinite DEF CountdownInv, PendingCounts
<1>10. RepliesInOrder'
  BY <1>1, <1>5, SMT DEF CountdownInv, RepliesInOrder
<1>11. \A s \in replies : s.request # k
  <2>1. pending[k] # 0
    BY <1>9, SMT
  <2>2. QED
    BY <1>1, <2>1 DEF CountdownInv, RepliesInOrder, Thrown
<1>12. RepliesOnce'
  BY <1>1, <1>11, SMT DEF CountdownInv, RepliesOnce
<1>13. QED
  BY <1>4, <1>7, <1>8, <1>10, <1>12 DEF CountdownInv

\* Steps that leave the handlers and callbacks alone preserve the countdown.
LEMMA ControlUnchanged ==
    ASSUME CountdownInv, UNCHANGED <<requests, own, waiting, pending, entries, replies>>
    PROVE  CountdownInv'
<1>1. ControlTypeOK'
  BY DEF CountdownInv, ControlTypeOK, Requests
<1>2. /\ \A j : WaitingFor(j)' = WaitingFor(j)
      /\ \A j : (Thrown(j)' <=> Thrown(j)) /\ (Refused(j)' <=> Refused(j))
      /\ Requests' = Requests
  BY DEF WaitingFor, Thrown, Refused, Requests
<1>3. PendingCounts' /\ EntriesAwaited'
  BY <1>2 DEF CountdownInv, PendingCounts, EntriesAwaited
<1>4. RepliesInOrder' /\ RepliesOnce'
  BY <1>2 DEF CountdownInv, RepliesInOrder, RepliesOnce
<1>5. QED
  BY <1>1, <1>3, <1>4 DEF CountdownInv

\* Every step of the system preserves the countdown.
LEMMA CountdownPreserved ==
    ASSUME CountdownInv, DataTypeOK, [Next]_vars
    PROVE  CountdownInv'
<1>1. ASSUME NEW op \in Operations, NEW n \in Nodes,
             RefuseRequest(op, n) \/ SetupRecursiveRequest(op, n)
      PROVE  CountdownInv'
  BY <1>1, RefusePreserves, SetupPreserves
<1>2. ASSUME NEW k \in Requests, OwnPart(k) \/ OwnStoreFails(k)
      PROVE  CountdownInv'
  BY <1>2, OwnFinishPreserves DEF OwnPart, OwnStoreFails
<1>3. ASSUME NEW k \in Requests, OwnPartThrows(k)
      PROVE  CountdownInv'
  BY <1>3, ThrowsPreserves
<1>4. ASSUME NEW msg \in net, HandleForwarded(msg)
      PROVE  CountdownInv'
  BY <1>4, ControlUnchanged DEF HandleForwarded
<1>5. ASSUME NEW msg \in net, PeerAnswers(msg)
      PROVE  CountdownInv'
  <2>1. CASE <<msg.request, msg.peer>> \in waiting
    <3>1. msg.request \in Requests /\ msg.peer \in Nodes
      BY <2>1 DEF CountdownInv, ControlTypeOK
    <3>2. EntryOf(msg) \in {"ok", "failed"}
      BY DEF EntryOf
    <3>3. QED
      BY <1>5, <2>1, <3>1, <3>2, PeerFinishPreserves DEF PeerAnswers
  <2>2. CASE <<msg.request, msg.peer>> \notin waiting
    BY <1>5, <2>2, ControlUnchanged DEF PeerAnswers
  <2>3. QED
    BY <2>1, <2>2
<1>6. ASSUME NEW k \in Requests, NEW p \in Nodes, PeerTimesOut(k, p)
      PROVE  CountdownInv'
  BY <1>6, PeerFinishPreserves DEF PeerTimesOut
<1>7. CASE UNCHANGED vars
  BY <1>7, ControlUnchanged DEF vars
<1>8. QED
  BY <1>1, <1>2, <1>3, <1>4, <1>5, <1>6, <1>7 DEF Next

\* The messages under way and the databases keep their types.
LEMMA DataTypePreserved ==
    ASSUME CountdownInv, DataTypeOK, [Next]_vars
    PROVE  DataTypeOK'
<1>1. ControlTypeOK /\ ControlTypeOK'
  BY CountdownPreserved DEF CountdownInv
<1>2. ASSUME NEW op \in Operations, NEW n \in Nodes,
             RefuseRequest(op, n) \/ SetupRecursiveRequest(op, n)
      PROVE  DataTypeOK'
  <2>1. Requests' = Requests \cup {Len(requests) + 1}
    <3>1. Requests' = 1 .. Len(requests') /\ Requests = 1 .. Len(requests)
      BY <1>1, RequestIndices, LenProperties DEF ControlTypeOK, Requests
    <3>2. Len(requests') = Len(requests) + 1 /\ Len(requests) \in Nat
      BY <1>1, <1>2, AppendProperties, RequestIndices, SMT
      DEF RefuseRequest, SetupRecursiveRequest, ControlTypeOK
    <3>3. QED
      BY <3>1, <3>2, SMT
  <2>2. QED
    BY <1>2, <2>1, SMT DEF RefuseRequest, SetupRecursiveRequest, DataTypeOK
<1>3. ASSUME NEW k \in Requests, OwnPart(k) \/ OwnStoreFails(k) \/ OwnPartThrows(k)
      PROVE  DataTypeOK'
  <2>1. Requests' = Requests /\ net' = net
    BY <1>3 DEF OwnPart, OwnStoreFails, OwnPartThrows, Requests
  <2>2. requests[k].entry \in Nodes
    BY <1>1, RequestIndices
  <2>3. CASE CarryOut(k, requests[k].entry)
    BY <1>1, <2>1, <2>2, <2>3, CarryOutType DEF DataTypeOK
  <2>4. CASE UNCHANGED <<box, effected, granted>>
    BY <2>1, <2>4 DEF DataTypeOK
  <2>5. QED
    BY <1>3, <2>3, <2>4 DEF OwnPart, OwnStoreFails, OwnPartThrows
<1>4. ASSUME NEW msg \in net, HandleForwarded(msg)
      PROVE  DataTypeOK'
  <2>1. /\ Requests' = Requests
        /\ msg.request \in Requests /\ msg.peer \in Nodes
    BY <1>4 DEF HandleForwarded, Requests, DataTypeOK
  <2>2. net' \subseteq [type : {"storage_cc"}, request : Requests, peer : Nodes]
                    \cup [type : {"answer"}, request : Requests, peer : Nodes,
                          parts : {1, 2}, failed : BOOLEAN]
    <3>1. PICK parts \in {1, 2}, failed \in BOOLEAN :
              net' = (net \ {msg}) \cup {Answer(msg.request, msg.peer, parts, failed)}
      BY <1>4 DEF HandleForwarded
    <3>2. Answer(msg.request, msg.peer, parts, failed)
              \in [type : {"answer"}, request : Requests, peer : Nodes,
                   parts : {1, 2}, failed : BOOLEAN]
      BY <2>1 DEF Answer
    <3>3. QED
      BY <3>1, <3>2 DEF DataTypeOK
  <2>3. CASE CarryOut(msg.request, msg.peer)
    BY <1>1, <2>1, <2>2, <2>3, CarryOutType DEF DataTypeOK
  <2>4. CASE UNCHANGED <<box, effected, granted>>
    BY <2>1, <2>2, <2>4 DEF DataTypeOK
  <2>5. QED
    BY <1>4, <2>3, <2>4 DEF HandleForwarded
<1>5. ASSUME NEW msg \in net, PeerAnswers(msg)
      PROVE  DataTypeOK'
  BY <1>5 DEF PeerAnswers, DataTypeOK, Requests
<1>6. ASSUME NEW k \in Requests, NEW p \in Nodes, PeerTimesOut(k, p)
      PROVE  DataTypeOK'
  BY <1>6 DEF PeerTimesOut, DataTypeOK, Requests
<1>7. CASE UNCHANGED vars
  BY <1>7 DEF vars, DataTypeOK, Requests
<1>8. QED
  BY <1>2, <1>3, <1>4, <1>5, <1>6, <1>7 DEF Next

\* Nothing is requested at the start.
LEMMA CountdownInit == Init => CountdownInv /\ DataTypeOK
<1> SUFFICES ASSUME Init PROVE CountdownInv /\ DataTypeOK
  OBVIOUS
<1>1. Requests = {}
  BY SMT DEF Init, Requests
<1>2. ControlTypeOK
  BY <1>1, EmptySeq DEF Init, ControlTypeOK
<1>3. DataTypeOK
  <2>1. granted \in [effected -> Expiries \cup Limits]
    BY SMT DEF Init
  <2>2. QED
    BY <1>1, <2>1 DEF Init, DataTypeOK
<1>4. PendingCounts /\ EntriesAwaited
  BY <1>1 DEF PendingCounts, EntriesAwaited
<1>5. RepliesInOrder /\ RepliesOnce
  BY DEF Init, RepliesInOrder, RepliesOnce
<1>6. QED
  BY <1>2, <1>3, <1>4, <1>5 DEF CountdownInv

\* In every execution swarm_response::pending counts exactly the parts of a request
\* that are still to come, and a request is replied to at most once.
THEOREM CountdownInvariant == Spec => []CountdownInv
<1>1. CountdownInv /\ DataTypeOK /\ [Next]_vars => (CountdownInv /\ DataTypeOK)'
  BY CountdownPreserved, DataTypePreserved
<1>2. QED
  BY <1>1, CountdownInit, PTL DEF Spec

\* The state of handlers, messages and databases keeps its type.
THEOREM TypeCorrect == Spec => []TypeOK
<1>1. CountdownInv /\ DataTypeOK /\ [Next]_vars => (CountdownInv /\ DataTypeOK)'
  BY CountdownPreserved, DataTypePreserved
<1>2. CountdownInv /\ DataTypeOK => TypeOK
  BY DEF CountdownInv, TypeOK
<1>3. QED
  BY <1>1, <1>2, CountdownInit, PTL DEF Spec

\* An OK reply has the entry of every member of the swarm, the entry node's own
\* included, whatever order the callbacks and the own part run in.
THEOREM RepliesAreComplete == Spec => []ReplyIsComplete
<1>1. CountdownInv => ReplyIsComplete
  <2> SUFFICES ASSUME CountdownInv, NEW r \in replies, r.status = "OK"
               PROVE  /\ r.request \notin own
                      /\ \A n \in Nodes : entries[r.request][n] # "none"
    BY DEF ReplyIsComplete
  <2> PICK k : k = r.request
    OBVIOUS
  <2>1. k \in Requests /\ pending[k] = 0
    BY DEF CountdownInv, ControlTypeOK, RepliesInOrder
  <2>2. /\ pending[k] = Cardinality(WaitingFor(k)) + (IF k \in own \/ Thrown(k) THEN 1 ELSE 0)
        /\ Cardinality(WaitingFor(k)) \in Nat /\ IsFiniteSet(WaitingFor(k))
    BY <2>1, WaitingForFinite DEF CountdownInv, PendingCounts
  <2>3. ~(k \in own \/ Thrown(k)) /\ Cardinality(WaitingFor(k)) = 0
    BY <2>1, <2>2, SMT
  <2>4. WaitingFor(k) = {}
    BY <2>2, <2>3, FS_EmptySet
  <2>5. ~Refused(k)
    BY DEF CountdownInv, RepliesOnce, Refused
  <2>6. \A n \in Nodes : entries[k][n] # "none"
    BY <2>1, <2>3, <2>4, <2>5 DEF CountdownInv, EntriesAwaited, WaitingFor
  <2>7. QED
    BY <2>3, <2>6
<1>2. QED
  BY <1>1, CountdownInvariant, PTL

(***************************************************************************)
(* The entries are true.                                                   *)
(***************************************************************************)

\* A node whose database has room carries the request out.
LEMMA CarryOutEffected ==
    ASSUME FullNodes = {}, NEW k, NEW n, CarryOut(k, n)
    PROVE  effected' = effected \cup {<<k, n>>}
  BY DEF CarryOut, CarriesOut

\* An entry is set to "ok" only where the node has carried out the request.
LEMMA FinishTrue ==
    ASSUME ControlTypeOK, SuccessIsTrue, NEW k \in Requests, NEW n \in Nodes,
           NEW e, Finish(k, n, e), requests' = requests,
           effected \subseteq effected',
           e = "ok" => <<k, n>> \in effected'
    PROVE  SuccessIsTrue'
<1>1. Requests' = Requests /\ DOMAIN entries = Requests
  BY RequestIndices DEF Requests
<1>2. \A j \in Requests, m \in Nodes :
          entries'[j][m] = IF j = k /\ m = n THEN e ELSE entries[j][m]
  BY <1>1, RequestIndices DEF Finish
<1>3. QED
  BY <1>1, <1>2, SMT DEF SuccessIsTrue

\* Every step keeps the entries and the answers under way true.
LEMMA SuccessPreserved ==
    ASSUME FullNodes = {}, CountdownInv, DataTypeOK, SuccessIsTrue, AnswersAreTrue,
           [Next]_vars
    PROVE  SuccessIsTrue' /\ AnswersAreTrue'
<1>1. ControlTypeOK
  BY DEF CountdownInv
<1>2. ASSUME NEW op \in Operations, NEW n \in Nodes,
             RefuseRequest(op, n) \/ SetupRecursiveRequest(op, n)
      PROVE  SuccessIsTrue' /\ AnswersAreTrue'
  <2>1. /\ Requests = 1 .. Len(requests) /\ Len(requests) \in Nat
        /\ Len(entries) = Len(requests)
    BY <1>1, RequestIndices DEF ControlTypeOK
  <2>2. /\ Requests' = 1 .. Len(requests) + 1
        /\ \A j \in Requests : entries'[j] = entries[j]
        /\ entries'[Len(requests) + 1] = [m \in Nodes |-> "none"]
    <3> /\ requests' = Append(requests, [op |-> op, entry |-> n])
        /\ entries' = Append(entries, [m \in Nodes |-> "none"])
      BY <1>2 DEF RefuseRequest, SetupRecursiveRequest
    <3>1. /\ requests' \in Seq([op : Operations, entry : Nodes])
          /\ Len(requests') = Len(requests) + 1
      BY <1>1, AppendProperties, SMT DEF ControlTypeOK
    <3>2. Requests' = 1 .. Len(requests) + 1
      BY <3>1, LenProperties DEF Requests
    <3>3. /\ \A j \in Requests : entries'[j] = entries[j]
          /\ entries'[Len(requests) + 1] = [m \in Nodes |-> "none"]
      BY <1>1, <2>1, AppendProperties, SMT DEF ControlTypeOK
    <3>4. QED
      BY <3>2, <3>3
  <2>3. SuccessIsTrue'
    <3>1. effected' = effected
      BY <1>2 DEF RefuseRequest, SetupRecursiveRequest
    <3>2. QED
      BY <3>1, <2>1, <2>2, SMT DEF SuccessIsTrue
  <2>4. AnswersAreTrue'
    BY <1>2, SMT DEF AnswersAreTrue, RefuseRequest, SetupRecursiveRequest, EntryOf
  <2>5. QED
    BY <2>3, <2>4
<1>3. ASSUME NEW k \in Requests, OwnPart(k)
      PROVE  SuccessIsTrue' /\ AnswersAreTrue'
  <2>1. effected' = effected \cup {<<k, requests[k].entry>>} /\ requests[k].entry \in Nodes
    BY <1>1, <1>3, CarryOutEffected, RequestIndices DEF OwnPart
  <2>2. SuccessIsTrue'
    BY <1>1, <1>3, <2>1, FinishTrue DEF OwnPart
  <2>3. AnswersAreTrue'
    BY <1>3, <2>1 DEF OwnPart, AnswersAreTrue, EntryOf
  <2>4. QED
    BY <2>2, <2>3
<1>4. ASSUME NEW k \in Requests, OwnStoreFails(k)
      PROVE  SuccessIsTrue' /\ AnswersAreTrue'
  <2>1. requests[k].entry \in Nodes
    BY <1>1, RequestIndices
  <2>2. SuccessIsTrue'
    BY <1>1, <1>4, <2>1, FinishTrue DEF OwnStoreFails
  <2>3. AnswersAreTrue'
    BY <1>4 DEF OwnStoreFails, AnswersAreTrue, EntryOf
  <2>4. QED
    BY <2>2, <2>3
<1>5. ASSUME NEW k \in Requests, OwnPartThrows(k)
      PROVE  SuccessIsTrue' /\ AnswersAreTrue'
  <2>1. effected \subseteq effected'
    BY <1>5 DEF OwnPartThrows, CarryOut
  <2>2. QED
    BY <1>5, <2>1
    DEF OwnPartThrows, Abandon, SuccessIsTrue, AnswersAreTrue, Requests, EntryOf
<1>6. ASSUME NEW msg \in net, HandleForwarded(msg)
      PROVE  SuccessIsTrue' /\ AnswersAreTrue'
  <2>1. effected \subseteq effected'
    BY <1>6 DEF HandleForwarded, CarryOut
  <2>2. SuccessIsTrue'
    BY <1>6, <2>1 DEF HandleForwarded, SuccessIsTrue, Requests
  <2>3. PICK parts \in {1, 2}, failed \in BOOLEAN :
            /\ net' = (net \ {msg}) \cup {Answer(msg.request, msg.peer, parts, failed)}
            /\ (parts = 1 /\ ~failed) => CarryOut(msg.request, msg.peer)
    BY <1>6 DEF HandleForwarded
  <2> DEFINE a == Answer(msg.request, msg.peer, parts, failed)
  <2>4. EntryOf(a) = "ok" => <<a.request, a.peer>> \in effected'
    BY <2>3, CarryOutEffected, SMT DEF Answer, EntryOf
  <2> HIDE DEF a
  <2>5. \A m \in net : (m.type = "answer" /\ EntryOf(m) = "ok")
                           => <<m.request, m.peer>> \in effected'
    BY <2>1 DEF AnswersAreTrue
  <2>6. AnswersAreTrue'
    BY <2>3, <2>4, <2>5 DEF AnswersAreTrue, EntryOf, a
  <2>7. QED
    BY <2>2, <2>6
<1>7. ASSUME NEW msg \in net, PeerAnswers(msg)
      PROVE  SuccessIsTrue' /\ AnswersAreTrue'
  <2>1. AnswersAreTrue'
    BY <1>7 DEF PeerAnswers, AnswersAreTrue, EntryOf
  <2>2. CASE <<msg.request, msg.peer>> \in waiting
    <3>1. msg.request \in Requests /\ msg.peer \in Nodes
      BY <1>1, <2>2 DEF ControlTypeOK
    <3>2. EntryOf(msg) = "ok" => <<msg.request, msg.peer>> \in effected'
      BY <1>7 DEF PeerAnswers, AnswersAreTrue
    <3>3. Finish(msg.request, msg.peer, EntryOf(msg)) /\ UNCHANGED <<requests, effected, granted>>
      BY <1>7, <2>2 DEF PeerAnswers
    <3>4. QED
      BY <1>1, <2>1, <3>1, <3>2, <3>3, FinishTrue
  <2>3. CASE <<msg.request, msg.peer>> \notin waiting
    BY <1>7, <2>1, <2>3 DEF PeerAnswers, SuccessIsTrue, Requests
  <2>4. QED
    BY <2>2, <2>3
<1>8. ASSUME NEW k \in Requests, NEW p \in Nodes, PeerTimesOut(k, p)
      PROVE  SuccessIsTrue' /\ AnswersAreTrue'
  <2>1. SuccessIsTrue'
    BY <1>1, <1>8, FinishTrue DEF PeerTimesOut
  <2>2. AnswersAreTrue'
    BY <1>8 DEF PeerTimesOut, AnswersAreTrue, EntryOf
  <2>3. QED
    BY <2>1, <2>2
<1>9. CASE UNCHANGED vars
  BY <1>9 DEF vars, SuccessIsTrue, AnswersAreTrue, Requests, EntryOf
<1>10. QED
  BY <1>2, <1>3, <1>4, <1>5, <1>6, <1>7, <1>8, <1>9 DEF Next

\* Where no database is full, an entry that reports success is true: the node it names
\* has carried out the request, even if its answer crossed a timeout of another peer.
THEOREM SuccessAlwaysTrue ==
    ASSUME FullNodes = {}
    PROVE  Spec => []SuccessIsTrue
<1>1. Init => SuccessIsTrue /\ AnswersAreTrue
  BY SMT DEF Init, SuccessIsTrue, AnswersAreTrue, Requests
<1> DEFINE Inv == CountdownInv /\ DataTypeOK /\ SuccessIsTrue /\ AnswersAreTrue
<1>2. Inv /\ [Next]_vars => Inv'
  BY CountdownPreserved, DataTypePreserved, SuccessPreserved
<1>3. Init => Inv
  BY <1>1, CountdownInit
<1>4. Inv => SuccessIsTrue
  OBVIOUS
<1> HIDE DEF Inv
<1>5. QED
  BY <1>2, <1>3, <1>4, PTL DEF Spec

-----------------------------------------------------------------------------
(***************************************************************************)
(* Agreement of the databases.                                             *)
(***************************************************************************)

\* A part that is to come is counted.
LEMMA PartIsPending ==
    ASSUME CountdownInv, NEW k \in Requests, NEW n \in Nodes, k \in own \/ <<k, n>> \in waiting
    PROVE  pending[k] >= 1
<1>1. Cardinality(WaitingFor(k)) \in Nat /\ IsFiniteSet(WaitingFor(k))
  BY WaitingForFinite
<1>2. pending[k] = Cardinality(WaitingFor(k)) + (IF k \in own \/ Thrown(k) THEN 1 ELSE 0)
  BY DEF CountdownInv, PendingCounts
<1>3. CASE k \in own
  BY <1>1, <1>2, <1>3, SMT
<1>4. CASE <<k, n>> \in waiting
  <2>1. n \in WaitingFor(k)
    BY <1>4 DEF WaitingFor
  <2>2. Cardinality(WaitingFor(k)) # 0
    BY <1>1, <2>1, FS_EmptySet
  <2>3. QED
    BY <1>1, <1>2, <2>2, SMT
<1>5. QED
  BY <1>3, <1>4

\* A request with a part to come has not been replied to, unless its own part threw.
LEMMA RepliedEarly ==
    ASSUME CountdownInv, NEW k \in Requests, pending[k] >= 1, NEW r \in replies, r.request = k
    PROVE  Thrown(k) /\ ~Refused(k)
<1>1. r.status = "INTERNAL_SERVER_ERROR"
  BY SMT DEF CountdownInv, RepliesInOrder
<1>2. QED
  BY <1>1 DEF CountdownInv, RepliesOnce, Thrown, Refused

\* A forwarded copy is known by its request and its peer.
LEMMA CopyIsUnique ==
    ASSUME DataTypeOK, NEW m \in net, NEW msg \in net, m.type = "storage_cc",
           msg.type = "storage_cc", m.request = msg.request, m.peer = msg.peer
    PROVE  m = msg
<1>1. \A x \in net : x.type = "storage_cc" =>
          x \in [type : {"storage_cc"}, request : Requests, peer : Nodes]
  BY DEF DataTypeOK
<1>2. QED
  BY <1>1, SMT

\* The messages under way name requests and nodes.
LEMMA MessageTypes ==
    ASSUME DataTypeOK, NEW msg \in net
    PROVE  msg.request \in Requests /\ msg.peer \in Nodes
BY DEF DataTypeOK

\* The end of a part cannot make a success of a request whose reply is out.
LEMMA FinishSucceeds ==
    ASSUME CountdownInv, OncePerNode, OneAtATime,
           NEW k \in Requests, NEW n \in Nodes, NEW e \in {"ok", "failed"}, Finish(k, n, e),
           requests' = requests, own' \subseteq own, waiting' \subseteq waiting,
           (k \in own /\ n = requests[k].entry) \/ <<k, n>> \in waiting
    PROVE  \A j \in Requests : j < Len(requests) /\ Succeeded(j)' => Succeeded(j)
<1>1. pending[k] >= 1
  BY PartIsPending
<1>2. /\ \A j \in Requests, m \in Nodes :
             entries'[j][m] = IF j = k /\ m = n THEN e ELSE entries[j][m]
      /\ \A j : Refused(j)' <=> Refused(j)
  BY <1>1, FinishValues, SMT DEF CountdownInv
<1>3. \A j \in Requests : j # k => (Succeeded(j)' <=> Succeeded(j))
  BY <1>2 DEF Succeeded
<1>4. ASSUME k < Len(requests)
      PROVE  ~Succeeded(k)'
  <2>1. PICK r \in replies : r.request = k
    BY <1>4 DEF OneAtATime
  <2>2. Thrown(k) /\ ~Refused(k)
    BY <1>1, <2>1, RepliedEarly
  <2>3. k \notin own
    BY <2>2 DEF CountdownInv, RepliesInOrder
  <2>4. n # requests[k].entry /\ entries[k][requests[k].entry] # "ok"
    BY <2>2, <2>3 DEF OncePerNode
  <2>5. requests[k].entry \in Nodes
    BY RequestIndices DEF CountdownInv
  <2>6. entries'[k][requests[k].entry] # "ok"
    BY <1>2, <2>4, <2>5
  <2>7. QED
    BY <1>2, <2>2, <2>5, <2>6 DEF Succeeded
<1>5. QED
  BY <1>3, <1>4

\* What a step other than a new request does: it makes no success of an earlier request, and at
\* most one node carries out a request that it has not carried out before.
OnePartDone ==
    /\ requests' = requests
    /\ \A k \in Requests : k < Len(requests) /\ Succeeded(k)' => Succeeded(k)
    /\ \/ UNCHANGED <<box, effected, granted>>
       \/ \E k \in Requests, n \in Nodes :
             /\ <<k, n>> \notin effected /\ ~Refused(k)
             /\ CarryOut(k, n)

\* Such a step keeps the databases in agreement.
LEMMA OnePartAgrees ==
    ASSUME FullNodes = {}, CountdownInv, DataTypeOK, SuccessIsTrue, Agree, OnePartDone
    PROVE  Agree'
<1>1. /\ Requests' = Requests /\ requests' = requests
      /\ Requests = 1 .. Len(requests) /\ Len(requests) \in Nat
  BY RequestIndices DEF OnePartDone, Requests, CountdownInv
<1>2. PICK K : K = Len(requests)
  OBVIOUS
<1>3. SUFFICES ASSUME \A k \in Requests : k < K => Succeeded(k)' /\ SameExpiry(k)'
               PROVE  \E b \in [Hashes -> Expiries \cup Limits \cup {0}] :
                          \A n \in Nodes : box'[n] = IF <<K, n>> \in effected'
                                                     THEN Effect(b, Carried(K, n)') ELSE b
  BY <1>1, <1>2 DEF Agree
<1>4. \A k \in Requests : k < K => Succeeded(k)
  BY <1>2, <1>3 DEF OnePartDone
<1>5. ASSUME \A k \in Requests : k < K => SameExpiry(k)
      PROVE  \E b \in [Hashes -> Expiries \cup Limits \cup {0}] :
                 \A n \in Nodes : box[n] = IF <<K, n>> \in effected
                                           THEN Effect(b, Carried(K, n)) ELSE b
  BY <1>2, <1>4, <1>5 DEF Agree
<1>6. CASE UNCHANGED <<box, effected, granted>>
  <2>1. /\ \A k : SameExpiry(k)' <=> SameExpiry(k)
        /\ \A n : Carried(K, n)' = Carried(K, n)
    BY <1>1, <1>6 DEF SameExpiry, Carried
  <2>2. PICK b \in [Hashes -> Expiries \cup Limits \cup {0}] :
            \A n \in Nodes : box[n] = IF <<K, n>> \in effected
                                      THEN Effect(b, Carried(K, n)) ELSE b
    BY <1>3, <1>5, <2>1
  <2>3. QED
    BY <1>6, <2>1, <2>2
<1>7. CASE \E k \in Requests, n \in Nodes :
               <<k, n>> \notin effected /\ ~Refused(k) /\ CarryOut(k, n)
  <2>1. PICK k \in Requests, n \in Nodes :
            <<k, n>> \notin effected /\ ~Refused(k) /\ CarryOut(k, n)
    BY <1>7
  <2>2. k = K
    <3>1. ~(k < K)
      BY <1>4, <2>1 DEF Succeeded, SuccessIsTrue
    <3>2. QED
      BY <1>1, <1>2, <3>1, SMT
  <2>3. PICK e \in Expiries \cup Limits :
            /\ box' = [box EXCEPT
                         ![n] = Effect(box[n], [requests[K].op EXCEPT !.expiry = e])]
            /\ effected' = effected \cup {<<K, n>>}
            /\ granted' = [x \in effected \cup {<<K, n>>} |->
                              IF x = <<K, n>> THEN e ELSE granted[x]]
    <3>1. CarriesOut(n, requests[k].op)
      BY DEF CarriesOut
    <3>2. ControlTypeOK /\ K \in Requests /\ CarryOut(K, n)
      BY <2>1, <2>2 DEF CountdownInv
    <3>3. CarriesOut(n, requests[K].op)
      BY <2>2, <3>1
    <3>4. \/ UNCHANGED <<box, effected, granted>> /\ ~CarriesOut(n, requests[K].op)
          \/ \E e \in Expiries \cup Limits :
                /\ [requests[K].op EXCEPT !.expiry = e] \in GrantedOperation
                /\ box' = [box EXCEPT
                             ![n] = Effect(box[n], [requests[K].op EXCEPT !.expiry = e])]
                /\ effected' = effected \cup {<<K, n>>}
                /\ granted' = [x \in effected \cup {<<K, n>>} |->
                                  IF x = <<K, n>> THEN e ELSE granted[x]]
      BY <3>2, CarryOutGrants
    <3>5. QED
      BY <3>3, <3>4
  <2>4. /\ \A x \in effected : x \in effected' /\ granted'[x] = granted[x]
        /\ granted'[<<K, n>>] = e
    BY <2>1, <2>2, <2>3
  <2>5. \A j \in Requests : j < K => SameExpiry(j)
    BY <1>3, <2>4 DEF SameExpiry
  <2>6. PICK b \in [Hashes -> Expiries \cup Limits \cup {0}] :
            \A m \in Nodes : box[m] = IF <<K, m>> \in effected
                                      THEN Effect(b, Carried(K, m)) ELSE b
    BY <1>5, <2>5
  <2>7. box[n] = b
    BY <2>1, <2>2, <2>6
  <2>8. box \in [Nodes -> [Hashes -> Expiries \cup Limits \cup {0}]]
    BY DEF DataTypeOK
  <2>9. Carried(K, n)' = [requests[K].op EXCEPT !.expiry = e]
    BY <1>1, <2>4 DEF Carried
  <2>10. ASSUME NEW m \in Nodes
         PROVE  box'[m] = IF <<K, m>> \in effected' THEN Effect(b, Carried(K, m)') ELSE b
    <3>1. CASE m = n
      <4>1. box'[n] = Effect(b, [requests[K].op EXCEPT !.expiry = e])
        BY <2>3, <2>7, <2>8
      <4>2. <<K, n>> \in effected'
        BY <2>3
      <4>3. QED
        BY <2>9, <3>1, <4>1, <4>2
    <3>2. CASE m # n
      <4>1. box'[m] = box[m]
        BY <2>3, <2>8, <3>2
      <4>2. <<K, m>> \in effected' <=> <<K, m>> \in effected
        BY <2>3, <3>2
      <4>3. <<K, m>> \in effected => Carried(K, m)' = Carried(K, m)
        BY <1>1, <2>4 DEF Carried
      <4>4. QED
        BY <2>6, <4>1, <4>2, <4>3
    <3>3. QED
      BY <3>1, <3>2
  <2>11. QED
    BY <2>10
<1>8. QED
  BY <1>6, <1>7 DEF OnePartDone

\* When all requests have succeeded with one expiry, the databases are the same.
LEMMA SucceededAgree ==
    ASSUME AgreementInv, \A k \in Requests : Succeeded(k) /\ SameExpiry(k)
    PROVE  \E b \in [Hashes -> Expiries \cup Limits \cup {0}] : \A n \in Nodes : box[n] = b
<1>1. PICK K : K = Len(requests)
  OBVIOUS
<1>2. PICK b \in [Hashes -> Expiries \cup Limits \cup {0}] :
          \A n \in Nodes : box[n] = IF <<K, n>> \in effected
                                    THEN Effect(b, Carried(K, n)) ELSE b
  BY <1>1 DEF AgreementInv, Agree
<1>3. CASE \A n \in Nodes : <<K, n>> \notin effected
  BY <1>2, <1>3
<1>4. CASE K \in Requests /\ \A n \in Nodes : <<K, n>> \in effected
  <2>1. PICK m : m \in Nodes
    BY SwarmAssumption
  <2>2. \A n \in Nodes : granted[<<K, n>>] = granted[<<K, m>>]
    <3>1. \A n \in Nodes : {<<K, n>>, <<K, m>>} \subseteq effected
      BY <1>4, <2>1
    <3>2. QED
      BY <1>4, <2>1, <3>1 DEF SameExpiry
  <2>3. \A n \in Nodes : Carried(K, n) = Carried(K, m)
    BY <2>2 DEF Carried
  <2>4. requests[K].op \in Operation /\ granted[<<K, m>>] \in Expiries \cup Limits
    <3>1. requests[K].op \in Operation
      BY <1>4, RequestIndices, SwarmAssumption DEF AgreementInv, CountdownInv
    <3>2. granted[<<K, m>>] \in Expiries \cup Limits
      BY <1>4, <2>1 DEF AgreementInv, DataTypeOK
    <3>3. QED
      BY <3>1, <3>2
  <2>5. Carried(K, m) \in GrantedOperation
    BY <2>4, GrantedType DEF Carried
  <2>6. Effect(b, Carried(K, m)) \in [Hashes -> Expiries \cup Limits \cup {0}]
    BY <2>5, EffectType
  <2>7. \A n \in Nodes : box[n] = Effect(b, Carried(K, m))
    BY <1>2, <1>4, <2>3
  <2>8. QED
    BY <2>6, <2>7
<1>5. CASE K \notin Requests
  <2>1. \A n \in Nodes : <<K, n>> \notin effected
    BY <1>5 DEF AgreementInv, DataTypeOK
  <2>2. QED
    BY <1>3, <2>1
<1>6. CASE K \in Requests /\ Refused(K)
  <2>1. \A n \in Nodes : <<K, n>> \notin effected
    BY <1>6 DEF AgreementInv, OncePerNode
  <2>2. QED
    BY <1>3, <2>1
<1>7. CASE K \in Requests /\ ~Refused(K)
  <2>1. \A n \in Nodes : <<K, n>> \in effected
    BY <1>7 DEF Succeeded, AgreementInv, SuccessIsTrue
  <2>2. QED
    BY <1>4, <1>7, <2>1
<1>8. QED
  BY <1>5, <1>6, <1>7

\* A new request finds the databases in agreement if all before it have succeeded, and has not
\* been carried out anywhere.
LEMMA NewRequestAgrees ==
    ASSUME AgreementInv, NEW op \in Operations, NEW n \in Nodes,
           RefuseRequest(op, n) \/ SetupRecursiveRequest(op, n)
    PROVE  OncePerNode' /\ OneAtATime' /\ Agree'
<1>1. PICK K : K = Len(requests)
  OBVIOUS
<1>2. /\ ControlTypeOK /\ Requests = 1 .. K /\ K \in Nat
      /\ requests \in Seq([op : Operations, entry : Nodes])
      /\ entries \in Seq([Nodes -> {"none", "ok", "failed"}]) /\ Len(entries) = K
  BY <1>1, RequestIndices DEF AgreementInv, CountdownInv, ControlTypeOK
<1>3. /\ \A j \in Requests : \E r \in replies : r.request = j
      /\ requests' = Append(requests, [op |-> op, entry |-> n])
      /\ entries' = Append(entries, [m \in Nodes |-> "none"])
      /\ box' = box /\ effected' = effected /\ granted' = granted
      /\ own' \subseteq own \cup {K + 1}
      /\ replies \subseteq replies'
  BY <1>1 DEF RefuseRequest, SetupRecursiveRequest, ClientReady
<1>4. /\ Len(requests') = K + 1 /\ requests'[K + 1] = [op |-> op, entry |-> n]
      /\ \A j \in Requests : requests'[j] = requests[j]
      /\ requests' \in Seq([op : Operations, entry : Nodes])
  BY <1>1, <1>2, <1>3, AppendProperties, SMT
<1>5. Requests' = 1 .. K + 1
  BY <1>4, LenProperties DEF Requests
<1>6. /\ entries'[K + 1] = [m \in Nodes |-> "none"]
      /\ \A j \in Requests : entries'[j] = entries[j]
  BY <1>2, <1>3, AppendProperties, SMT
<1>7. K + 1 \notin Requests
  BY <1>2, SMT
<1>8. \A j \in Requests : (Refused(j)' <=> Refused(j)) /\ (Thrown(j)' <=> Thrown(j))
  <2>1. CASE SetupRecursiveRequest(op, n)
    BY <2>1 DEF SetupRecursiveRequest, Refused, Thrown
  <2>2. CASE RefuseRequest(op, n)
    <3>1. PICK new : new = [request |-> K + 1, status |-> "REFUSED", by |-> n]
      OBVIOUS
    <3>2. replies' = replies \cup {new} /\ new.request = K + 1
      BY <1>1, <2>2, <3>1 DEF RefuseRequest
    <3>3. QED
      BY <1>7, <3>2 DEF Refused, Thrown
  <2>3. QED
    BY <2>1, <2>2
<1>9. \A m \in Nodes : <<K + 1, m>> \notin effected
  BY <1>7 DEF AgreementInv, DataTypeOK
<1>10. SetupRecursiveRequest(op, n) => ~Refused(K + 1)'
  <2>1. SUFFICES ASSUME SetupRecursiveRequest(op, n)
                 PROVE  ~Refused(K + 1)'
    OBVIOUS
  <2>2. replies' = replies /\ \A r \in replies : r.request \in Requests
    BY <1>2, <2>1 DEF SetupRecursiveRequest, ControlTypeOK
  <2>3. QED
    BY <1>7, <2>2 DEF Refused
<1>11. ~Thrown(K + 1)'
  <2>1. \A r \in replies : r.request # K + 1
    BY <1>2, <1>7 DEF ControlTypeOK
  <2>2. PICK new : new = [request |-> K + 1, status |-> "REFUSED", by |-> n]
    OBVIOUS
  <2>3. replies' = replies \/ replies' = replies \cup {new}
    BY <1>1, <2>2 DEF RefuseRequest, SetupRecursiveRequest
  <2>4. new.status # "INTERNAL_SERVER_ERROR"
    BY <2>2
  <2>5. QED
    BY <2>1, <2>3, <2>4 DEF Thrown
<1>12. OncePerNode'
  <2>1. ASSUME NEW k \in own'
        PROVE  /\ <<k, requests'[k].entry>> \notin effected'
               /\ entries'[k][requests'[k].entry] # "ok"
    <3>1. CASE k \in own
      <4>1. k \in Requests
        BY <1>2, <3>1 DEF ControlTypeOK
      <4>2. QED
        BY <1>3, <1>4, <1>6, <3>1, <4>1 DEF AgreementInv, OncePerNode
    <3>2. CASE k = K + 1
      <4>1. requests'[k].entry = n
        BY <1>4, <3>2, SMT
      <4>2. entries'[k][n] = "none"
        BY <1>6, <3>2
      <4>3. QED
        BY <1>3, <1>9, <3>2, <4>1, <4>2
    <3>3. QED
      BY <1>3, <2>1, <3>1, <3>2
  <2>2. ASSUME NEW msg \in net', msg.type = "storage_cc"
        PROVE  /\ <<msg.request, msg.peer>> \notin effected'
               /\ msg.peer # requests'[msg.request].entry
               /\ ~Refused(msg.request)'
    <3>1. CASE msg \in net
      <4>1. msg.request \in Requests
        BY <3>1, MessageTypes DEF AgreementInv
      <4>2. QED
        BY <1>3, <1>4, <1>8, <2>2, <3>1, <4>1 DEF AgreementInv, OncePerNode
    <3>2. CASE msg \notin net
      <4>1. SetupRecursiveRequest(op, n)
        BY <3>2 DEF RefuseRequest
      <4>2. PICK p \in Nodes \ {n} : msg = [type |-> "storage_cc", request |-> K + 1, peer |-> p]
        BY <1>1, <3>2, <4>1 DEF SetupRecursiveRequest
      <4>3. msg.request = K + 1 /\ msg.peer \in Nodes /\ msg.peer # n
        BY <4>2
      <4>4. requests'[K + 1].entry = n
        BY <1>4, SMT
      <4>5. QED
        BY <1>3, <1>9, <1>10, <4>1, <4>3, <4>4
    <3>3. QED
      BY <3>1, <3>2
  <2>3. ASSUME NEW k \in Requests', NEW m \in Nodes
        PROVE  /\ <<k, m>> \in effected' => ~Refused(k)'
               /\ <<k, m>> \in waiting' => m # requests'[k].entry
    <3>1. CASE k \in Requests
      <4>1. <<k, m>> \in waiting' => <<k, m>> \in waiting
        BY <1>1, <1>7, <3>1, SMT DEF RefuseRequest, SetupRecursiveRequest
      <4>2. QED
        BY <1>3, <1>4, <1>8, <3>1, <4>1 DEF AgreementInv, OncePerNode
    <3>2. CASE k = K + 1
      <4>1. <<k, m>> \notin waiting
        BY <1>2, <1>7, <3>2 DEF ControlTypeOK
      <4>2. <<k, m>> \in waiting' => m # n
        BY <4>1, SMT DEF RefuseRequest, SetupRecursiveRequest
      <4>3. QED
        BY <1>3, <1>4, <1>9, <3>2, <4>2, SMT
    <3>3. QED
      BY <1>2, <1>5, <3>1, <3>2, SMT
  <2>4. ASSUME NEW k \in Requests', Thrown(k)'
        PROVE  entries'[k][requests'[k].entry] # "ok"
    <3>1. k \in Requests
      BY <1>2, <1>5, <1>11, <2>4, SMT
    <3>2. QED
      BY <1>4, <1>6, <1>8, <2>4, <3>1 DEF AgreementInv, OncePerNode
  <2>5. QED
    BY <2>1, <2>2, <2>3, <2>4 DEF OncePerNode
<1>13. OneAtATime'
  BY <1>2, <1>3, <1>4, <1>5, SMT DEF OneAtATime
<1>14. Agree'
  <2>1. SUFFICES ASSUME \A k \in Requests : Succeeded(k)' /\ SameExpiry(k)'
                 PROVE  \E b \in [Hashes -> Expiries \cup Limits \cup {0}] :
                            \A m \in Nodes : box[m] = b
    <3>1. \A k \in Requests' : k < K + 1 <=> k \in Requests
      BY <1>2, <1>5, SMT
    <3>2. \A m \in Nodes : <<Len(requests'), m>> \notin effected'
      BY <1>3, <1>4, <1>9
    <3>3. Requests \subseteq Requests'
      BY <1>2, <1>5, SMT
    <3>4. QED
      BY <1>3, <1>4, <3>1, <3>2, <3>3, SMTT(60) DEF Agree
  <2>2. \A k \in Requests : Succeeded(k)
    BY <1>6, <1>8, <2>1, SMT DEF Succeeded
  <2>3. \A k \in Requests : SameExpiry(k)
    BY <1>3, <2>1 DEF SameExpiry
  <2>4. QED
    BY <2>2, <2>3, SucceededAgree
<1>15. QED
  BY <1>12, <1>13, <1>14

\* What a node carries out is new in the history, and nothing else is.
LEMMA CarryOutHistory ==
    ASSUME NEW k, NEW n, CarryOut(k, n)
    PROVE  effected \subseteq effected' /\ effected' \subseteq effected \cup {<<k, n>>}
BY DEF CarryOut

\* Replies are only ever added, so the client keeps waiting for what it waits for.
LEMMA RepliesStay ==
    ASSUME OneAtATime, requests' = requests, replies \subseteq replies'
    PROVE  OneAtATime'
BY DEF OneAtATime, Requests

\* The own part.
LEMMA OwnPartOnce ==
    ASSUME AgreementInv, NEW k \in Requests,
           OwnPart(k) \/ OwnStoreFails(k)
    PROVE  OncePerNode' /\ OneAtATime' /\ OnePartDone
<1>1. PICK n : n = requests[k].entry
  OBVIOUS
<1>2. /\ ControlTypeOK /\ CountdownInv /\ DataTypeOK /\ OncePerNode /\ OneAtATime
      /\ n \in Nodes /\ k \in own
  BY <1>1, RequestIndices DEF AgreementInv, CountdownInv, OwnPart, OwnStoreFails
<1>3. PICK e \in {"ok", "failed"} : Finish(k, n, e)
  BY <1>1 DEF OwnPart, OwnStoreFails
<1>4. /\ requests' = requests /\ waiting' = waiting /\ net' = net /\ own' = own \ {k}
      /\ CarryOut(k, n) \/ UNCHANGED <<box, effected, granted>>
  BY <1>1 DEF OwnPart, OwnStoreFails
<1>5. pending[k] >= 1
  BY <1>2, PartIsPending
<1>6. /\ \A j \in Requests, m \in Nodes :
             entries'[j][m] = IF j = k /\ m = n THEN e ELSE entries[j][m]
      /\ \A j : (Thrown(j)' <=> Thrown(j)) /\ (Refused(j)' <=> Refused(j))
      /\ Requests' = Requests /\ replies \subseteq replies'
  BY <1>2, <1>3, <1>4, <1>5, FinishValues, SMT
<1>7. effected' \subseteq effected \cup {<<k, n>>}
  BY <1>4, CarryOutHistory
<1>8. ~Refused(k) /\ ~Thrown(k) /\ <<k, n>> \notin effected
  <2>1. ~Refused(k)
    BY <1>2, <1>5, SMT DEF CountdownInv, RepliesInOrder, Refused
  <2>2. QED
    BY <1>1, <1>2, <2>1 DEF CountdownInv, RepliesInOrder, OncePerNode
<1>9. OncePerNode'
  <2>1. ASSUME NEW j \in own'
        PROVE  /\ <<j, requests'[j].entry>> \notin effected'
               /\ entries'[j][requests'[j].entry] # "ok"
    <3>1. j \in own /\ j # k /\ j \in Requests /\ requests[j].entry \in Nodes
      BY <1>2, <1>4, <2>1, RequestIndices DEF ControlTypeOK
    <3>2. QED
      BY <1>2, <1>4, <1>6, <1>7, <3>1, SMT DEF OncePerNode
  <2>2. ASSUME NEW msg \in net', msg.type = "storage_cc"
        PROVE  /\ <<msg.request, msg.peer>> \notin effected'
               /\ msg.peer # requests'[msg.request].entry
               /\ ~Refused(msg.request)'
    BY <1>1, <1>2, <1>4, <1>6, <1>7, <2>2, SMT DEF OncePerNode
  <2>3. ASSUME NEW j \in Requests', NEW m \in Nodes
        PROVE  /\ <<j, m>> \in effected' => ~Refused(j)'
               /\ <<j, m>> \in waiting' => m # requests'[j].entry
    BY <1>2, <1>4, <1>6, <1>7, <1>8, <2>3 DEF OncePerNode
  <2>4. ASSUME NEW j \in Requests', Thrown(j)'
        PROVE  entries'[j][requests'[j].entry] # "ok"
    <3>1. j # k /\ j \in Requests /\ requests[j].entry \in Nodes
      BY <1>2, <1>6, <1>8, <2>4, RequestIndices
    <3>2. QED
      BY <1>2, <1>4, <1>6, <2>4, <3>1, SMT DEF OncePerNode
  <2>5. QED
    BY <2>1, <2>2, <2>3, <2>4 DEF OncePerNode
<1>10. OneAtATime'
  BY <1>2, <1>4, <1>6, RepliesStay
<1>11. \A j \in Requests : j < Len(requests) /\ Succeeded(j)' => Succeeded(j)
  BY <1>1, <1>2, <1>3, <1>4, FinishSucceeds
<1>12. OnePartDone
  BY <1>2, <1>4, <1>8, <1>11 DEF OnePartDone
<1>13. QED
  BY <1>9, <1>10, <1>12

\* The own part of an endpoint that lets an exception through.
LEMMA ThrowsOnce ==
    ASSUME AgreementInv, NEW k \in Requests, OwnPartThrows(k)
    PROVE  OncePerNode' /\ OneAtATime' /\ OnePartDone
<1>1. PICK n, new : /\ n = requests[k].entry
                    /\ new = [request |-> k, status |-> "INTERNAL_SERVER_ERROR", by |-> n]
  OBVIOUS
<1>2. /\ ControlTypeOK /\ CountdownInv /\ DataTypeOK /\ OncePerNode /\ OneAtATime
      /\ n \in Nodes /\ k \in own
  BY <1>1, RequestIndices DEF AgreementInv, CountdownInv, OwnPartThrows
<1>3. /\ requests' = requests /\ waiting' = waiting /\ net' = net /\ own' = own \ {k}
      /\ entries' = entries /\ replies' = replies \cup {new}
      /\ CarryOut(k, n) \/ UNCHANGED <<box, effected, granted>>
  BY <1>1 DEF OwnPartThrows, Abandon
<1>4. new.request = k /\ new.status = "INTERNAL_SERVER_ERROR" /\ new.status # "REFUSED"
  BY <1>1
<1>5. /\ \A j : Refused(j)' <=> Refused(j)
      /\ \A j : Thrown(j)' => Thrown(j) \/ j = k
      /\ Requests' = Requests
  BY <1>3, <1>4 DEF Refused, Thrown, Requests
<1>6. effected' \subseteq effected \cup {<<k, n>>}
  BY <1>3, CarryOutHistory
<1>7. pending[k] >= 1
  BY <1>2, PartIsPending
<1>8. ~Refused(k) /\ <<k, n>> \notin effected /\ entries[k][n] # "ok"
  <2>1. ~Refused(k)
    BY <1>2, <1>7, SMT DEF CountdownInv, RepliesInOrder, Refused
  <2>2. QED
    BY <1>1, <1>2, <2>1 DEF OncePerNode
<1>9. OncePerNode'
  <2>1. ASSUME NEW j \in own'
        PROVE  /\ <<j, requests'[j].entry>> \notin effected'
               /\ entries'[j][requests'[j].entry] # "ok"
    <3>1. j \in own /\ j # k
      BY <1>3, <2>1
    <3>2. QED
      BY <1>2, <1>3, <1>6, <3>1 DEF OncePerNode
  <2>2. ASSUME NEW msg \in net', msg.type = "storage_cc"
        PROVE  /\ <<msg.request, msg.peer>> \notin effected'
               /\ msg.peer # requests'[msg.request].entry
               /\ ~Refused(msg.request)'
    BY <1>1, <1>2, <1>3, <1>5, <1>6, <2>2 DEF OncePerNode
  <2>3. ASSUME NEW j \in Requests', NEW m \in Nodes
        PROVE  /\ <<j, m>> \in effected' => ~Refused(j)'
               /\ <<j, m>> \in waiting' => m # requests'[j].entry
    BY <1>2, <1>3, <1>5, <1>6, <1>8, <2>3 DEF OncePerNode
  <2>4. ASSUME NEW j \in Requests', Thrown(j)'
        PROVE  entries'[j][requests'[j].entry] # "ok"
    BY <1>1, <1>2, <1>3, <1>5, <1>8, <2>4 DEF OncePerNode
  <2>5. QED
    BY <2>1, <2>2, <2>3, <2>4 DEF OncePerNode
<1>10. OneAtATime'
  BY <1>2, <1>3, RepliesStay
<1>11. \A j \in Requests : Succeeded(j)' => Succeeded(j)
  BY <1>3, <1>5 DEF Succeeded
<1>12. OnePartDone
  BY <1>2, <1>3, <1>8, <1>11 DEF OnePartDone
<1>13. QED
  BY <1>9, <1>10, <1>12

\* A peer that handles a forwarded copy.
LEMMA HandleForwardedOnce ==
    ASSUME AgreementInv, NEW msg \in net, HandleForwarded(msg)
    PROVE  OncePerNode' /\ OneAtATime' /\ OnePartDone
<1>1. PICK k, p : k = msg.request /\ p = msg.peer
  OBVIOUS
<1>2. /\ ControlTypeOK /\ DataTypeOK /\ OncePerNode /\ OneAtATime
      /\ k \in Requests /\ p \in Nodes /\ msg.type = "storage_cc"
  BY <1>1, MessageTypes DEF AgreementInv, CountdownInv, HandleForwarded
<1>3. /\ requests' = requests /\ own' = own /\ waiting' = waiting
      /\ entries' = entries /\ replies' = replies
      /\ CarryOut(k, p) \/ UNCHANGED <<box, effected, granted>>
  BY <1>1 DEF HandleForwarded
<1>4. PICK a : a.type = "answer" /\ net' = (net \ {msg}) \cup {a}
  <2>1. PICK parts \in {1, 2}, failed \in BOOLEAN :
            net' = (net \ {msg}) \cup {Answer(k, p, parts, failed)}
    BY <1>1 DEF HandleForwarded
  <2>2. Answer(k, p, parts, failed).type = "answer"
    BY DEF Answer
  <2>3. QED
    BY <2>1, <2>2
<1>5. /\ \A j : Refused(j)' <=> Refused(j)
      /\ \A j : Thrown(j)' <=> Thrown(j)
      /\ Requests' = Requests
  BY <1>3 DEF Refused, Thrown, Requests
<1>6. effected' \subseteq effected \cup {<<k, p>>}
  BY <1>3, CarryOutHistory
<1>7. ~Refused(k) /\ <<k, p>> \notin effected /\ p # requests[k].entry
  BY <1>1, <1>2 DEF OncePerNode
<1>8. OncePerNode'
  <2>1. ASSUME NEW j \in own'
        PROVE  /\ <<j, requests'[j].entry>> \notin effected'
               /\ entries'[j][requests'[j].entry] # "ok"
    BY <1>2, <1>3, <1>6, <1>7, <2>1 DEF OncePerNode
  <2>2. ASSUME NEW m \in net', m.type = "storage_cc"
        PROVE  /\ <<m.request, m.peer>> \notin effected'
               /\ m.peer # requests'[m.request].entry
               /\ ~Refused(m.request)'
    <3>1. m \in net /\ m # msg
      BY <1>4, <2>2
    <3>2. <<m.request, m.peer>> # <<k, p>>
      BY <1>1, <1>2, <2>2, <3>1, CopyIsUnique
    <3>3. QED
      BY <1>2, <1>3, <1>5, <1>6, <2>2, <3>1, <3>2, SMT DEF OncePerNode
  <2>3. ASSUME NEW j \in Requests', NEW m \in Nodes
        PROVE  /\ <<j, m>> \in effected' => ~Refused(j)'
               /\ <<j, m>> \in waiting' => m # requests'[j].entry
    BY <1>2, <1>3, <1>5, <1>6, <1>7, <2>3, SMT DEF OncePerNode
  <2>4. ASSUME NEW j \in Requests', Thrown(j)'
        PROVE  entries'[j][requests'[j].entry] # "ok"
    BY <1>2, <1>3, <1>5, <2>4 DEF OncePerNode
  <2>5. QED
    BY <2>1, <2>2, <2>3, <2>4 DEF OncePerNode
<1>9. OneAtATime'
  BY <1>2, <1>3, RepliesStay
<1>10. \A j \in Requests : Succeeded(j)' => Succeeded(j)
  BY <1>3, <1>5 DEF Succeeded
<1>11. OnePartDone
  BY <1>2, <1>3, <1>7, <1>10 DEF OnePartDone
<1>12. QED
  BY <1>8, <1>9, <1>11

\* A peer's callback, with the answer or with a timeout.
LEMMA CallbackOnce ==
    ASSUME AgreementInv, NEW k \in Requests, NEW p \in Nodes, NEW e \in {"ok", "failed"},
           <<k, p>> \in waiting, waiting' = waiting \ {<<k, p>>}, Finish(k, p, e),
           net' \subseteq net, UNCHANGED <<requests, own, box, effected, granted>>
    PROVE  OncePerNode' /\ OneAtATime' /\ OnePartDone
<1>1. ControlTypeOK /\ CountdownInv /\ OncePerNode /\ OneAtATime
  BY DEF AgreementInv, CountdownInv
<1>2. pending[k] >= 1
  BY <1>1, PartIsPending
<1>3. /\ \A j \in Requests, m \in Nodes :
             entries'[j][m] = IF j = k /\ m = p THEN e ELSE entries[j][m]
      /\ \A j : (Thrown(j)' <=> Thrown(j)) /\ (Refused(j)' <=> Refused(j))
      /\ Requests' = Requests /\ replies \subseteq replies'
  BY <1>1, <1>2, FinishValues, SMT
<1>4. p # requests[k].entry
  BY <1>1 DEF OncePerNode
<1>5. \A j \in Requests : requests[j].entry \in Nodes
  BY <1>1, RequestIndices
<1>6. \A j \in Requests : entries'[j][requests[j].entry] = entries[j][requests[j].entry]
  BY <1>3, <1>4, <1>5, SMT
<1>7. OncePerNode'
  <2>1. ASSUME NEW j \in own'
        PROVE  /\ <<j, requests'[j].entry>> \notin effected'
               /\ entries'[j][requests'[j].entry] # "ok"
    BY <1>1, <1>6, <2>1 DEF OncePerNode, ControlTypeOK
  <2>2. ASSUME NEW msg \in net', msg.type = "storage_cc"
        PROVE  /\ <<msg.request, msg.peer>> \notin effected'
               /\ msg.peer # requests'[msg.request].entry
               /\ ~Refused(msg.request)'
    BY <1>1, <1>3, <2>2 DEF OncePerNode
  <2>3. ASSUME NEW j \in Requests', NEW m \in Nodes
        PROVE  /\ <<j, m>> \in effected' => ~Refused(j)'
               /\ <<j, m>> \in waiting' => m # requests'[j].entry
    BY <1>1, <1>3, <2>3 DEF OncePerNode
  <2>4. ASSUME NEW j \in Requests', Thrown(j)'
        PROVE  entries'[j][requests'[j].entry] # "ok"
    BY <1>1, <1>3, <1>6, <2>4 DEF OncePerNode
  <2>5. QED
    BY <2>1, <2>2, <2>3, <2>4 DEF OncePerNode
<1>8. OneAtATime'
  BY <1>1, <1>3, RepliesStay
<1>9. \A j \in Requests : j < Len(requests) /\ Succeeded(j)' => Succeeded(j)
  BY <1>1, FinishSucceeds
<1>10. OnePartDone
  BY <1>9 DEF OnePartDone
<1>11. QED
  BY <1>7, <1>8, <1>10

\* An answer that comes after the timeout, and a step of something else.
LEMMA NothingDone ==
    ASSUME AgreementInv, net' \subseteq net,
           UNCHANGED <<requests, own, waiting, pending, entries, replies, box, effected, granted>>
    PROVE  OncePerNode' /\ OneAtATime' /\ OnePartDone
<1>1. /\ \A j : (Thrown(j)' <=> Thrown(j)) /\ (Refused(j)' <=> Refused(j))
      /\ Requests' = Requests
  BY DEF Thrown, Refused, Requests
<1>2. OncePerNode'
  BY <1>1 DEF AgreementInv, OncePerNode
<1>3. OneAtATime'
  BY RepliesStay DEF AgreementInv
<1>4. \A j \in Requests : Succeeded(j)' => Succeeded(j)
  BY <1>1 DEF Succeeded
<1>5. QED
  BY <1>2, <1>3, <1>4 DEF OnePartDone

\* Every step keeps the databases of nodes that have carried out the same requests the same.
LEMMA AgreementPreserved ==
    ASSUME FullNodes = {}, AgreementInv, [Next]_vars
    PROVE  AgreementInv'
<1>1. CountdownInv' /\ DataTypeOK' /\ SuccessIsTrue' /\ AnswersAreTrue'
  BY CountdownPreserved, DataTypePreserved, SuccessPreserved DEF AgreementInv
<1>2. ASSUME OncePerNode' /\ OneAtATime' /\ OnePartDone
      PROVE  AgreementInv'
  BY <1>1, <1>2, OnePartAgrees DEF AgreementInv
<1>3. ASSUME NEW op \in Operations, NEW n \in Nodes,
             RefuseRequest(op, n) \/ SetupRecursiveRequest(op, n)
      PROVE  AgreementInv'
  BY <1>1, <1>3, NewRequestAgrees DEF AgreementInv
<1>4. ASSUME NEW k \in Requests, OwnPart(k) \/ OwnStoreFails(k) \/ OwnPartThrows(k)
      PROVE  AgreementInv'
  BY <1>2, <1>4, OwnPartOnce, ThrowsOnce
<1>5. ASSUME NEW msg \in net, HandleForwarded(msg)
      PROVE  AgreementInv'
  BY <1>2, <1>5, HandleForwardedOnce
<1>6. ASSUME NEW msg \in net, PeerAnswers(msg)
      PROVE  AgreementInv'
  <2>1. PICK k, p, e : k = msg.request /\ p = msg.peer /\ e = EntryOf(msg)
    OBVIOUS
  <2>2. k \in Requests /\ p \in Nodes /\ e \in {"ok", "failed"}
    BY <2>1, MessageTypes DEF AgreementInv, EntryOf
  <2>3. CASE <<k, p>> \in waiting
    <3>1. /\ waiting' = waiting \ {<<k, p>>} /\ Finish(k, p, e) /\ net' \subseteq net
          /\ UNCHANGED <<requests, own, box, effected, granted>>
      BY <1>6, <2>1, <2>3 DEF PeerAnswers
    <3>2. QED
      BY <1>2, <2>2, <2>3, <3>1, CallbackOnce
  <2>4. CASE <<k, p>> \notin waiting
    <3>1. /\ net' \subseteq net
          /\ UNCHANGED <<requests, own, waiting, pending, entries, replies, box, effected, granted>>
      BY <1>6, <2>1, <2>4 DEF PeerAnswers
    <3>2. QED
      BY <1>2, <3>1, NothingDone
  <2>5. QED
    BY <2>3, <2>4
<1>7. ASSUME NEW k \in Requests, NEW p \in Nodes, PeerTimesOut(k, p)
      PROVE  AgreementInv'
  <2>1. /\ <<k, p>> \in waiting /\ waiting' = waiting \ {<<k, p>>} /\ Finish(k, p, "failed")
        /\ net' \subseteq net /\ UNCHANGED <<requests, own, box, effected, granted>>
    BY <1>7 DEF PeerTimesOut
  <2>2. QED
    BY <1>2, <2>1, CallbackOnce
<1>8. CASE UNCHANGED vars
  BY <1>2, <1>8, NothingDone DEF vars
<1>9. QED
  BY <1>3, <1>4, <1>5, <1>6, <1>7, <1>8 DEF Next

\* Nothing is stored and nothing asked for at first.
LEMMA AgreementInit == Init => AgreementInv
<1>1. SUFFICES ASSUME Init
               PROVE  AgreementInv
  OBVIOUS
<1>2. CountdownInv /\ DataTypeOK
  BY <1>1, CountdownInit
<1>3. Requests = {} /\ own = {} /\ net = {} /\ effected = {}
  BY <1>1, SMT DEF Init, Requests
<1>4. SuccessIsTrue /\ AnswersAreTrue /\ OncePerNode /\ OneAtATime
  BY <1>3 DEF SuccessIsTrue, AnswersAreTrue, OncePerNode, OneAtATime
<1>5. Agree
  <2>1. PICK b : b = [h \in Hashes |-> 0]
    OBVIOUS
  <2>2. b \in [Hashes -> Expiries \cup Limits \cup {0}] /\ \A n \in Nodes : box[n] = b
    BY <1>1, <2>1 DEF Init
  <2>3. QED
    BY <1>3, <2>2 DEF Agree
<1>6. QED
  BY <1>2, <1>4, <1>5 DEF AgreementInv

\* At most one request divides the swarm: as long as all before it have succeeded with one
\* expiry, the databases differ only in whether it has reached them, and in the expiry the
\* node's limit made of it (distribute_command, the callbacks and expire's clamp).
THEOREM AgreementInvariant ==
    ASSUME FullNodes = {}
    PROVE  Spec => []AgreementInv
<1>1. AgreementInv /\ [Next]_vars => AgreementInv'
  BY AgreementPreserved
<1>2. QED
  BY <1>1, AgreementInit, PTL DEF Spec

\* A client that has seen each of its requests refused or succeed everywhere, with one expiry,
\* finds the same messages on all members of the swarm, for any swarm, any limits of the nodes
\* and any number of requests.
THEOREM SwarmAgrees ==
    ASSUME FullNodes = {}
    PROVE  Spec => []AgreementAfterSuccess
<1>1. AgreementInv => AgreementAfterSuccess
  <2>1. SUFFICES ASSUME AgreementInv, \A k \in Requests : Succeeded(k) /\ SameExpiry(k)
                 PROVE  \A m, n \in Nodes : box[m] = box[n]
    BY DEF AgreementAfterSuccess
  <2>2. QED
    BY <2>1, SucceededAgree
<1>2. QED
  BY <1>1, AgreementInvariant, PTL
=============================================================================
