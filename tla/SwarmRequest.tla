---------------------------- MODULE SwarmRequest ----------------------------
(***************************************************************************)
(* Recursive client requests (oxenss/rpc/request_handler.cpp): the node    *)
(* that receives one forwards it to its swarm peers (distribute_command),  *)
(* does its own part, collects one entry per swarm member and replies when *)
(* the last part is in.  A client issues requests one after another        *)
(* through any node; forwarded copies and answers travel over a network    *)
(* that may delay or lose them: nothing obliges a message in net to arrive.*)
(*                                                                         *)
(* The handlers of the seven recursive endpoints share this control and    *)
(* differ in what they do to the node's database.  A database is           *)
(* abstracted to the expiry of each message (0: not stored); messages are  *)
(* numbered in the order of their timestamps.                              *)
(*                                                                         *)
(* The handler holds the response's mutex from the moment its forwards are *)
(* out until it is done, and so does each peer callback, so own part and   *)
(* callbacks are atomic with respect to each other.                        *)
(***************************************************************************)
EXTENDS Integers, Sequences, FiniteSets

CONSTANTS
    Nodes,         \* the members of the swarm
    Hashes,        \* message numbers, in timestamp order
    Expiries,      \* expiry times (positive)
    Limits,        \* what now() + max_ttl may be at a node
    Operations,    \* the requests the client may make
    FullNodes,     \* nodes whose database has reached its size limit
    MaxRequests    \* how many requests the client makes

Operation ==
    [endpoint : {"store", "delete_all", "delete_msgs", "delete_before", "expire_all",
                 "expire_msgs", "extend_msgs", "shorten_msgs"},
     hash : Hashes, expiry : Expiries]

ASSUME SwarmAssumption == /\ IsFiniteSet(Nodes) /\ Nodes # {}
                          /\ Hashes \subseteq Nat \ {0}
                          /\ Expiries \subseteq Nat \ {0} /\ Limits \subseteq Nat \ {0}
                          /\ Operations \subseteq Operation
                          /\ FullNodes \subseteq Nodes
                          /\ MaxRequests \in Nat

VARIABLES
    requests,   \* the requests made: <<[op, entry], ...>>
    own,        \* requests whose entry node still has its own part to do
    waiting,    \* <<k, n>>: request k's callback for peer n has not run yet
    pending,    \* swarm_response::pending of each request
    entries,    \* result["swarm"] of each request, one entry per node
    replies,    \* [request, status, by] of each invocation of a request's callback
    net,        \* forwarded requests and answers on their way
    box,        \* each node's database
    effected,   \* history: <<k, n>>: node n carried out request k
    granted     \* the "expiry" node n reports of a request it carried out

vars == <<requests, own, waiting, pending, entries, replies, net, box, effected, granted>>

Requests == DOMAIN requests

-----------------------------------------------------------------------------
(***************************************************************************)
(* What each endpoint does to a database.                                  *)
(***************************************************************************)

\* store: a message already there stays as it is.
StoreEffect(b, op) ==
    IF b[op.hash] = 0 THEN [b EXCEPT ![op.hash] = op.expiry] ELSE b

DeleteAllEffect(b, op) == [h \in Hashes |-> 0]

DeleteMsgsEffect(b, op) == [b EXCEPT ![op.hash] = 0]

DeleteBeforeEffect(b, op) == [h \in Hashes |-> IF h <= op.hash THEN 0 ELSE b[h]]

\* expire_all only ever shortens.
ExpireAllEffect(b, op) == [h \in Hashes |-> IF b[h] > op.expiry THEN op.expiry ELSE b[h]]

\* The expiry that expire goes by and reports: no later than the node's own clock and
\* hardfork allow.  The other endpoints take theirs as it is.
Granted(op, limit) ==
    IF op.endpoint \in {"expire_msgs", "extend_msgs", "shorten_msgs"} /\ limit < op.expiry
    THEN limit ELSE op.expiry

\* expire without, with `extend` and with `shorten`, to an expiry that was granted.
ExpireMsgsEffect(b, op) ==
    IF b[op.hash] = 0 THEN b ELSE [b EXCEPT ![op.hash] = op.expiry]

ExtendMsgsEffect(b, op) ==
    IF b[op.hash] \in 1 .. op.expiry THEN [b EXCEPT ![op.hash] = op.expiry] ELSE b

ShortenMsgsEffect(b, op) ==
    IF b[op.hash] > op.expiry THEN [b EXCEPT ![op.hash] = op.expiry] ELSE b

Effect(b, op) ==
    CASE op.endpoint = "store" -> StoreEffect(b, op)
      [] op.endpoint = "delete_all" -> DeleteAllEffect(b, op)
      [] op.endpoint = "delete_msgs" -> DeleteMsgsEffect(b, op)
      [] op.endpoint = "delete_before" -> DeleteBeforeEffect(b, op)
      [] op.endpoint = "expire_all" -> ExpireAllEffect(b, op)
      [] op.endpoint = "expire_msgs" -> ExpireMsgsEffect(b, op)
      [] op.endpoint = "extend_msgs" -> ExtendMsgsEffect(b, op)
      [] op.endpoint = "shorten_msgs" -> ShortenMsgsEffect(b, op)

\* process_store answers true when the database is full: the message is reported as
\* already there, and is not.
CarriesOut(n, op) ==
    ~(op.endpoint = "store" /\ n \in FullNodes /\ box[n][op.hash] = 0)

-----------------------------------------------------------------------------
Init ==
    /\ requests = <<>>
    /\ own = {}
    /\ waiting = {}
    /\ pending = <<>>
    /\ entries = <<>>
    /\ replies = {}
    /\ net = {}
    /\ box = [n \in Nodes |-> [h \in Hashes |-> 0]]
    /\ effected = {}
    /\ granted = <<>>

\* Mutant of InitialPending: the entry node's own part is not counted.
PeersOnlyPending(peers) == Cardinality(peers)

\* swarm_response::pending: one for the entry node's own part, and the peers.
InitialPending(peers) == 1 + Cardinality(peers)

\* The client makes its next request when the previous one has been replied to.
ClientReady ==
    /\ Len(requests) < MaxRequests
    /\ \A j \in Requests : \E r \in replies : r.request = j

\* A request fails one of the entry node's checks (an account of another swarm, the
\* TTL, a timestamp, the signature): an error goes back before anything else happens.
RefuseRequest(op, n) ==
    /\ ClientReady
    /\ requests' = Append(requests, [op |-> op, entry |-> n])
    /\ pending' = Append(pending, 0)
    /\ entries' = Append(entries, [m \in Nodes |-> "none"])
    /\ replies' = replies \cup
           {[request |-> Len(requests) + 1, status |-> "REFUSED", by |-> n]}
    /\ UNCHANGED <<own, waiting, net, box, effected, granted>>

\* A request passes the entry node's checks, and setup_recursive_request sends it to
\* the peers.
SetupRecursiveRequest(op, n) ==
    LET k == Len(requests) + 1
        peers == Nodes \ {n}
    IN  /\ ClientReady
        /\ requests' = Append(requests, [op |-> op, entry |-> n])
        /\ own' = own \cup {k}
        /\ pending' = Append(pending, InitialPending(peers))
        /\ entries' = Append(entries, [m \in Nodes |-> "none"])
        /\ waiting' = waiting \cup {<<k, p>> : p \in peers}
        /\ net' = net \cup {[type |-> "storage_cc", request |-> k, peer |-> p] : p \in peers}
        /\ UNCHANGED <<replies, box, effected, granted>>

\* How many members called "failed" the value of a top-level key of the result has:
\* the members of "swarm" are pubkeys, and the other values are numbers.
CountFailed(key) == IF key = "swarm" THEN Cardinality(Nodes \cap {"failed"}) ELSE 0

\* reply_or_fail looks for a top-level key whose value does not contain "failed".
ReplyStatus ==
    IF \E key \in {"swarm", "t", "hf"} : CountFailed(key) = 0
    THEN "OK" ELSE "INTERNAL_SERVER_ERROR"

\* The end of the own part and of every callback: set the node's entry, count down,
\* and reply when nothing is pending.
Finish(k, n, entry) ==
    /\ entries' = [entries EXCEPT ![k][n] = entry]
    /\ pending' = [pending EXCEPT ![k] = @ - 1]
    /\ replies' = IF pending[k] - 1 = 0
                  THEN replies \cup {[request |-> k, status |-> ReplyStatus, by |-> n]}
                  ELSE replies

\* Mutant of CarryOut: the expiry reported is the one asked for.
CarryOutUnreported(k, n) ==
    LET op == requests[k].op
    IN  \E limit \in Limits :
            IF CarriesOut(n, op)
            THEN /\ box' = [box EXCEPT
                               ![n] = Effect(@, [op EXCEPT !.expiry = Granted(op, limit)])]
                 /\ effected' = effected \cup {<<k, n>>}
                 /\ granted' = [x \in effected \cup {<<k, n>>} |-> requests[x[1]].op.expiry]
            ELSE UNCHANGED <<box, effected, granted>>

\* Node n does what request k asks for.
CarryOut(k, n) ==
    LET op == requests[k].op
    IN  \E limit \in Limits :
            LET expiry == Granted(op, limit)
            IN  IF CarriesOut(n, op)
                THEN /\ box' = [box EXCEPT ![n] = Effect(@, [op EXCEPT !.expiry = expiry])]
                     /\ effected' = effected \cup {<<k, n>>}
                     /\ granted' = [x \in effected \cup {<<k, n>>} |->
                                      IF x = <<k, n>> THEN expiry ELSE granted[x]]
                ELSE UNCHANGED <<box, effected, granted>>

OwnPart(k) ==
    /\ k \in own
    /\ own' = own \ {k}
    /\ CarryOut(k, requests[k].entry)
    /\ Finish(k, requests[k].entry, "ok")
    /\ UNCHANGED <<requests, waiting, net>>

\* store catches a failing query and reports it in its entry.
OwnStoreFails(k) ==
    /\ k \in own
    /\ requests[k].op.endpoint = "store"
    /\ own' = own \ {k}
    /\ Finish(k, requests[k].entry, "failed")
    /\ UNCHANGED <<requests, waiting, net, box, effected, granted>>

\* Mutant of Abandon: the part is counted down although it failed.
AbandonAndCount(k) ==
    /\ pending' = [pending EXCEPT ![k] = @ - 1]
    /\ UNCHANGED entries

\* The exception leaves the handler before the countdown.
Abandon(k) == UNCHANGED <<pending, entries>>

\* Every other endpoint lets the exception of a failing query through to the caller
\* of the handler, which replies with an error at once.  delete_before throws after
\* it has deleted when it is asked for all namespaces; the others before.
OwnPartThrows(k) ==
    LET n == requests[k].entry
    IN  /\ k \in own
        /\ requests[k].op.endpoint # "store"
        /\ own' = own \ {k}
        /\ \/ UNCHANGED <<box, effected, granted>>
           \/ requests[k].op.endpoint = "delete_before" /\ CarryOut(k, n)
        /\ replies' = replies \cup
               {[request |-> k, status |-> "INTERNAL_SERVER_ERROR", by |-> n]}
        /\ Abandon(k)
        /\ UNCHANGED <<requests, waiting, net>>

-----------------------------------------------------------------------------
(***************************************************************************)
(* The peers.  A forwarded request is handled like any other, without      *)
(* forwarding it again, and answered with one message part on success, two *)
(* on an error.                                                            *)
(***************************************************************************)
Answer(k, p, parts, failed) ==
    [type |-> "answer", request |-> k, peer |-> p, parts |-> parts, failed |-> failed]

HandleForwarded(msg) ==
    LET k == msg.request
        p == msg.peer
    IN  /\ msg \in net /\ msg.type = "storage_cc"
        /\ UNCHANGED <<requests, own, waiting, pending, entries, replies>>
        /\ \/ /\ CarryOut(k, p)
              /\ net' = (net \ {msg}) \cup {Answer(k, p, 1, FALSE)}
           \* refused (another view of the swarm, a timestamp, a signature), or the
           \* query failed: an error code; store reports the latter in its body
           \/ /\ UNCHANGED <<box, effected, granted>>
              /\ net' = (net \ {msg}) \cup {Answer(k, p, 2, TRUE)}
           \/ /\ requests[k].op.endpoint = "store"
              /\ UNCHANGED <<box, effected, granted>>
              /\ net' = (net \ {msg}) \cup {Answer(k, p, 1, TRUE)}
           \/ /\ requests[k].op.endpoint = "delete_before"
              /\ CarryOut(k, p)
              /\ net' = (net \ {msg}) \cup {Answer(k, p, 2, TRUE)}

\* Mutant of EntryOf: any answer is a good result.
AnyAnswerIsGood(msg) == "ok"

\* The entry made from an answer: anything but a single part is a failure, and so is
\* a body that says so.
EntryOf(msg) == IF msg.parts = 1 /\ ~msg.failed THEN "ok" ELSE "failed"

\* The callback of an answer; OxenMQ drops answers that come after the timeout.
PeerAnswers(msg) ==
    /\ msg \in net /\ msg.type = "answer"
    /\ net' = net \ {msg}
    /\ IF <<msg.request, msg.peer>> \in waiting
       THEN /\ waiting' = waiting \ {<<msg.request, msg.peer>>}
            /\ Finish(msg.request, msg.peer, EntryOf(msg))
       ELSE UNCHANGED <<waiting, pending, entries, replies>>
    /\ UNCHANGED <<requests, own, box, effected, granted>>

\* Mutant of PeerTimesOut: the callback gives up without counting the peer.
PeerTimesOutUncounted(k, p) ==
    /\ <<k, p>> \in waiting
    /\ waiting' = waiting \ {<<k, p>>}
    /\ UNCHANGED <<requests, own, net, box, effected, granted, pending, entries, replies>>

\* The 5s request timeout runs out.
PeerTimesOut(k, p) ==
    /\ <<k, p>> \in waiting
    /\ waiting' = waiting \ {<<k, p>>}
    /\ Finish(k, p, "failed")
    /\ UNCHANGED <<requests, own, net, box, effected, granted>>

Next ==
    \/ \E op \in Operations, n \in Nodes :
           RefuseRequest(op, n) \/ SetupRecursiveRequest(op, n)
    \/ \E k \in Requests : OwnPart(k) \/ OwnStoreFails(k) \/ OwnPartThrows(k)
    \/ \E msg \in net : HandleForwarded(msg) \/ PeerAnswers(msg)
    \/ \E k \in Requests, p \in Nodes : PeerTimesOut(k, p)

\* The handler runs to its end once started, and OxenMQ invokes the callback of a
\* request, with the answer or with a timeout.
Fairness ==
    \A k \in 1 .. MaxRequests :
        /\ WF_vars(k \in Requests /\ (OwnPart(k) \/ OwnStoreFails(k) \/ OwnPartThrows(k)))
        /\ \A p \in Nodes : WF_vars(k \in Requests /\ PeerTimesOut(k, p))

Spec == Init /\ [][Next]_vars /\ Fairness

-----------------------------------------------------------------------------
\* The state of the entry nodes' handlers and callbacks.
ControlTypeOK ==
    /\ requests \in Seq([op : Operations, entry : Nodes])
    /\ own \subseteq Requests
    /\ waiting \subseteq Requests \X Nodes
    /\ pending \in Seq(Nat) /\ Len(pending) = Len(requests)
    /\ entries \in Seq([Nodes -> {"none", "ok", "failed"}])
    /\ Len(entries) = Len(requests)
    /\ replies \subseteq [request : Requests, by : Nodes,
                          status : {"OK", "INTERNAL_SERVER_ERROR", "REFUSED"}]

\* The messages under way and the databases.
DataTypeOK ==
    /\ net \subseteq [type : {"storage_cc"}, request : Requests, peer : Nodes]
                  \cup [type : {"answer"}, request : Requests, peer : Nodes,
                        parts : {1, 2}, failed : BOOLEAN]
    /\ box \in [Nodes -> [Hashes -> Expiries \cup Limits \cup {0}]]
    /\ effected \subseteq Requests \X Nodes
    /\ granted \in [effected -> Expiries \cup Limits]

TypeOK == ControlTypeOK /\ DataTypeOK

\* The callback of a request is invoked at most once: the error reply of a handler
\* that throws and the reply of the last peer callback exclude each other.
RepliesOnce ==
    \A r, s \in replies : r.request = s.request => r = s

\* A swarm reply is complete: it goes out after the own part and every peer's answer
\* or timeout, whichever of them is the last.
ReplyIsComplete ==
    \A r \in replies :
        r.status = "OK" =>
            /\ r.request \notin own
            /\ \A n \in Nodes : entries[r.request][n] # "none"

\* An entry without "failed" is true: the node it names has carried the request out.
SuccessIsTrue ==
    \A k \in Requests, n \in Nodes : entries[k][n] = "ok" => <<k, n>> \in effected

\* The same of an answer on its way to the entry node.
AnswersAreTrue ==
    \A msg \in net :
        (msg.type = "answer" /\ EntryOf(msg) = "ok") => <<msg.request, msg.peer>> \in effected

\* The peers whose callback for request k is still to run.
WaitingFor(k) == {p \in Nodes : <<k, p>> \in waiting}

\* The entry node's own part of request k ended with an exception.
Thrown(k) == \E r \in replies : r.request = k /\ r.status = "INTERNAL_SERVER_ERROR"

\* The entry node refused request k.
Refused(k) == \E r \in replies : r.request = k /\ r.status = "REFUSED"

\* What swarm_response::pending counts: the callbacks to come, and the own part, which
\* stays counted for good when it throws.
PendingCounts ==
    \A k \in Requests :
        pending[k] = Cardinality(WaitingFor(k))
                         + (IF k \in own \/ Thrown(k) THEN 1 ELSE 0)

\* An entry is missing only while its part is to come, when the own part threw, or when
\* the request was refused.
EntriesAwaited ==
    \A k \in Requests, n \in Nodes :
        entries[k][n] = "none" =>
            \/ <<k, n>> \in waiting
            \/ n = requests[k].entry /\ (k \in own \/ Thrown(k))
            \/ Refused(k)

\* A request with its own part to do has not been answered with an error, and one
\* that was answered otherwise waits for nothing.
RepliesInOrder ==
    /\ \A k \in own : ~Thrown(k)
    /\ \A r \in replies : r.status # "INTERNAL_SERVER_ERROR" => pending[r.request] = 0

\* The inductive invariant behind RepliesOnce and ReplyIsComplete: the countdown of
\* swarm_response::pending says which parts of a request are still to come.
CountdownInv ==
    ControlTypeOK /\ PendingCounts /\ EntriesAwaited /\ RepliesInOrder /\ RepliesOnce

\* The client has seen request k refused, or every entry of its reply succeed.
Succeeded(k) == Refused(k) \/ \A n \in Nodes : entries[k][n] = "ok"

\* The nodes that have carried out request k went by the same expiry, and report it.
SameExpiry(k) ==
    \A m, n \in Nodes :
        {<<k, m>>, <<k, n>>} \subseteq effected => granted[<<k, m>>] = granted[<<k, n>>]

\* A client that issues its requests one after another and has seen each of them refused
\* or every entry of its reply succeed, with the same "expiry" where they report one, finds
\* the same messages, with the same expiries, on all members of the swarm, whichever nodes it
\* used.  Without that, "expire" may leave each node at its own limit.
AgreementAfterSuccess ==
    (\A k \in Requests : (\E r \in replies : r.request = k) /\ Succeeded(k) /\ SameExpiry(k))
        => \A m, n \in Nodes : box[m] = box[n]

\* A node that is still to do its part of a request has not carried it out, the entry node is
\* not among the peers, no part of a refused request is ever done, and the own part has no
\* success to report before it is done or when it throws.
OncePerNode ==
    /\ \A k \in own : /\ <<k, requests[k].entry>> \notin effected
                       /\ entries[k][requests[k].entry] # "ok"
    /\ \A msg \in net : msg.type = "storage_cc" =>
           /\ <<msg.request, msg.peer>> \notin effected
           /\ msg.peer # requests[msg.request].entry
           /\ ~Refused(msg.request)
    /\ \A k \in Requests, n \in Nodes :
           /\ <<k, n>> \in effected => ~Refused(k)
           /\ <<k, n>> \in waiting => n # requests[k].entry
    /\ \A k \in Requests : Thrown(k) => entries[k][requests[k].entry] # "ok"

\* The client waits for the reply to a request before it makes the next.
OneAtATime == \A k \in Requests : k < Len(requests) => \E r \in replies : r.request = k

\* Request k as node n carried it out.
Carried(k, n) == [requests[k].op EXCEPT !.expiry = granted[<<k, n>>]]

\* As long as the requests before the last have succeeded with one expiry, the databases
\* differ only in whether the last has reached them and the expiry they went by.
Agree ==
    (\A k \in Requests : k < Len(requests) => Succeeded(k) /\ SameExpiry(k)) =>
        \E b \in [Hashes -> Expiries \cup Limits \cup {0}] :
            \A n \in Nodes :
                box[n] = IF <<Len(requests), n>> \in effected
                         THEN Effect(b, Carried(Len(requests), n)) ELSE b

\* The inductive invariant behind AgreementAfterSuccess, where no database is full.
AgreementInv ==
    /\ CountdownInv /\ DataTypeOK /\ SuccessIsTrue /\ AnswersAreTrue
    /\ OncePerNode /\ OneAtATime /\ Agree

\* Every request is answered, whatever the peers and the network do.
EventuallyReplied ==
    \A k \in 1 .. MaxRequests :
        k \in Requests ~> \E r \in replies : r.request = k
=============================================================================
