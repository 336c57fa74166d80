-------------------------------- MODULE Https --------------------------------
(***************************************************************************)
(* The HTTPS server (oxenss/server/https.cpp) in the life of the daemon    *)
(* (oxenss/daemon/oxen-storage.cpp).  A request passes between threads:    *)
(* the event loop of uWebSockets accepts it and reads its body, an OxenMQ  *)
(* worker runs it, a callback on any thread has the answer, and the event  *)
(* loop, where only the response object may be touched, writes it.  The    *)
(* connection may go away at any point.                                    *)
(*                                                                         *)
(* A request stands for its call_data and the connection that it came on.  *)
(* Clients also come over OxenMQ, and share the rate limiter.              *)
(***************************************************************************)
EXTENDS RateLimiter, Onion

CONSTANTS
    Requests,       \* the HTTP requests
    ClientOf,       \* the address of a request, or IPV6
    IPV6,
    MaxQueued       \* max queued requests of the "https" category

ASSUME HttpsAssumption ==
    /\ Onions \subseteq Requests
    /\ ClientOf \in [Requests -> Clients \cup {IPV6}] /\ IPV6 \notin Clients
    /\ MaxQueued \in Nat

VARIABLES
    main,           \* where main() is
    signalled,      \* whether a signal has arrived
    shutting_down,  \* ServiceNode::shutting_down_
    closing,        \* HTTPS::closing_, with the listening sockets closed
    conn,           \* the connection of a request
    job,            \* the task of a request in OxenMQ
    replied,        \* call_data::replied
    aborted,        \* call_data::aborted
    deferred,       \* whether the event loop has still to run the reply
    ends            \* history: how often the response has been ended

httpVars == <<conn, job, replied, aborted, deferred, ends>>
mainVars == <<main, signalled, shutting_down, closing>>
vars == <<limiterVars, onionVars, httpVars, mainVars>>

Init ==
    /\ RateLimiterInit /\ OnionInit
    /\ main = "keys" /\ signalled = FALSE /\ shutting_down = FALSE /\ closing = FALSE
    /\ conn = [r \in Requests |-> "none"]
    /\ job = [r \in Requests |-> "none"]
    /\ replied = [r \in Requests |-> FALSE]
    /\ aborted = [r \in Requests |-> FALSE]
    /\ deferred = [r \in Requests |-> FALSE]
    /\ ends = [r \in Requests |-> 0]

-----------------------------------------------------------------------------
(***************************************************************************)
(* main().                                                                 *)
(***************************************************************************)
Signal ==
    /\ ~signalled /\ main # "exited"
    /\ signalled' = TRUE
    /\ UNCHANGED <<limiterVars, onionVars, httpVars, main, shutting_down, closing>>

\* get_sn_privkeys looks for a signal between its tries.
GetKeys ==
    /\ main = "keys"
    /\ main' = IF signalled THEN "exited" ELSE "init"
    /\ UNCHANGED <<limiterVars, onionVars, httpVars, signalled, shutting_down, closing>>

\* OMQ::init connects to oxend, waits for its first answer and then listens.
InitOmq ==
    /\ main = "init"
    /\ main' \in {"start", "exited"}          \* it throws when it cannot bind
    /\ UNCHANGED <<limiterVars, onionVars, httpVars, signalled, shutting_down, closing>>

\* HTTPS::start returns when the event loop has bound the sockets, or throws what it threw: the
\* destructors end the event loop.
Start ==
    /\ main = "start"
    /\ main' \in {"serving", "exited"}
    /\ UNCHANGED <<limiterVars, onionVars, httpVars, signalled, shutting_down, closing>>

\* service_node.shutdown(); HTTPS::shutdown defers the closing of the sockets.
Stop ==
    /\ main = "serving" /\ signalled
    /\ main' = "joining"
    /\ shutting_down' = TRUE
    /\ UNCHANGED <<limiterVars, onionVars, httpVars, signalled, closing>>

CloseSockets ==
    /\ main = "joining" /\ ~closing
    /\ closing' = TRUE
    /\ UNCHANGED <<limiterVars, onionVars, httpVars, main, signalled, shutting_down>>

Open == {"reading", "waiting", "idle"}

\* The event loop ends with its last connection; then OxenMQ is stopped.
Join ==
    /\ main = "joining" /\ closing
    /\ \A r \in Requests : conn[r] \notin Open /\ ~deferred[r]
    /\ main' = "exited"
    /\ UNCHANGED <<limiterVars, onionVars, httpVars, signalled, shutting_down, closing>>

Running == main \in {"serving", "joining"}

-----------------------------------------------------------------------------
(***************************************************************************)
(* The event loop.                                                         *)
(***************************************************************************)
\* The connection after a response: kept alive unless the server is closing.
AfterEnd == IF closing THEN "closed" ELSE "idle"

\* A request comes on a connection of its own, or on one that another request has left open.
ConnectsTo(r, state) ==
    /\ Running /\ conn[r] = "none"
    /\ \/ /\ ~closing
          /\ conn' = [conn EXCEPT ![r] = state]
       \/ \E kept \in Requests :
             /\ conn[kept] = "idle" /\ ClientOf[kept] = ClientOf[r]
             /\ conn' = [conn EXCEPT ![kept] = "closed", ![r] = state]

RespondAtOnce(r) ==
    /\ ConnectsTo(r, AfterEnd)
    /\ ends' = [ends EXCEPT ![r] = @ + 1]
    /\ UNCHANGED <<job, replied, aborted, deferred>>

\* omq.inject_task drops the task when the queue is full.
InjectTask ==
    IF Cardinality({r \in Requests : job[r] = "queued"}) < MaxQueued THEN "queued" ELSE "dropped"

\* handle_request
HandleRequest(r) ==
    /\ ConnectsTo(r, "reading")
    /\ UNCHANGED <<job, replied, aborted, deferred, ends>>

\* handle_request with a Content-Length that is no number or too large answers and closes the
\* connection, and still sets its handlers: the task may start if the body came along.
HandleBadLength(r) ==
    /\ ConnectsTo(r, "closed")
    /\ ends' = [ends EXCEPT ![r] = @ + 1]
    /\ aborted' = [aborted EXCEPT ![r] = TRUE]
    /\ job' \in {job, [job EXCEPT ![r] = InjectTask]}
    /\ UNCHANGED <<replied, deferred>>

\* /ping_test/v1, /get_stats/v1, 404 for what is not there, and 503 from check_ready in the
\* other two endpoints of create_endpoints.
RespondWithoutTask(r) ==
    /\ RespondAtOnce(r)
    /\ UNCHANGED <<limiterVars, onionVars, mainVars>>

ProcessStorageRpcReq(r) ==
    /\ r \notin Onions /\ ~shutting_down
    /\ IF ClientOf[r] = IPV6 THEN RespondAtOnce(r) /\ UNCHANGED limiterVars
       ELSE /\ CountRequest(ClientOf[r])
            /\ IF ShouldRateLimitClient(ClientOf[r]) THEN RespondAtOnce(r)
               ELSE \/ RespondAtOnce(r)         \* the obsolete x-loki-long-poll
                    \/ HandleRequest(r)
                    \/ HandleBadLength(r)
    /\ UNCHANGED <<onionVars, mainVars>>

ProcessOnionReqV2(r) ==
    /\ r \in Onions /\ ~shutting_down
    /\ HandleRequest(r) \/ HandleBadLength(r)
    /\ UNCHANGED <<limiterVars, onionVars, mainVars>>

\* The last of the body: ready().
BodyArrives(r) ==
    /\ conn[r] = "reading"
    /\ conn' = [conn EXCEPT ![r] = "waiting"]
    /\ job' = [job EXCEPT ![r] = InjectTask]
    /\ UNCHANGED <<limiterVars, onionVars, mainVars, replied, aborted, deferred, ends>>

\* onAborted: the client goes away.
Abort(r) ==
    /\ conn[r] \in {"reading", "waiting"}
    /\ conn' = [conn EXCEPT ![r] = "closed"]
    /\ aborted' = [aborted EXCEPT ![r] = TRUE]
    /\ UNCHANGED <<limiterVars, onionVars, mainVars, job, replied, deferred, ends>>

\* uWebSockets gives up on a body that does not come, and on a connection that is idle; it
\* does not on one that waits for our response.
IdleTimeout(r) ==
    /\ conn[r] \in {"reading", "idle"}
    /\ conn' = [conn EXCEPT ![r] = "closed"]
    /\ aborted' = [aborted EXCEPT ![r] = @ \/ conn[r] = "reading"]
    /\ UNCHANGED <<limiterVars, onionVars, mainVars, job, replied, deferred, ends>>

\* Mutant of RunDeferred: the response is written even if the request was aborted.
RunDeferredAlways(r) ==
    /\ deferred[r]
    /\ deferred' = [deferred EXCEPT ![r] = FALSE]
    /\ conn' = [conn EXCEPT ![r] = AfterEnd]
    /\ ends' = [ends EXCEPT ![r] = @ + 1]
    /\ UNCHANGED <<limiterVars, onionVars, mainVars, job, replied, aborted>>

\* The lambda of queue_response, and queue_response_internal.
RunDeferred(r) ==
    /\ deferred[r]
    /\ deferred' = [deferred EXCEPT ![r] = FALSE]
    /\ IF aborted[r] THEN UNCHANGED <<conn, ends>>
       ELSE /\ conn' = [conn EXCEPT ![r] = AfterEnd]
            /\ ends' = [ends EXCEPT ![r] = @ + 1]
    /\ UNCHANGED <<limiterVars, onionVars, mainVars, job, replied, aborted>>

-----------------------------------------------------------------------------
(***************************************************************************)
(* The worker threads of OxenMQ, and the threads that call back.           *)
(***************************************************************************)
\* Mutant of QueueResponse: it does nothing any more once the node shuts down.
QueueResponseRunning(r) ==
    IF replied[r] \/ shutting_down THEN UNCHANGED <<replied, deferred>>
    ELSE /\ replied' = [replied EXCEPT ![r] = TRUE]
         /\ deferred' = [deferred EXCEPT ![r] = TRUE]

\* queue_response
QueueResponse(r) ==
    IF replied[r] THEN UNCHANGED <<replied, deferred>>
    ELSE /\ replied' = [replied EXCEPT ![r] = TRUE]
         /\ deferred' = [deferred EXCEPT ![r] = TRUE]

Finishes(r) == job' = [job EXCEPT ![r] = "done"]

\* Mutant of RunTask: an exception is only logged.
RunTaskLogs(r) ==
    /\ main # "exited" /\ job[r] = "queued" /\ r \notin Onions
    /\ \/ Finishes(r) /\ UNCHANGED <<replied, deferred>>
       \/ Finishes(r) /\ QueueResponse(r)
       \/ job' = [job EXCEPT ![r] = "pending"] /\ UNCHANGED <<replied, deferred>>
    /\ UNCHANGED <<limiterVars, onionVars, mainVars, conn, aborted, ends>>

\* The task of process_storage_rpc_req: process_client_req calls back now or later, or throws.
RunTask(r) ==
    /\ main # "exited" /\ job[r] = "queued" /\ r \notin Onions
    /\ IF replied[r] \/ aborted[r] THEN Finishes(r) /\ UNCHANGED <<replied, deferred>>
       ELSE \/ Finishes(r) /\ QueueResponse(r)
            \/ job' = [job EXCEPT ![r] = "pending"] /\ UNCHANGED <<replied, deferred>>
    /\ UNCHANGED <<limiterVars, onionVars, mainVars, conn, aborted, ends>>

\* The task of process_onion_req_v2: what cannot be parsed is 400.
RunOnionTask(r) ==
    /\ main # "exited" /\ job[r] = "queued" /\ r \in Onions
    /\ IF replied[r] \/ aborted[r] THEN Finishes(r) /\ UNCHANGED <<onionVars, replied, deferred>>
       ELSE \/ Finishes(r) /\ QueueResponse(r) /\ UNCHANGED onionVars
            \/ /\ job' = [job EXCEPT ![r] = "pending"]
               /\ \E hop_no \in FirstHops : StartOnion(r, hop_no)
               /\ UNCHANGED <<replied, deferred>>
    /\ UNCHANGED <<limiterVars, mainVars, conn, aborted, ends>>

\* process_client_req or process_onion_req calls back, once (what a batch may do is left to
\* Subrequests).
Callback(r) ==
    /\ main # "exited" /\ job[r] = "pending"
    /\ IF r \in Onions THEN OnionAnswered(r) /\ EndOnion(r) ELSE UNCHANGED onionVars
    /\ Finishes(r) /\ QueueResponse(r)
    /\ UNCHANGED <<limiterVars, mainVars, conn, aborted, ends>>

\* A subrequest of a sequence that is not its first throws on the thread that had the answer to
\* the one before: nobody is left to call back, and nothing answers for the request.
LoseCallback(r) ==
    /\ main # "exited" /\ job[r] = "pending" /\ r \notin Onions
    /\ job' = [job EXCEPT ![r] = "lost"]
    /\ UNCHANGED <<limiterVars, onionVars, mainVars, conn, replied, aborted, deferred, ends>>

OnionRequest(r) ==
    /\ job[r] = "pending" /\ OnionStep(r)
    /\ UNCHANGED <<limiterVars, mainVars, httpVars>>

\* handle_client_request of omq.cpp looks at the same limiter.
OmqClientRequest(ip) ==
    /\ Running /\ CountRequest(ip)
    /\ UNCHANGED <<onionVars, mainVars, httpVars>>

LimiterTimer ==
    /\ main # "exited"
    /\ CleanTimer \/ TimePasses
    /\ UNCHANGED <<onionVars, mainVars, httpVars>>

RequestStep(r) ==
    \/ RespondWithoutTask(r) \/ ProcessStorageRpcReq(r) \/ ProcessOnionReqV2(r)
    \/ BodyArrives(r) \/ Abort(r) \/ IdleTimeout(r) \/ RunDeferred(r) \/ RunTask(r)
    \/ RunOnionTask(r) \/ Callback(r) \/ LoseCallback(r)

Next ==
    \/ Signal \/ GetKeys \/ InitOmq \/ Start \/ Stop \/ CloseSockets \/ Join
    \/ \E r \in Requests : RequestStep(r)
    \/ \E r \in Onions : OnionRequest(r)
    \/ \E ip \in Clients : OmqClientRequest(ip)
    \/ LimiterTimer

\* oxend answers and main() goes on, the event loop and the workers run what is queued, requests
\* are called back unless they are lost, and uWebSockets times connections out.
Fairness ==
    /\ WF_vars(GetKeys) /\ WF_vars(InitOmq) /\ WF_vars(Start) /\ WF_vars(Stop)
    /\ WF_vars(CloseSockets) /\ WF_vars(Join)
    /\ \A r \in Requests :
          /\ WF_vars(IdleTimeout(r)) /\ WF_vars(RunDeferred(r))
          /\ WF_vars(RunTask(r)) /\ WF_vars(RunOnionTask(r)) /\ WF_vars(Callback(r))
    /\ \A r \in Onions : WF_vars(OnionRequest(r))

Spec == Init /\ [][Next]_vars /\ Fairness

-----------------------------------------------------------------------------
TypeOK ==
    /\ RateLimiterTypeOK /\ OnionTypeOK
    /\ main \in {"keys", "init", "start", "serving", "joining", "exited"}
    /\ {signalled, shutting_down, closing} \subseteq BOOLEAN
    /\ conn \in [Requests -> Open \cup {"none", "closed"}]
    /\ job \in [Requests -> {"none", "queued", "dropped", "pending", "lost", "done"}]
    /\ {replied, aborted, deferred} \subseteq [Requests -> BOOLEAN]
    /\ ends \in [Requests -> 0 .. 2]

\* The flags of call_data agree with where the request is: a task or a reply of a request that
\* was not aborted has a connection that waits for it, and a task that is over is not run again.
RepliesInv ==
    \A r \in Requests :
        /\ conn[r] \in {"none", "reading"} =>
              (job[r] = "none" /\ ~aborted[r] /\ ~replied[r] /\ ends[r] = 0)
        /\ (job[r] \in {"queued", "pending"} /\ ~aborted[r]) => (conn[r] = "waiting" /\ ends[r] = 0)
        /\ deferred[r] => replied[r]
        /\ replied[r] => job[r] = "done"
        /\ (deferred[r] /\ ~aborted[r]) => (conn[r] = "waiting" /\ ends[r] = 0)

\* A response is written once, and only on a connection that is open: whatever order the
\* callback, the event loop and the client's going away come in, the lambda of queue_response
\* never touches a response object that is ended or gone.
EndedOnce ==
    [][\A r \in Requests :
          ends'[r] # ends[r] => (ends[r] = 0 /\ conn[r] \in {"none", "waiting"})]_vars

\* Nothing will call back for r: OxenMQ had no room for its task, or it is a sequence that was
\* lost, at this node or inside an onion request that has this node as its destination.
NeverCalledBack(r) ==
    \/ job[r] \in {"dropped", "lost"}
    \/ r \in Onions /\ job[r] = "pending" /\ last[r] = "lost" /\ Len(path[r]) = 1

\* A request that was read whole is answered or its client goes away, unless OxenMQ had no room
\* for it or it is a sequence that was lost; an onion request that is lost at another node is
\* answered, too.  A node that is being shut down finishes the requests it has taken.
Answered ==
    \A r \in Requests :
        (conn[r] = "waiting") ~> (conn[r] \in {"idle", "closed"} \/ NeverCalledBack(r))

\* After a signal the daemon exits, at whatever point of its life it comes, unless a client
\* waits for the answer of a request that was dropped or lost.  It is not looked for while
\* OMQ::init waits for oxend: there oxend's answer comes first.
SignalEndsDaemon ==
    signalled ~> (main = "exited" \/ \E r \in Requests : NeverCalledBack(r) /\ conn[r] = "waiting")
=============================================================================
