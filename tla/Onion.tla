-------------------------------- MODULE Onion --------------------------------
(***************************************************************************)
(* Onion requests (process_onion_req of request_handler.cpp, handle_onion_ *)
(* request of omq.cpp, send_onion_to_sn of service_node.cpp, onion_        *)
(* processing.cpp).  The edge node unwraps a layer of the request, which   *)
(* makes it the destination, a proxy for a server, or a relay to another   *)
(* node, which does the same.  A relay waits 30 seconds for its answer     *)
(* and then answers for itself; what comes later is ignored.               *)
(*                                                                         *)
(* An onion request is kept as the nodes that it has come to and that have *)
(* not answered yet, as their hop numbers from the edge node on, and what  *)
(* the last of them is doing.  What a layer says is up to the client that  *)
(* has wrapped it.                                                         *)
(***************************************************************************)
EXTENDS Integers, Sequences

CONSTANTS
    Onions,             \* the onion requests
    FirstHops,          \* the hop numbers that clients may give to the edge node
    MAX_ONION_HOPS,
    INT_MAX             \* the largest int

ASSUME OnionAssumption ==
    /\ INT_MAX \in Nat
    /\ FirstHops \subseteq -INT_MAX - 1 .. INT_MAX
    /\ MAX_ONION_HOPS \in Nat /\ MAX_ONION_HOPS < INT_MAX

VARIABLES
    path,       \* the hop numbers of the nodes that wait or work, from the edge node on
    last        \* what the last of them does, or the status that it has answered with

onionVars == <<path, last>>

Doing == {"none", "received", "destination", "proxy", "lost"}
Status == {"200", "400", "50x"}

OnionInit ==
    /\ path = [o \in Onions |-> <<>>]
    /\ last = [o \in Onions |-> "none"]

MaxWith(n, least) == IF n < least THEN least ELSE n

\* process_onion_req_v2: the edge node takes a hop number that may not be negative.
EdgeHopNo(given) == MaxWith(given, 0)

StartOnion(o, given) ==
    /\ path' = [path EXCEPT ![o] = <<EdgeHopNo(given)>>]
    /\ last' = [last EXCEPT ![o] = "received"]

Answer(o, status) ==
    /\ last' = [last EXCEPT ![o] = status]
    /\ UNCHANGED path

HopNo(o) == path[o][Len(path[o])]

\* handle_onion_request, on every node but the edge node.
TooManyHops(o) == Len(path[o]) > 1 /\ HopNo(o) > MAX_ONION_HOPS

Incremented(n) == IF n = INT_MAX THEN -INT_MAX - 1 ELSE n + 1

\* Mutant of SentHopNo: the number is used as it was sent.
SentHopNoUnclamped(o) == Incremented(HopNo(o))

\* send_onion_to_sn counts up, which wraps, and decode_onion_data reads at least 1.
SentHopNo(o) == MaxWith(Incremented(HopNo(o)), 1)

-----------------------------------------------------------------------------
(***************************************************************************)
(* A layer, by whether it decrypts and splits into a ciphertext and JSON   *)
(* of the right types, and the keys of that JSON.                          *)
(***************************************************************************)
Layers ==
    [decrypts : BOOLEAN, combined : BOOLEAN,
     keys : SUBSET {"headers", "host", "target", "destination", "ephemeral_key"}]

ParseCombinedPayload(layer) == layer.combined

ProcessInnerRequest(layer) ==
    IF ~ParseCombinedPayload(layer) THEN "INVALID_JSON"
    ELSE IF "headers" \in layer.keys THEN "FinalDestinationInfo"
    ELSE IF "host" \in layer.keys
         THEN IF "target" \in layer.keys THEN "RelayToServerInfo" ELSE "INVALID_JSON"
    ELSE IF {"destination", "ephemeral_key"} \subseteq layer.keys THEN "RelayToNodeInfo"
    ELSE "INVALID_JSON"

ProcessCiphertextV2(layer) ==
    IF layer.decrypts THEN ProcessInnerRequest(layer) ELSE "INVALID_CIPHERTEXT"

ParsedInfo == {ProcessCiphertextV2(layer) : layer \in Layers}

\* The status is told inside the response, for the client to decrypt.
WrapProxyResponse(o) == Answer(o, "200")

\* process_onion_req(FinalDestinationInfo&&, ...): not ready, or process_client_req is called.
AtDestination(o) == WrapProxyResponse(o) \/ Answer(o, "destination")

\* process_onion_req(RelayToServerInfo&&, ...): an invalid URL, or PostCallback is called.
AtProxy(o) == WrapProxyResponse(o) \/ Answer(o, "proxy")

\* process_onion_req(RelayToNodeInfo&&, ...): the next node is not known, or it is sent to.
AtRelay(o) ==
    \/ Answer(o, "50x")
    \/ path' = [path EXCEPT ![o] = Append(@, SentHopNo(o))] /\ UNCHANGED last

\* process_onion_req(ProcessCiphertextError&&, ...)
AtError(o, info) ==
    \/ info = "INVALID_CIPHERTEXT" /\ Answer(o, "400")
    \/ info = "INVALID_JSON" /\ WrapProxyResponse(o)

\* An exception: process_onion_req_v2 catches it, OxenMQ only logs it.
Throws(o) == Answer(o, IF Len(path[o]) = 1 THEN "400" ELSE "lost")

\* handle_onion_request and process_onion_req(std::string_view, ...)
ProcessOnionReq(o) ==
    /\ last[o] = "received"
    /\ IF TooManyHops(o) THEN Answer(o, "400")
       ELSE \/ Answer(o, "50x")         \* not ready
            \/ \E info \in ParsedInfo :
                  \/ info = "FinalDestinationInfo" /\ AtDestination(o)
                  \/ info = "RelayToServerInfo" /\ AtProxy(o)
                  \/ info = "RelayToNodeInfo" /\ AtRelay(o)
                  \/ AtError(o, info)
            \/ Throws(o)

\* process_client_req has called back: wrap_proxy_response; or it never will, because a later
\* subrequest of a sequence has thrown on the thread that ran it (lost in Subrequests).
DestinationAnswers(o) ==
    /\ last[o] = "destination"
    /\ WrapProxyResponse(o) \/ Answer(o, "lost")

\* The server answers, fails, or takes longer than ONION_URL_TIMEOUT.
ProxyAnswers(o) ==
    /\ last[o] = "proxy"
    /\ \E status \in {"200", "50x"} : Answer(o, status)

\* on_response at the node before, with a response it can read or not.
RelayAnswers(o) ==
    /\ last[o] \in Status /\ Len(path[o]) > 1
    /\ path' = [path EXCEPT ![o] = SubSeq(@, 1, Len(@) - 1)]
    /\ \/ UNCHANGED last
       \/ last' = [last EXCEPT ![o] = "50x"]

\* on_response at relay i, without a response; messages may be lost on the way.
RelayTimesOut(o, i) ==
    /\ i < Len(path[o])
    /\ path' = [path EXCEPT ![o] = SubSeq(@, 1, i)]
    /\ last' = [last EXCEPT ![o] = "50x"]

\* The edge node has an answer for its client.
OnionAnswered(o) == last[o] \in Status /\ Len(path[o]) = 1

EndOnion(o) ==
    /\ path' = [path EXCEPT ![o] = <<>>]
    /\ last' = [last EXCEPT ![o] = "none"]

OnionStep(o) ==
    \/ ProcessOnionReq(o) \/ DestinationAnswers(o) \/ ProxyAnswers(o) \/ RelayAnswers(o)
    \/ \E i \in DOMAIN path[o] : RelayTimesOut(o, i)

-----------------------------------------------------------------------------
OnionTypeOK ==
    /\ path \in [Onions -> Seq(Int)]
    /\ last \in [Onions -> Doing \cup Status]

\* Some node works on a request that is under way; from the second node on the hop numbers
\* count the nodes, and only the last may be refused.
HopsInv ==
    \A o \in Onions :
        /\ last[o] # "none" => path[o] # <<>>
        /\ \A i \in 2 .. Len(path[o]) :
              /\ path[o][i] >= i - 1
              /\ i < Len(path[o]) => path[o][i] <= MAX_ONION_HOPS

\* No onion request visits more nodes than MAX_ONION_HOPS allows, from wherever its client
\* has it start: the edge node, a node for each hop number up to the limit, and the one that
\* refuses.
HopsBounded == \A o \in Onions : Len(path[o]) <= MAX_ONION_HOPS + 2
=============================================================================
