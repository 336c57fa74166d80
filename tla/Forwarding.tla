------------------------------ MODULE Forwarding ------------------------------
(***************************************************************************)
(* A client's request at the node that it comes to and at a peer that it   *)
(* is forwarded to (register_client_rpc_endpoint and the process_client_   *)
(* req functions of oxenss/rpc/request_handler.cpp).  Either node loads    *)
(* the request and checks it, against its clock, its revoked subkeys and   *)
(* the signature, before it does anything.  What it does then is in        *)
(* Database and SwarmRequest.                                              *)
(*                                                                         *)
(* A signature is [by, over]: the key that made it and the text that was   *)
(* signed, a sequence of symbols: a digit or a sign each, a name, a hash   *)
(* or a subkey.  Time is in units of the 10 s that FORWARDED allows for.   *)
(* Each node goes by its own clock and by the last block it knows of.      *)
(***************************************************************************)
EXTENDS ClientRequests

CONSTANTS
    Requests,           \* [method, fmt, params], not yet signed
    NOW,                \* the entry node's clock when the request comes
    PeerTimes,          \* what a peer's clock may show when it comes there
    SIGNATURE_TOLERANCE, SIGNATURE_TOLERANCE_FORWARDED,
    STORE_TOLERANCE, TTL_MINIMUM, TTL_MAXIMUM, TTL_MAXIMUM_PRIVATE,
    UNSIGNED,           \* a signature that nobody made
    EdOf                \* the x25519 pubkey that an ed25519 pubkey converts to, if it does

ASSUME ForwardingAssumption ==
    /\ {NOW, SIGNATURE_TOLERANCE, SIGNATURE_TOLERANCE_FORWARDED, STORE_TOLERANCE,
        TTL_MINIMUM, TTL_MAXIMUM, TTL_MAXIMUM_PRIVATE, NAMESPACE_MAX} \subseteq Nat
    /\ PeerTimes \subseteq Int
    /\ SIGNATURE_TOLERANCE_FORWARDED >= SIGNATURE_TOLERANCE
    /\ TTL_MAXIMUM_PRIVATE >= TTL_MAXIMUM
    /\ NONE \notin {"200", "400", "401", "403", "406", "406 or 401", "421"}
    /\ \A x \in {NONE, WRONG} : x \notin Int /\ x \notin BOOLEAN

VARIABLES
    request,        \* what the client has sent
    hf,             \* which nodes are past the hardfork with longer TTLs and shorten/extend
    entry,          \* the request as the entry node has loaded it, PARSE_ERROR or NONE
    status,         \* what the entry node makes of it
    peer_now,       \* the peer's clock when the request has come there
    peer,           \* the request as the peer has loaded it
    peer_status,    \* what the peer makes of it
    revoked         \* the subkeys that are revoked at the entry node, and at the peer

vars == <<request, hf, entry, status, peer_now, peer, peer_status, revoked>>

-----------------------------------------------------------------------------
(***************************************************************************)
(* Signatures.                                                             *)
(***************************************************************************)
Digit == <<"0", "1", "2", "3", "4", "5", "6", "7", "8", "9">>

Decimal[n \in Nat] ==
    IF n < 10 THEN <<Digit[n + 1]>> ELSE Append(Decimal[n \div 10], Digit[(n % 10) + 1])

\* detail::to_hashable, of a number or a time.
ToHashable(n) ==
    IF n = UNSET THEN <<UNSET>> ELSE IF n < 0 THEN <<"-">> \o Decimal[-n] ELSE Decimal[n]

\* The default namespace is left out of what is signed.
SignatureValue(ns) ==
    IF ns = Default THEN <<>> ELSE IF ns = ALL THEN <<"all">> ELSE ToHashable(ns)

\* concatenate_sig_message_parts of the arguments of verify_signature: nothing separates them.
SignedData(method, r) ==
    <<method>> \o
    CASE method = "store" -> SignatureValue(r.msg_namespace) \o ToHashable(r.sig_ts)
      [] method = "retrieve" -> SignatureValue(r.msg_namespace) \o ToHashable(r.timestamp)
      [] method = "delete" -> r.messages
      [] method = "revoke_subkey" -> <<r.revoke_subkey>>
      [] method \in NamespaceActions -> SignatureValue(r.msg_namespace) \o ToHashable(r.time)
      [] method = "expire" -> (IF r.shorten THEN <<"shorten">> ELSE
                               IF r.extend THEN <<"extend">> ELSE <<>>)
                              \o ToHashable(r.expiry) \o r.messages
      [] method = "get_expiries" -> ToHashable(r.sig_ts) \o r.messages

UsesEd(r) == r.pubkey.type = 5 /\ Given(r.pubkey_ed25519)

VerifyKey(r) ==
    [pk |-> IF UsesEd(r) THEN r.pubkey_ed25519 ELSE r.pubkey.key, subkey |-> r.subkey]

\* Mutant of VerifySignature: the ed25519 pubkey may be anyone's.
VerifySignatureAnyKey(method, r, revoked_here) ==
    /\ r.subkey \notin revoked_here
    /\ r.signature = [by |-> VerifyKey(r), over |-> SignedData(method, r)]

\* verify_signature
VerifySignature(method, r, revoked_here) ==
    /\ UsesEd(r) => /\ r.pubkey_ed25519 \in DOMAIN EdOf
                    /\ EdOf[r.pubkey_ed25519] = r.pubkey.key
    /\ r.subkey \notin revoked_here
    /\ r.signature = [by |-> VerifyKey(r), over |-> SignedData(method, r)]

\* A client that signs what it asks for, with the key that it names.
SignedBy(q) ==
    LET r == Load(q.method, q.fmt, q.params)
    IN IF r = PARSE_ERROR \/ ~Given(q.params.signature) THEN q
       ELSE [q EXCEPT !.params.signature.v =
                [by |-> VerifyKey(r), over |-> SignedData(q.method, r)]]

TimeFields == {"timestamp", "sig_timestamp", "expiry", "ttl", "time"}
ByteFields == {"pubkey", "pubKey", "pubkey_ed25519", "signature", "subkey", "revoke_subkey", "data"}

\* The parameters have the fields that load looks for, a time that can be read is a number, a
\* flag a Boolean, and bytes, encoded or not, are not mistaken for an absent or a wrong value.
WellFormed(q) ==
    /\ q.method \in Recursive \cup {"retrieve", "get_expiries"}
    /\ DOMAIN q.params = FieldNames(q.method)
    /\ \A f \in DOMAIN q.params : q.params[f] \notin {NONE, WRONG} =>
          /\ f \in TimeFields => q.params[f] \in Int
          /\ f \in {"shorten", "extend"} => q.params[f] \in BOOLEAN
          /\ f \in ByteFields => /\ q.params[f].v # NONE /\ q.params[f] # TOO_LONG
                                 /\ \A x \in {q.params[f], q.params[f].v} :
                                       Raw(x) \notin {NONE, WRONG}

ASSUME RequestsAssumption == \A q \in Requests : WellFormed(q) /\ WellFormed(SignedBy(q))

-----------------------------------------------------------------------------
(***************************************************************************)
(* The checks of the process_client_req functions.                         *)
(***************************************************************************)
Within(time, now, tolerance) == now - tolerance <= time /\ time <= now + tolerance

\* 1min, which is what SIGNATURE_TOLERANCE is too.
ONE_MINUTE == SIGNATURE_TOLERANCE

IsPublicNamespace(ns) == ns % 10 = 0

CheckStore(r, now, past_hf, verifies) ==
    LET ttl == r.expiry - r.timestamp
        public == IsPublicNamespace(r.msg_namespace)
        max_ttl == IF ~public /\ past_hf THEN TTL_MAXIMUM_PRIVATE ELSE TTL_MAXIMUM
    IN IF ttl < TTL_MINIMUM \/ ttl > max_ttl THEN "403"
       ELSE IF r.timestamp > now + STORE_TOLERANCE \/ r.expiry < now - STORE_TOLERANCE THEN "406"
       ELSE IF public THEN "200"
       ELSE IF ~Given(r.signature) THEN "401"
       ELSE IF ~Within(r.sig_ts, now, SIGNATURE_TOLERANCE) THEN "406"
       ELSE IF verifies THEN "200" ELSE "401"

\* Whatever is read for a timestamp that is UNSET, it is out of time ("406") or no part of what
\* was signed ("401").
CheckRetrieve(r, now, verifies) ==
    IF ~r.check_signature THEN IF r.msg_namespace = LegacyClosed THEN "200" ELSE "401"
    ELSE IF r.timestamp = UNSET THEN "406 or 401"
    ELSE IF ~Within(r.timestamp, now, SIGNATURE_TOLERANCE) THEN "406"
    ELSE IF verifies THEN "200" ELSE "401"

CheckExpireMsgs(r, now, past_hf, verifies) ==
    IF r.expiry < now - ONE_MINUTE THEN "401"
    ELSE IF ~past_hf /\ (r.shorten \/ r.extend) THEN "400"
    ELSE IF r.shorten /\ Given(r.subkey) THEN "400"
    ELSE IF verifies THEN "200" ELSE "401"

\* Mutant of Tolerance: one tolerance for all.
ToleranceSame(recurse) == SIGNATURE_TOLERANCE

Tolerance(recurse) == IF recurse THEN SIGNATURE_TOLERANCE ELSE SIGNATURE_TOLERANCE_FORWARDED

TimeAllowed(method, r, now, recurse) ==
    CASE method = "delete_all" -> Within(r.time, now, Tolerance(recurse))
      [] method = "delete_before" -> r.time <= now + ONE_MINUTE
      [] method = "expire_all" -> r.time >= now - Tolerance(recurse)
      [] method = "get_expiries" -> Within(r.sig_ts, now, SIGNATURE_TOLERANCE)
      [] OTHER -> TRUE

\* The process_client_req functions, up to where they begin to act.
Check(method, r, now, past_hf, recurse, revoked_here) ==
    LET verifies == VerifySignature(method, r, revoked_here)
    IN IF method = "store" THEN CheckStore(r, now, past_hf, verifies)
       ELSE IF method = "retrieve" THEN CheckRetrieve(r, now, verifies)
       ELSE IF method = "expire" THEN CheckExpireMsgs(r, now, past_hf, verifies)
       ELSE IF ~TimeAllowed(method, r, now, recurse)
            THEN IF method = "delete_before" THEN "401" ELSE "406"
       ELSE IF verifies THEN "200" ELSE "401"

-----------------------------------------------------------------------------
Init ==
    /\ \E q \in Requests : request \in {q, SignedBy(q)}
    /\ hf \in [{"entry", "peer"} -> BOOLEAN]
    /\ entry = NONE /\ status = NONE
    /\ peer_now = NOW
    /\ peer = NONE /\ peer_status = NONE
    /\ revoked = [entry |-> {}, peer |-> {}]

\* The status of a request r that a node has loaded and that is_pubkey_for_us accepts or not.
Processed(r, for_us, now, past_hf, recurse, revoked_here) ==
    IF r = PARSE_ERROR THEN "400"
    ELSE IF ~for_us THEN "421"                                  \* handle_wrong_swarm
    ELSE Check(request.method, r, now, past_hf, recurse, revoked_here)

\* The request comes to the entry node: http_json, or omq with forwarded = false.
ProcessAtEntry ==
    /\ status = NONE
    /\ entry' = Load(request.method, request.fmt, request.params)
    /\ \E for_us \in BOOLEAN :
          status' = Processed(entry', for_us, NOW, hf.entry, TRUE, revoked.entry)
    /\ UNCHANGED <<request, hf, peer_now, peer, peer_status, revoked>>

Forwarded == status = "200" /\ request.method \in Recursive

\* revoke_subkey for a subkey that the request may be signed with, at either node.
SubkeyRevoked ==
    /\ peer_status = NONE
    /\ \E node \in {"entry", "peer"}, subkey \in {Bytes(request.params.subkey)} \ {NONE} :
          revoked' = [revoked EXCEPT ![node] = @ \cup {subkey}]
    /\ UNCHANGED <<request, hf, entry, status, peer_now, peer, peer_status>>

\* The request comes to the peer: sn.storage_cc, omq with forwarded = true.
ProcessAtPeer ==
    /\ Forwarded /\ peer_status = NONE
    /\ peer_now' \in PeerTimes
    /\ peer' = Load(request.method, "bt", ToBt(request.method, entry))
    /\ \E for_us \in BOOLEAN :
          peer_status' = Processed(peer', for_us, peer_now', hf.peer, FALSE, revoked.peer)
    /\ UNCHANGED <<request, hf, entry, status, revoked>>

Next ==
    \/ ProcessAtEntry \/ ProcessAtPeer
    \/ "subkey" \in DOMAIN request.params /\ SubkeyRevoked

Spec == Init /\ [][Next]_vars

-----------------------------------------------------------------------------
\* The account's key, and the ed25519 keys that convert to it.
OwnerKeys(r) == {r.pubkey.key} \cup {pk \in DOMAIN EdOf : EdOf[pk] = r.pubkey.key}

\* The owner of the account that r is for has signed what r reads as, with one of their keys or
\* a subkey of one, or r needs no signature: a store to a public namespace, or a retrieve from
\* the legacy closed group namespace.
Owned(r) ==
    \/ request.method = "store" /\ IsPublicNamespace(r.msg_namespace)
    \/ request.method = "retrieve" /\ r.msg_namespace = LegacyClosed
    \/ \E pk \in OwnerKeys(r) :
          r.signature = [by |-> [pk |-> pk, subkey |-> r.subkey],
                         over |-> SignedData(request.method, r)]

\* Whatever the method and the way in, no node, neither the one that the client talks to nor one
\* that takes the request from there, acts on a request unless the account's owner has signed
\* the text that the node concatenates from it, but for the two that need no signature.  It is
\* the text that is signed: with nothing between a namespace and a time, some requests share
\* one.  A signature that a store to a public namespace has is not looked at, although
\* client_rpc_endpoints.h:121 has one that does not match denied.
OnlyOwnersAct ==
    /\ status = "200" => Owned(entry)
    /\ peer_status = "200" => Owned(peer)

\* Whatever format and spelling a client has used, a peer reads from to_bt the request that the
\* entry node has accepted: the same in every field, but for `required` of delete_msgs, which
\* concerns only the entry node's answer, and the sig_timestamp of a store, which is not sent:
\* the peer takes the message's timestamp for it.
PeerReadsTheSame ==
    peer # NONE =>
        /\ peer # PARSE_ERROR
        /\ \A f \in DOMAIN entry \ {"required"} :
              peer[f] = IF request.method = "store" /\ f = "sig_ts" /\ Given(entry.sig_ts)
                        THEN entry.timestamp ELSE entry[f]

\* A private store with a signature that was made for another time than the message's.
SignedSeparately ==
    /\ request.method = "store" /\ ~IsPublicNamespace(entry.msg_namespace)
    /\ Given(entry.sig_ts) /\ entry.sig_ts # entry.timestamp

\* The peer's clock is off the entry node's, with the time that the forwarding has taken, by no
\* more than SIGNATURE_TOLERANCE_FORWARDED allows for.
ClocksAgree == Within(peer_now, NOW, SIGNATURE_TOLERANCE_FORWARDED - SIGNATURE_TOLERANCE)

\* The checks of store, expire and delete_before make no such allowance, although
\* request_handler.h:44 names the storing to a private namespace first among those that do: a
\* request in time at the entry node may be too late at the peer, or too early.
InTimeAtPeer ==
    CASE request.method = "store" ->
            /\ entry.timestamp <= peer_now + STORE_TOLERANCE
            /\ entry.expiry >= peer_now - STORE_TOLERANCE
            /\ ~IsPublicNamespace(entry.msg_namespace) =>
                  Within(entry.sig_ts, peer_now, SIGNATURE_TOLERANCE)
      [] request.method = "expire" -> entry.expiry >= peer_now - ONE_MINUTE
      [] request.method = "delete_before" -> entry.time <= peer_now + ONE_MINUTE
      [] OTHER -> TRUE

\* What a node that is not past the hardfork refuses.
NeedsHardfork ==
    CASE request.method = "store" -> entry.expiry - entry.timestamp > TTL_MAXIMUM
      [] request.method = "expire" -> entry.shorten \/ entry.extend
      [] OTHER -> FALSE

\* What the entry node has accepted, and acts on, the peer accepts when the clocks agree, with
\* these exceptions: the peer has left the swarm; it knows by then that the subkey is revoked;
\* it has not seen the hardfork that the request needs; a store, an expire or a delete_before is
\* no longer, or not yet, in time there; a store's signature was made for another time than its
\* message, which the peer does not get to know.
PeerAccepts ==
    (/\ peer_status \notin {NONE, "421"} /\ ClocksAgree
     /\ entry.subkey \notin revoked.peer
     /\ NeedsHardfork => hf.peer
     /\ InTimeAtPeer
     /\ ~SignedSeparately)
        => peer_status = "200"

\* Why the two hold: the request never changes, the entry node has found it in order when it came,
\* and nothing that matters changes once the peer has it.
ForwardInv ==
    /\ WellFormed(request)
    /\ hf \in [{"entry", "peer"} -> BOOLEAN]
    /\ status = "200" =>
          /\ entry = Load(request.method, request.fmt, request.params) /\ entry # PARSE_ERROR
          /\ Check(request.method, entry, NOW, hf.entry, TRUE, {}) = "200"
    /\ status # "200" => peer_status = NONE
    /\ peer_status = NONE => peer = NONE
    /\ PeerReadsTheSame
    /\ PeerAccepts
=============================================================================
