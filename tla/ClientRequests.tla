---------------------------- MODULE ClientRequests ----------------------------
(***************************************************************************)
(* The client RPC requests (oxenss/rpc/client_rpc_endpoints.cpp): how each *)
(* is loaded from the json or bt-encoded parameters of a client, and from  *)
(* the bt-encoded ones that to_bt writes when a request is forwarded.      *)
(*                                                                         *)
(* Parameters are a record with every field that the request knows, NONE   *)
(* where a field is missing; WRONG is a value of a type that the field     *)
(* does not take.  A string of bytes is [enc, v]: the bytes v, encoded in  *)
(* base64 ("b64"), in hex or not at all ("raw").                           *)
(***************************************************************************)
EXTENDS Integers, Sequences

CONSTANTS
    NONE, WRONG,        \* no value, a value of the wrong type
    ALL,                \* namespace_all
    UNSET,              \* the value of an optional that has none, read all the same
    BAD_HASH,           \* no message hash
    TOO_LONG,           \* data longer than MAX_MESSAGE_BODY
    MIN_TIME,           \* 1'000'000s: a json timestamp before it must be in seconds
    NAMESPACE_MAX

Default == 0
LegacyClosed == -10
NAMESPACE_MIN == -NAMESPACE_MAX - 1

\* What a load function leaves when it throws parse_error.
PARSE_ERROR == [error |-> "parse_error"]

Given(x) == x # NONE
OrElse(x, default) == IF Given(x) THEN x ELSE default

-----------------------------------------------------------------------------
(***************************************************************************)
(* Fields.                                                                 *)
(***************************************************************************)
\* parse_field, for the types that a field may have.
RightType(fmt, type, x) ==
    /\ x # WRONG
    /\ type = "time" /\ fmt = "json" => x >= MIN_TIME
    /\ type = "namespace" => x # ALL
    /\ type \in {"namespace", "namespace_var"} /\ x # ALL => x \in NAMESPACE_MIN .. NAMESPACE_MAX

\* load_fields
FieldsLoad(fmt, d, types) ==
    \A f \in DOMAIN d : Given(d[f]) =>
        RightType(fmt, IF f \in DOMAIN types THEN types[f] ELSE "other", d[f])

ExactlyOneOf(a, b) == Given(a) # Given(b)
AtMostOneOf(a, b) == ~(Given(a) /\ Given(b))

\* user_pubkey_t::load takes hex and bytes; anything else is too short or too long.
PubkeyLoads(pk) == Given(pk) /\ pk.enc \in {"hex", "raw"}

\* load_pk_signature
SignatureLoads(fmt, pk, pk_ed25519, sig) ==
    /\ PubkeyLoads(pk) /\ Given(sig)
    /\ Given(pk_ed25519) => pk.v.type = 5 /\ pk_ed25519.enc \in {"hex", "raw"}
    /\ sig.enc = IF fmt = "json" THEN "b64" ELSE "raw"

\* load_subkey, and the same for revoke_subkey.
SubkeyLoads(fmt, subkey) ==
    Given(subkey) => subkey.enc \in IF fmt = "json" THEN {"b64", "hex"} ELSE {"raw"}

Bytes(x) == IF Given(x) THEN x.v ELSE NONE
Raw(x) == IF Given(x) THEN [enc |-> "raw", v |-> x] ELSE NONE

MessagesLoad(messages) ==
    Given(messages) /\ messages # <<>> /\ \A i \in DOMAIN messages : messages[i] # BAD_HASH

-----------------------------------------------------------------------------
(***************************************************************************)
(* The load functions, each with the to_bt that goes with it.              *)
(***************************************************************************)
LoadStore(fmt, d) ==
    LET pk == OrElse(d.pubkey, d.pubKey)
        signed == Given(d.signature)
    IN IF /\ FieldsLoad(fmt, d, [expiry |-> "time", sig_timestamp |-> "time",
                                 namespace |-> "namespace"])
          /\ Given(d.timestamp)
          /\ ExactlyOneOf(d.expiry, d.ttl) /\ ExactlyOneOf(d.pubkey, d.pubKey)
          /\ IF signed THEN /\ SignatureLoads(fmt, pk, d.pubkey_ed25519, d.signature)
                            /\ SubkeyLoads(fmt, d.subkey)
             ELSE PubkeyLoads(pk)
          /\ Given(d.data) /\ (fmt = "json" => d.data.enc = "b64") /\ d.data.v # TOO_LONG
       THEN [pubkey |-> pk.v,
             timestamp |-> d.timestamp,
             expiry |-> IF Given(d.expiry) THEN d.expiry ELSE d.timestamp + d.ttl,
             msg_namespace |-> OrElse(d.namespace, Default),
             data |-> IF fmt = "json" \/ d.data.enc = "raw" THEN d.data.v ELSE d.data,
             signature |-> Bytes(d.signature),
             pubkey_ed25519 |-> IF signed THEN Bytes(d.pubkey_ed25519) ELSE NONE,
             subkey |-> IF signed THEN Bytes(d.subkey) ELSE NONE,
             sig_ts |-> IF signed THEN OrElse(d.sig_timestamp, d.timestamp) ELSE NONE]
       ELSE PARSE_ERROR

\* Mutant of StoreToBt: the namespace is left out.
StoreToBtDefault(s) ==
    [pubkey |-> Raw(s.pubkey), pubKey |-> NONE, timestamp |-> s.timestamp, expiry |-> s.expiry,
     ttl |-> NONE, namespace |-> NONE, data |-> Raw(s.data), signature |-> Raw(s.signature),
     pubkey_ed25519 |-> Raw(s.pubkey_ed25519), subkey |-> Raw(s.subkey), sig_timestamp |-> NONE]

StoreToBt(s) ==
    [pubkey |-> Raw(s.pubkey), pubKey |-> NONE,
     timestamp |-> s.timestamp, expiry |-> s.expiry, ttl |-> NONE,
     namespace |-> IF s.msg_namespace = Default THEN NONE ELSE s.msg_namespace,
     data |-> Raw(s.data),
     signature |-> Raw(s.signature), pubkey_ed25519 |-> Raw(s.pubkey_ed25519),
     subkey |-> Raw(s.subkey), sig_timestamp |-> NONE]

\* The timestamp is read even when it is missing and something else asks for a signature.
LoadRetrieve(fmt, d) ==
    LET pk == OrElse(d.pubkey, d.pubKey)
        hash == OrElse(d.lastHash, d.last_hash)
        signed == \/ Given(d.pubkey_ed25519) \/ Given(d.signature) \/ Given(d.timestamp)
                  \/ Given(d.namespace) /\ d.namespace # LegacyClosed
    IN IF /\ FieldsLoad(fmt, d, [namespace |-> "namespace", timestamp |-> "time"])
          /\ ExactlyOneOf(d.pubkey, d.pubKey)
          /\ IF signed THEN /\ SignatureLoads(fmt, pk, d.pubkey_ed25519, d.signature)
                            /\ SubkeyLoads(fmt, d.subkey)
             ELSE PubkeyLoads(pk)
          /\ AtMostOneOf(d.last_hash, d.lastHash) /\ hash # BAD_HASH
       THEN [pubkey |-> pk.v,
             msg_namespace |-> OrElse(d.namespace, Default),
             last_hash |-> hash,
             signature |-> Bytes(d.signature), pubkey_ed25519 |-> Bytes(d.pubkey_ed25519),
             subkey |-> IF signed THEN Bytes(d.subkey) ELSE NONE,
             timestamp |-> OrElse(d.timestamp, UNSET),
             check_signature |-> signed]
       ELSE PARSE_ERROR

LoadDeleteMsgs(fmt, d) ==
    IF /\ FieldsLoad(fmt, d, <<>>)
       /\ SignatureLoads(fmt, d.pubkey, d.pubkey_ed25519, d.signature)
       /\ MessagesLoad(d.messages)
    THEN [pubkey |-> d.pubkey.v, signature |-> d.signature.v, messages |-> d.messages,
          pubkey_ed25519 |-> Bytes(d.pubkey_ed25519), subkey |-> NONE,
          required |-> OrElse(d.required, FALSE)]
    ELSE PARSE_ERROR

DeleteMsgsToBt(r) ==
    [pubkey |-> Raw(r.pubkey), signature |-> Raw(r.signature), messages |-> r.messages,
     pubkey_ed25519 |-> Raw(r.pubkey_ed25519), required |-> NONE]

LoadRevokeSubkey(fmt, d) ==
    IF /\ FieldsLoad(fmt, d, <<>>)
       /\ SignatureLoads(fmt, d.pubkey, d.pubkey_ed25519, d.signature)
       /\ Given(d.revoke_subkey) /\ SubkeyLoads(fmt, d.revoke_subkey)
    THEN [pubkey |-> d.pubkey.v, signature |-> d.signature.v,
          pubkey_ed25519 |-> Bytes(d.pubkey_ed25519), subkey |-> NONE,
          revoke_subkey |-> d.revoke_subkey.v]
    ELSE PARSE_ERROR

RevokeSubkeyToBt(r) ==
    [pubkey |-> Raw(r.pubkey), signature |-> Raw(r.signature),
     pubkey_ed25519 |-> Raw(r.pubkey_ed25519), revoke_subkey |-> Raw(r.revoke_subkey)]

\* delete_all, delete_before and expire_all load alike, but for the name of their time:
\* "timestamp", "before" or "expiry".
LoadNamespaceAction(fmt, d) ==
    IF /\ FieldsLoad(fmt, d, [namespace |-> "namespace_var", time |-> "time"])
       /\ SignatureLoads(fmt, d.pubkey, d.pubkey_ed25519, d.signature)
       /\ Given(d.time)
    THEN [pubkey |-> d.pubkey.v, signature |-> d.signature.v,
          pubkey_ed25519 |-> Bytes(d.pubkey_ed25519), subkey |-> NONE,
          msg_namespace |-> OrElse(d.namespace, Default), time |-> d.time]
    ELSE PARSE_ERROR

NamespaceActionToBt(r) ==
    [pubkey |-> Raw(r.pubkey), signature |-> Raw(r.signature),
     pubkey_ed25519 |-> Raw(r.pubkey_ed25519), namespace |-> r.msg_namespace, time |-> r.time]

LoadExpireMsgs(fmt, d) ==
    IF /\ FieldsLoad(fmt, d, [expiry |-> "time"])
       /\ SignatureLoads(fmt, d.pubkey, d.pubkey_ed25519, d.signature)
       /\ SubkeyLoads(fmt, d.subkey)
       /\ Given(d.expiry)
       /\ ~(OrElse(d.shorten, FALSE) /\ OrElse(d.extend, FALSE))
       /\ MessagesLoad(d.messages)
    THEN [pubkey |-> d.pubkey.v, signature |-> d.signature.v,
          pubkey_ed25519 |-> Bytes(d.pubkey_ed25519), subkey |-> Bytes(d.subkey),
          expiry |-> d.expiry, messages |-> d.messages,
          shorten |-> OrElse(d.shorten, FALSE), extend |-> OrElse(d.extend, FALSE)]
    ELSE PARSE_ERROR

ExpireMsgsToBt(r) ==
    [pubkey |-> Raw(r.pubkey), signature |-> Raw(r.signature),
     pubkey_ed25519 |-> Raw(r.pubkey_ed25519), subkey |-> Raw(r.subkey),
     expiry |-> r.expiry, messages |-> r.messages,
     shorten |-> IF r.shorten THEN TRUE ELSE NONE, extend |-> IF r.extend THEN TRUE ELSE NONE]

LoadGetExpiries(fmt, d) ==
    IF /\ FieldsLoad(fmt, d, [timestamp |-> "time"])
       /\ SignatureLoads(fmt, d.pubkey, d.pubkey_ed25519, d.signature)
       /\ SubkeyLoads(fmt, d.subkey)
       /\ Given(d.timestamp) /\ Given(d.messages) /\ d.messages # <<>>
    THEN [pubkey |-> d.pubkey.v, signature |-> d.signature.v,
          pubkey_ed25519 |-> Bytes(d.pubkey_ed25519), subkey |-> Bytes(d.subkey),
          sig_ts |-> d.timestamp, messages |-> d.messages]
    ELSE PARSE_ERROR

-----------------------------------------------------------------------------
NamespaceActions == {"delete_all", "delete_before", "expire_all"}

\* The requests that are forwarded: the types derived from `recursive`.
Recursive == {"store", "delete", "revoke_subkey", "expire"} \cup NamespaceActions

\* The fields that the load functions look for.
FieldNames(method) ==
    {"pubkey", "pubkey_ed25519", "signature"} \cup
    CASE method = "store" -> {"pubKey", "timestamp", "ttl", "expiry", "namespace", "data",
                              "subkey", "sig_timestamp"}
      [] method = "retrieve" -> {"pubKey", "timestamp", "namespace", "subkey", "lastHash",
                                 "last_hash"}
      [] method = "delete" -> {"messages", "required"}
      [] method = "revoke_subkey" -> {"revoke_subkey"}
      [] method \in NamespaceActions -> {"namespace", "time"}
      [] method = "expire" -> {"messages", "expiry", "shorten", "extend", "subkey"}
      [] method = "get_expiries" -> {"messages", "timestamp", "subkey"}

Load(method, fmt, d) ==
    CASE method = "store" -> LoadStore(fmt, d)
      [] method = "retrieve" -> LoadRetrieve(fmt, d)
      [] method = "delete" -> LoadDeleteMsgs(fmt, d)
      [] method = "revoke_subkey" -> LoadRevokeSubkey(fmt, d)
      [] method \in NamespaceActions -> LoadNamespaceAction(fmt, d)
      [] method = "expire" -> LoadExpireMsgs(fmt, d)
      [] method = "get_expiries" -> LoadGetExpiries(fmt, d)

ToBt(method, r) ==
    CASE method = "store" -> StoreToBt(r)
      [] method = "delete" -> DeleteMsgsToBt(r)
      [] method = "revoke_subkey" -> RevokeSubkeyToBt(r)
      [] method \in NamespaceActions -> NamespaceActionToBt(r)
      [] method = "expire" -> ExpireMsgsToBt(r)
=============================================================================
