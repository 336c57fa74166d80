--------------------------- MODULE ForwardingProofs ---------------------------
(***************************************************************************)
(* Proofs, for any requests, keys, times and tolerances: no node acts on   *)
(* what the account's owner has not signed, and a peer reads and accepts   *)
(* the request that the entry node has accepted.                           *)
(***************************************************************************)
EXTENDS Forwarding, TLAPS

\* The prover of every leaf that does not name another.
USE Zenon

\* A signature that verify_signature accepts is by one of the owner's keys, over this request.
LEMMA Verified ==
    ASSUME NEW method, NEW r, NEW revoked_here, VerifySignature(method, r, revoked_here)
    PROVE  \E pk \in OwnerKeys(r) :
              r.signature = [by |-> [pk |-> pk, subkey |-> r.subkey],
                             over |-> SignedData(method, r)]
<1>1. CASE UsesEd(r)
  <2>1. r.pubkey_ed25519 \in OwnerKeys(r)
    BY <1>1 DEF VerifySignature, OwnerKeys
  <2>2. r.signature = [by |-> [pk |-> r.pubkey_ed25519, subkey |-> r.subkey],
                       over |-> SignedData(method, r)]
    BY <1>1 DEF VerifySignature, VerifyKey
  <2>3. QED
    BY <2>1, <2>2
<1>2. CASE ~UsesEd(r)
  <2>1. r.pubkey.key \in OwnerKeys(r)
    BY DEF OwnerKeys
  <2>2. r.signature = [by |-> [pk |-> r.pubkey.key, subkey |-> r.subkey],
                       over |-> SignedData(method, r)]
    BY <1>2 DEF VerifySignature, VerifyKey
  <2>3. QED
    BY <2>1, <2>2
<1>3. QED
  BY <1>1, <1>2

\* None of the process_client_req functions gets to where it acts without a signature that
\* verifies, but for the two that need none.
LEMMA Checked ==
    ASSUME NEW r, NEW now, NEW past_hf, NEW recurse, NEW revoked_here,
           Check(request.method, r, now, past_hf, recurse, revoked_here) = "200"
    PROVE  Owned(r)
<1> DEFINE verifies == VerifySignature(request.method, r, revoked_here)
<1>1. CASE request.method = "store"
  <2>1. IsPublicNamespace(r.msg_namespace) \/ verifies
    <3>1. CheckStore(r, now, past_hf, verifies) = "200"
      BY <1>1 DEF Check
    <3>2. QED
      BY <3>1 DEF CheckStore
  <2>2. QED
    BY <1>1, <2>1, Verified DEF Owned
<1>2. CASE request.method = "retrieve"
  <2>1. r.msg_namespace = LegacyClosed \/ verifies
    <3>1. CheckRetrieve(r, now, verifies) = "200"
      BY <1>2 DEF Check
    <3>2. QED
      BY <3>1 DEF CheckRetrieve
  <2>2. QED
    BY <1>2, <2>1, Verified DEF Owned
<1>3. CASE request.method = "expire"
  <2>1. verifies
    <3>1. CheckExpireMsgs(r, now, past_hf, verifies) = "200"
      BY <1>3 DEF Check
    <3>2. QED
      BY <3>1 DEF CheckExpireMsgs
  <2>2. QED
    BY <2>1, Verified DEF Owned
<1>4. CASE request.method \notin {"store", "retrieve", "expire"}
  <2>1. verifies
    BY <1>4 DEF Check
  <2>2. QED
    BY <2>1, Verified DEF Owned
<1>5. QED
  BY <1>1, <1>2, <1>3, <1>4

\* Nor does a node that cannot load the request or that it is not for.
LEMMA ProcessedOwned ==
    ASSUME NEW r, NEW for_us \in BOOLEAN, NEW now, NEW past_hf, NEW recurse,
           NEW revoked_here, Processed(r, for_us, now, past_hf, recurse, revoked_here) = "200"
    PROVE  Owned(r)
<1>1. Check(request.method, r, now, past_hf, recurse, revoked_here) = "200"
  BY DEF Processed
<1>2. QED
  BY <1>1, Checked

\* Neither the node that a client talks to nor a peer that the request is forwarded to acts on
\* what the account's owner has not signed (the process_client_req functions and
\* verify_signature), whatever to_bt and load make of the request in between.
THEOREM OwnersOnly == Spec => []OnlyOwnersAct
<1>1. Init => OnlyOwnersAct
  BY ForwardingAssumption DEF Init, OnlyOwnersAct
<1>2. ASSUME OnlyOwnersAct, [Next]_vars
      PROVE  OnlyOwnersAct'
  <2>1. CASE ProcessAtEntry
    <3>1. request' = request /\ peer' = peer /\ peer_status' = peer_status
      BY <2>1 DEF ProcessAtEntry
    <3>2. PICK for_us \in BOOLEAN :
              status' = Processed(entry', for_us, NOW, hf.entry, TRUE, revoked.entry)
      BY <2>1 DEF ProcessAtEntry
    <3>3. status' = "200" => Owned(entry')
      BY <3>2, ProcessedOwned
    <3>4. QED
      BY <1>2, <3>1, <3>3 DEF OnlyOwnersAct, Owned
  <2>2. CASE ProcessAtPeer
    <3>1. request' = request /\ entry' = entry /\ status' = status
      BY <2>2 DEF ProcessAtPeer
    <3>2. PICK for_us \in BOOLEAN :
              peer_status' = Processed(peer', for_us, peer_now', hf.peer, FALSE, revoked.peer)
      BY <2>2 DEF ProcessAtPeer
    <3>3. peer_status' = "200" => Owned(peer')
      BY <3>2, ProcessedOwned
    <3>4. QED
      BY <1>2, <3>1, <3>3 DEF OnlyOwnersAct, Owned
  <2>3. CASE SubkeyRevoked \/ UNCHANGED vars
    <3>1. /\ request' = request /\ entry' = entry /\ status' = status
          /\ peer' = peer /\ peer_status' = peer_status
      BY <2>3 DEF SubkeyRevoked, vars
    <3>2. QED
      BY <1>2, <3>1 DEF OnlyOwnersAct, Owned
  <2>4. QED
    BY <1>2, <2>1, <2>2, <2>3 DEF Next
<1>3. QED
  BY <1>1, <1>2, PTL DEF Spec

-----------------------------------------------------------------------------
(***************************************************************************)
(* What to_bt writes, load reads.                                          *)
(***************************************************************************)

\* A field that is given and that load_fields accepts.
LEMMA FieldValue ==
    ASSUME NEW q, WellFormed(q), NEW types, FieldsLoad(q.fmt, q.params, types),
           NEW f \in FieldNames(q.method), Given(q.params[f])
    PROVE  /\ q.params[f] # WRONG
           /\ f \in TimeFields => q.params[f] \in Int
           /\ f \in {"shorten", "extend"} => q.params[f] \in BOOLEAN
           /\ f \in ByteFields => /\ q.params[f].v # NONE /\ q.params[f] # TOO_LONG
                                  /\ Raw(q.params[f].v) \notin {NONE, WRONG}
                                  /\ Raw(q.params[f]) \notin {NONE, WRONG}
<1>1. f \in DOMAIN q.params
  BY DEF WellFormed
<1>2. q.params[f] # WRONG
  BY <1>1 DEF FieldsLoad, RightType
<1>3. q.params[f] \notin {NONE, WRONG}
  BY <1>2 DEF Given
<1>4. QED
  BY <1>1, <1>3 DEF WellFormed

\* The default namespace is a namespace.
LEMMA DefaultLoads == Default # WRONG /\ Default \in NAMESPACE_MIN .. NAMESPACE_MAX
<1>1. NAMESPACE_MAX \in Nat /\ WRONG \notin Int
  BY ForwardingAssumption
<1>2. QED
  BY <1>1, SMT DEF Default, NAMESPACE_MIN

\* Bytes that Raw has wrapped come out as they went in.
LEMMA RawBytes ==
    ASSUME NEW x, Given(x) => Raw(x) # NONE
    PROVE  Bytes(Raw(x)) = x /\ (Given(Raw(x)) <=> Given(x))
BY DEF Bytes, Raw, Given

\* The signature part of a request (load_pk_signature), in bt.
LEMMA SignatureRoundTrip ==
    ASSUME NEW fmt, NEW pk, NEW ed, NEW sig, SignatureLoads(fmt, pk, ed, sig),
           Raw(pk.v) # NONE, pk.v # NONE, Raw(sig.v) # NONE, sig.v # NONE,
           Given(ed) => Raw(ed.v) # NONE /\ ed.v # NONE
    PROVE  SignatureLoads("bt", Raw(pk.v), Raw(Bytes(ed)), Raw(sig.v))
<1>1. Raw(pk.v).enc = "raw" /\ Raw(pk.v).v = pk.v /\ Given(Raw(pk.v))
  BY DEF Raw, Given
<1>2. Raw(sig.v).enc = "raw" /\ Given(Raw(sig.v))
  BY DEF Raw, Given
<1>3. Given(Raw(Bytes(ed))) => pk.v.type = 5 /\ Raw(Bytes(ed)).enc \in {"hex", "raw"}
  <2>1. CASE Given(ed)
    <3>1. Bytes(ed) = ed.v /\ pk.v.type = 5
      BY <2>1 DEF Bytes, SignatureLoads
    <3>2. Raw(Bytes(ed)).enc = "raw"
      BY <2>1, <3>1 DEF Raw, Given
    <3>3. QED
      BY <3>1, <3>2
  <2>2. CASE ~Given(ed)
    BY <2>2 DEF Bytes, Raw, Given
  <2>3. QED
    BY <2>1, <2>2
<1>4. QED
  BY <1>1, <1>2, <1>3 DEF SignatureLoads, PubkeyLoads

\* delete_all, delete_before and expire_all.
LEMMA NamespaceActionRoundTrip ==
    ASSUME NEW q, WellFormed(q), q.method \in NamespaceActions,
           NEW r, r = LoadNamespaceAction(q.fmt, q.params), r # PARSE_ERROR
    PROVE  LoadNamespaceAction("bt", NamespaceActionToBt(r)) = r
<1>1. PICK d : d = q.params
  OBVIOUS
<1> DEFINE types == [namespace |-> "namespace_var", time |-> "time"]
<1>2. /\ FieldsLoad(q.fmt, d, types)
      /\ SignatureLoads(q.fmt, d.pubkey, d.pubkey_ed25519, d.signature)
      /\ Given(d.time)
      /\ r = [pubkey |-> d.pubkey.v, signature |-> d.signature.v,
              pubkey_ed25519 |-> Bytes(d.pubkey_ed25519), subkey |-> NONE,
              msg_namespace |-> OrElse(d.namespace, Default), time |-> d.time]
  BY <1>1 DEF LoadNamespaceAction
<1>3. FieldNames(q.method) = {"pubkey", "pubkey_ed25519", "signature", "namespace", "time"}
  BY DEF FieldNames, NamespaceActions
<1>4. Given(d.pubkey) /\ Given(d.signature)
  BY <1>2 DEF SignatureLoads, PubkeyLoads
<1>5. /\ d.pubkey.v # NONE /\ Raw(d.pubkey.v) \notin {NONE, WRONG}
      /\ d.signature.v # NONE /\ Raw(d.signature.v) \notin {NONE, WRONG}
      /\ Given(d.pubkey_ed25519) =>
            d.pubkey_ed25519.v # NONE /\ Raw(d.pubkey_ed25519.v) \notin {NONE, WRONG}
  BY <1>1, <1>2, <1>3, <1>4, FieldValue DEF ByteFields
<1>6. PICK b : b = NamespaceActionToBt(r)
  OBVIOUS
<1>7. /\ DOMAIN b = {"pubkey", "signature", "pubkey_ed25519", "namespace", "time"}
      /\ b.pubkey = Raw(d.pubkey.v) /\ b.signature = Raw(d.signature.v)
      /\ b.pubkey_ed25519 = Raw(Bytes(d.pubkey_ed25519))
      /\ b.namespace = OrElse(d.namespace, Default) /\ b.time = d.time
  BY <1>2, <1>6, SMT DEF NamespaceActionToBt
<1>8. SignatureLoads("bt", b.pubkey, b.pubkey_ed25519, b.signature)
  BY <1>2, <1>5, <1>7, SignatureRoundTrip
<1>9. FieldsLoad("bt", b, types)
  <2>1. b.time # WRONG /\ b.pubkey # WRONG /\ b.signature # WRONG
    BY <1>1, <1>2, <1>3, <1>5, <1>7, FieldValue
  <2>2. Given(b.pubkey_ed25519) => b.pubkey_ed25519 # WRONG
    BY <1>5, <1>7 DEF Bytes, Raw, Given
  <2>3. b.namespace # WRONG /\ (b.namespace # ALL => b.namespace \in NAMESPACE_MIN .. NAMESPACE_MAX)
    <3>1. CASE Given(d.namespace)
      <4>1. "namespace" \in DOMAIN d
        BY <1>1, <1>3 DEF WellFormed
      <4>2. RightType(q.fmt, "namespace_var", d.namespace)
        BY <1>2, <3>1, <4>1 DEF FieldsLoad
      <4>3. QED
        BY <1>7, <3>1, <4>2 DEF RightType, OrElse
    <3>2. CASE ~Given(d.namespace)
      BY <1>7, <3>2, DefaultLoads DEF OrElse
    <3>3. QED
      BY <3>1, <3>2
  <2>4. ASSUME NEW f \in DOMAIN b, Given(b[f])
        PROVE  RightType("bt", IF f \in DOMAIN types THEN types[f] ELSE "other", b[f])
    <3>1. CASE f = "namespace"
      BY <2>3, <3>1 DEF RightType
    <3>2. CASE f = "time"
      BY <2>1, <3>2 DEF RightType
    <3>3. CASE f \in {"pubkey", "signature", "pubkey_ed25519"}
      BY <2>1, <2>2, <2>4, <3>3 DEF RightType
    <3>4. QED
      BY <1>7, <3>1, <3>2, <3>3
  <2>5. QED
    BY <2>4 DEF FieldsLoad
<1>10. Given(b.time)
  BY <1>2, <1>7
<1>11. LoadNamespaceAction("bt", b) =
           [pubkey |-> b.pubkey.v, signature |-> b.signature.v,
            pubkey_ed25519 |-> Bytes(b.pubkey_ed25519), subkey |-> NONE,
            msg_namespace |-> OrElse(b.namespace, Default), time |-> b.time]
  BY <1>8, <1>9, <1>10 DEF LoadNamespaceAction
<1>12. b.pubkey.v = d.pubkey.v /\ b.signature.v = d.signature.v
  BY <1>5, <1>7, SMT DEF Raw, Given
<1>13. Bytes(b.pubkey_ed25519) = Bytes(d.pubkey_ed25519)
  BY <1>5, <1>7, RawBytes DEF Bytes
<1>14. OrElse(b.namespace, Default) = OrElse(d.namespace, Default)
  BY <1>7 DEF OrElse
<1>15. QED
  BY <1>2, <1>6, <1>7, <1>11, <1>12, <1>13, <1>14

\* delete: everything but `required`, which concerns only the entry node's answer.
LEMMA DeleteRoundTrip ==
    ASSUME NEW q, WellFormed(q), q.method = "delete",
           NEW r, r = LoadDeleteMsgs(q.fmt, q.params), r # PARSE_ERROR
    PROVE  /\ LoadDeleteMsgs("bt", DeleteMsgsToBt(r)) # PARSE_ERROR
           /\ \A f \in DOMAIN r \ {"required"} :
                 LoadDeleteMsgs("bt", DeleteMsgsToBt(r))[f] = r[f]
<1>1. PICK d : d = q.params
  OBVIOUS
<1>2. /\ FieldsLoad(q.fmt, d, <<>>)
      /\ SignatureLoads(q.fmt, d.pubkey, d.pubkey_ed25519, d.signature)
      /\ MessagesLoad(d.messages)
      /\ r = [pubkey |-> d.pubkey.v, signature |-> d.signature.v, messages |-> d.messages,
              pubkey_ed25519 |-> Bytes(d.pubkey_ed25519), subkey |-> NONE,
              required |-> OrElse(d.required, FALSE)]
  BY <1>1 DEF LoadDeleteMsgs
<1>3. FieldNames(q.method) = {"pubkey", "pubkey_ed25519", "signature", "messages", "required"}
  BY DEF FieldNames, NamespaceActions
<1>4. Given(d.pubkey) /\ Given(d.signature) /\ Given(d.messages)
  BY <1>2 DEF SignatureLoads, PubkeyLoads, MessagesLoad
<1>5. /\ d.pubkey.v # NONE /\ Raw(d.pubkey.v) \notin {NONE, WRONG}
      /\ d.signature.v # NONE /\ Raw(d.signature.v) \notin {NONE, WRONG}
      /\ Given(d.pubkey_ed25519) =>
            d.pubkey_ed25519.v # NONE /\ Raw(d.pubkey_ed25519.v) \notin {NONE, WRONG}
  BY <1>1, <1>2, <1>3, <1>4, FieldValue DEF ByteFields
<1>6. PICK b : b = DeleteMsgsToBt(r)
  OBVIOUS
<1>7. /\ DOMAIN b = {"pubkey", "signature", "pubkey_ed25519", "messages", "required"}
      /\ b.pubkey = Raw(d.pubkey.v) /\ b.signature = Raw(d.signature.v)
      /\ b.pubkey_ed25519 = Raw(Bytes(d.pubkey_ed25519))
      /\ b.messages = d.messages /\ b.required = NONE
  BY <1>2, <1>6, SMT DEF DeleteMsgsToBt
<1>8. SignatureLoads("bt", b.pubkey, b.pubkey_ed25519, b.signature)
  BY <1>2, <1>5, <1>7, SignatureRoundTrip
<1>9. FieldsLoad("bt", b, <<>>)
  <2>1. b.messages # WRONG /\ b.pubkey # WRONG /\ b.signature # WRONG
    <3>1. d.messages # WRONG
      BY <1>1, <1>2, <1>3, <1>4, FieldValue
    <3>2. QED
      BY <1>5, <1>7, <3>1
  <2>2. Given(b.pubkey_ed25519) => b.pubkey_ed25519 # WRONG
    BY <1>5, <1>7 DEF Bytes, Raw, Given
  <2>3. ASSUME NEW f \in DOMAIN b, Given(b[f])
        PROVE  b[f] # WRONG
    BY <1>7, <2>1, <2>2, <2>3 DEF Given
  <2>4. QED
    BY <2>3, SMT DEF FieldsLoad, RightType
<1>10. MessagesLoad(b.messages)
  BY <1>2, <1>7
<1>11. LoadDeleteMsgs("bt", b) =
           [pubkey |-> b.pubkey.v, signature |-> b.signature.v, messages |-> b.messages,
            pubkey_ed25519 |-> Bytes(b.pubkey_ed25519), subkey |-> NONE,
            required |-> OrElse(b.required, FALSE)]
  BY <1>8, <1>9, <1>10 DEF LoadDeleteMsgs
<1>12. b.pubkey.v = d.pubkey.v /\ b.signature.v = d.signature.v
  BY <1>5, <1>7, SMT DEF Raw, Given
<1>13. Bytes(b.pubkey_ed25519) = Bytes(d.pubkey_ed25519)
  BY <1>5, <1>7, RawBytes, SMT DEF Bytes
<1>14. PICK p : p = LoadDeleteMsgs("bt", b)
  OBVIOUS
<1>15. /\ DOMAIN r = {"pubkey", "signature", "messages", "pubkey_ed25519", "subkey", "required"}
       /\ r.pubkey = d.pubkey.v /\ r.signature = d.signature.v /\ r.messages = d.messages
       /\ r.pubkey_ed25519 = Bytes(d.pubkey_ed25519) /\ r.subkey = NONE
  BY <1>2, SMT
<1>16. /\ "pubkey" \in DOMAIN p
       /\ p.pubkey = b.pubkey.v /\ p.signature = b.signature.v /\ p.messages = b.messages
       /\ p.pubkey_ed25519 = Bytes(b.pubkey_ed25519) /\ p.subkey = NONE
  BY <1>11, <1>14, SMT
<1>17. p # PARSE_ERROR
  BY <1>16, SMT DEF PARSE_ERROR
<1>18. \A f \in DOMAIN r \ {"required"} : p[f] = r[f]
  BY <1>7, <1>12, <1>13, <1>15, <1>16
<1>19. QED
  BY <1>6, <1>14, <1>17, <1>18

\* revoke_subkey
LEMMA RevokeRoundTrip ==
    ASSUME NEW q, WellFormed(q), q.method = "revoke_subkey",
           NEW r, r = LoadRevokeSubkey(q.fmt, q.params), r # PARSE_ERROR
    PROVE  LoadRevokeSubkey("bt", RevokeSubkeyToBt(r)) = r
<1>1. PICK d : d = q.params
  OBVIOUS
<1>2. /\ FieldsLoad(q.fmt, d, <<>>)
      /\ SignatureLoads(q.fmt, d.pubkey, d.pubkey_ed25519, d.signature)
      /\ Given(d.revoke_subkey)
      /\ r = [pubkey |-> d.pubkey.v, signature |-> d.signature.v,
              pubkey_ed25519 |-> Bytes(d.pubkey_ed25519), subkey |-> NONE,
              revoke_subkey |-> d.revoke_subkey.v]
  BY <1>1 DEF LoadRevokeSubkey
<1>3. FieldNames(q.method) = {"pubkey", "pubkey_ed25519", "signature", "revoke_subkey"}
  BY DEF FieldNames, NamespaceActions
<1>4. Given(d.pubkey) /\ Given(d.signature)
  BY <1>2 DEF SignatureLoads, PubkeyLoads
<1>5. /\ d.pubkey.v # NONE /\ Raw(d.pubkey.v) \notin {NONE, WRONG}
      /\ d.signature.v # NONE /\ Raw(d.signature.v) \notin {NONE, WRONG}
      /\ d.revoke_subkey.v # NONE /\ Raw(d.revoke_subkey.v) \notin {NONE, WRONG}
      /\ Given(d.pubkey_ed25519) =>
            d.pubkey_ed25519.v # NONE /\ Raw(d.pubkey_ed25519.v) \notin {NONE, WRONG}
  BY <1>1, <1>2, <1>3, <1>4, FieldValue DEF ByteFields
<1>6. PICK b : b = RevokeSubkeyToBt(r)
  OBVIOUS
<1>7. /\ DOMAIN b = {"pubkey", "signature", "pubkey_ed25519", "revoke_subkey"}
      /\ b.pubkey = Raw(d.pubkey.v) /\ b.signature = Raw(d.signature.v)
      /\ b.pubkey_ed25519 = Raw(Bytes(d.pubkey_ed25519))
      /\ b.revoke_subkey = Raw(d.revoke_subkey.v)
  BY <1>2, <1>6, SMT DEF RevokeSubkeyToBt
<1>8. SignatureLoads("bt", b.pubkey, b.pubkey_ed25519, b.signature)
  BY <1>2, <1>5, <1>7, SignatureRoundTrip, SMT
<1>9. FieldsLoad("bt", b, <<>>)
  <2>1. b.revoke_subkey # WRONG /\ b.pubkey # WRONG /\ b.signature # WRONG
    BY <1>5, <1>7
  <2>2. Given(b.pubkey_ed25519) => b.pubkey_ed25519 # WRONG
    BY <1>5, <1>7 DEF Bytes, Raw, Given
  <2>3. ASSUME NEW f \in DOMAIN b, Given(b[f])
        PROVE  b[f] # WRONG
    BY <1>7, <2>1, <2>2, <2>3 DEF Given
  <2>4. QED
    BY <2>3, SMT DEF FieldsLoad, RightType
<1>10. Given(b.revoke_subkey) /\ SubkeyLoads("bt", b.revoke_subkey)
  BY <1>5, <1>7, SMT DEF SubkeyLoads, Raw, Given
<1>11. LoadRevokeSubkey("bt", b) =
           [pubkey |-> b.pubkey.v, signature |-> b.signature.v,
            pubkey_ed25519 |-> Bytes(b.pubkey_ed25519), subkey |-> NONE,
            revoke_subkey |-> b.revoke_subkey.v]
  BY <1>8, <1>9, <1>10 DEF LoadRevokeSubkey
<1>12. b.pubkey.v = d.pubkey.v /\ b.signature.v = d.signature.v /\ b.revoke_subkey.v = d.revoke_subkey.v
  BY <1>5, <1>7, SMT DEF Raw, Given
<1>13. Bytes(b.pubkey_ed25519) = Bytes(d.pubkey_ed25519)
  BY <1>5, <1>7, RawBytes, SMT DEF Bytes
<1>14. QED
  BY <1>2, <1>6, <1>7, <1>11, <1>12, <1>13

\* A flag that load reads and to_bt writes only when it is set.
LEMMA FlagRoundTrip ==
    ASSUME NEW x, Given(x) => x \in BOOLEAN
    PROVE  /\ OrElse(x, FALSE) \in BOOLEAN
           /\ OrElse(IF OrElse(x, FALSE) THEN TRUE ELSE NONE, FALSE) = OrElse(x, FALSE)
<1>1. OrElse(x, FALSE) \in BOOLEAN
  BY DEF OrElse
<1>2. NONE # TRUE
  BY ForwardingAssumption
<1>3. CASE OrElse(x, FALSE) = TRUE
  BY <1>2, <1>3 DEF OrElse, Given
<1>4. CASE OrElse(x, FALSE) = FALSE
  BY <1>4 DEF OrElse, Given
<1>5. QED
  BY <1>1, <1>3, <1>4

\* expire
LEMMA ExpireRoundTrip ==
    ASSUME NEW q, WellFormed(q), q.method = "expire",
           NEW r, r = LoadExpireMsgs(q.fmt, q.params), r # PARSE_ERROR
    PROVE  LoadExpireMsgs("bt", ExpireMsgsToBt(r)) = r
<1>1. PICK d : d = q.params
  OBVIOUS
<1> DEFINE types == [expiry |-> "time"]
<1>2. /\ FieldsLoad(q.fmt, d, types)
      /\ SignatureLoads(q.fmt, d.pubkey, d.pubkey_ed25519, d.signature)
      /\ Given(d.expiry)
      /\ ~(OrElse(d.shorten, FALSE) /\ OrElse(d.extend, FALSE))
      /\ MessagesLoad(d.messages)
      /\ r = [pubkey |-> d.pubkey.v, signature |-> d.signature.v,
              pubkey_ed25519 |-> Bytes(d.pubkey_ed25519), subkey |-> Bytes(d.subkey),
              expiry |-> d.expiry, messages |-> d.messages,
              shorten |-> OrElse(d.shorten, FALSE), extend |-> OrElse(d.extend, FALSE)]
  BY <1>1 DEF LoadExpireMsgs
<1>3. FieldNames(q.method) = {"pubkey", "pubkey_ed25519", "signature", "messages", "expiry",
                              "shorten", "extend", "subkey"}
  BY DEF FieldNames, NamespaceActions
<1>4. Given(d.pubkey) /\ Given(d.signature) /\ Given(d.messages)
  BY <1>2 DEF SignatureLoads, PubkeyLoads, MessagesLoad
<1>5. /\ d.pubkey.v # NONE /\ Raw(d.pubkey.v) \notin {NONE, WRONG}
      /\ d.signature.v # NONE /\ Raw(d.signature.v) \notin {NONE, WRONG}
      /\ Given(d.pubkey_ed25519) =>
            d.pubkey_ed25519.v # NONE /\ Raw(d.pubkey_ed25519.v) \notin {NONE, WRONG}
      /\ Given(d.subkey) => d.subkey.v # NONE /\ Raw(d.subkey.v) \notin {NONE, WRONG}
  BY <1>1, <1>2, <1>3, <1>4, FieldValue DEF ByteFields
<1>6. PICK b : b = ExpireMsgsToBt(r)
  OBVIOUS
<1>7. /\ DOMAIN b = {"pubkey", "signature", "pubkey_ed25519", "subkey", "expiry", "messages",
                     "shorten", "extend"}
      /\ b.pubkey = Raw(d.pubkey.v) /\ b.signature = Raw(d.signature.v)
      /\ b.pubkey_ed25519 = Raw(Bytes(d.pubkey_ed25519)) /\ b.subkey = Raw(Bytes(d.subkey))
      /\ b.messages = d.messages /\ b.expiry = d.expiry
      /\ b.shorten = IF OrElse(d.shorten, FALSE) THEN TRUE ELSE NONE
      /\ b.extend = IF OrElse(d.extend, FALSE) THEN TRUE ELSE NONE
  BY <1>2, <1>6, SMT DEF ExpireMsgsToBt
<1>8. SignatureLoads("bt", b.pubkey, b.pubkey_ed25519, b.signature)
  BY <1>2, <1>5, <1>7, SignatureRoundTrip, SMT
<1>9. FieldsLoad("bt", b, types)
  <2>1. b.messages # WRONG /\ b.expiry # WRONG /\ b.pubkey # WRONG /\ b.signature # WRONG
    <3>1. b.pubkey # WRONG /\ b.signature # WRONG
      BY <1>5, <1>7
    <3>2. d.messages # WRONG
      BY <1>1, <1>2, <1>3, <1>4, FieldValue
    <3>3. d.expiry # WRONG
      BY <1>1, <1>2, <1>3, FieldValue
    <3>4. QED
      BY <1>7, <3>1, <3>2, <3>3
  <2>2. /\ Given(b.pubkey_ed25519) => b.pubkey_ed25519 # WRONG
        /\ Given(b.subkey) => b.subkey # WRONG
    BY <1>5, <1>7 DEF Bytes, Raw, Given
  <2>3. WRONG # TRUE
    BY ForwardingAssumption
  <2>4. (Given(b.shorten) => b.shorten # WRONG) /\ (Given(b.extend) => b.extend # WRONG)
    BY <1>7, <2>3 DEF Given
  <2>5. ASSUME NEW f \in DOMAIN b, Given(b[f])
        PROVE  b[f] # WRONG
    BY <1>7, <2>1, <2>2, <2>4, <2>5
  <2>6. QED
    BY <2>5, SMT DEF FieldsLoad, RightType
<1>10. SubkeyLoads("bt", b.subkey)
  BY <1>5, <1>7, SMT DEF SubkeyLoads, Bytes, Raw, Given
<1>11. OrElse(b.shorten, FALSE) = OrElse(d.shorten, FALSE)
  <2>1. Given(d.shorten) => d.shorten \in BOOLEAN
    BY <1>1, <1>2, <1>3, FieldValue
  <2>2. QED
    BY <1>7, <2>1, FlagRoundTrip
<1>12. OrElse(b.extend, FALSE) = OrElse(d.extend, FALSE)
  <2>1. Given(d.extend) => d.extend \in BOOLEAN
    BY <1>1, <1>2, <1>3, FieldValue
  <2>2. QED
    BY <1>7, <2>1, FlagRoundTrip
<1>13. /\ Given(b.expiry) /\ MessagesLoad(b.messages)
       /\ ~(OrElse(b.shorten, FALSE) /\ OrElse(b.extend, FALSE))
  BY <1>2, <1>7, <1>11, <1>12
<1>14. LoadExpireMsgs("bt", b) =
           [pubkey |-> b.pubkey.v, signature |-> b.signature.v,
            pubkey_ed25519 |-> Bytes(b.pubkey_ed25519), subkey |-> Bytes(b.subkey),
            expiry |-> b.expiry, messages |-> b.messages,
            shorten |-> OrElse(b.shorten, FALSE), extend |-> OrElse(b.extend, FALSE)]
  BY <1>8, <1>9, <1>10, <1>13 DEF LoadExpireMsgs
<1>15. b.pubkey.v = d.pubkey.v /\ b.signature.v = d.signature.v
  BY <1>5, <1>7, SMT DEF Raw, Given
<1>16. Bytes(b.pubkey_ed25519) = Bytes(d.pubkey_ed25519) /\ Bytes(b.subkey) = Bytes(d.subkey)
  BY <1>5, <1>7, RawBytes, SMT DEF Bytes
<1>17. QED
  BY <1>2, <1>6, <1>7, <1>11, <1>12, <1>14, <1>15, <1>16

\* store: the peer takes the message's time for that of the signature.
LEMMA StoreRoundTrip ==
    ASSUME NEW q, WellFormed(q), q.method = "store",
           NEW r, r = LoadStore(q.fmt, q.params), r # PARSE_ERROR,
           NEW p, p = LoadStore("bt", StoreToBt(r))
    PROVE  /\ p # PARSE_ERROR
           /\ \A f \in DOMAIN r :
                 p[f] = IF f = "sig_ts" /\ Given(r.sig_ts) THEN r.timestamp ELSE r[f]
           /\ (Given(r.sig_ts) => r.sig_ts = r.timestamp) => p = r
           /\ p.timestamp = r.timestamp /\ p.expiry = r.expiry
           /\ p.msg_namespace = r.msg_namespace
<1>1. PICK d : d = q.params
  OBVIOUS
<1> DEFINE types == [expiry |-> "time", sig_timestamp |-> "time", namespace |-> "namespace"]
           expiry == IF Given(d.expiry) THEN d.expiry ELSE d.timestamp + d.ttl
           data == IF q.fmt = "json" \/ d.data.enc = "raw" THEN d.data.v ELSE d.data
           ns == OrElse(d.namespace, Default)
           signed == Given(d.signature)
           ed == IF signed THEN Bytes(d.pubkey_ed25519) ELSE NONE
           subkey == IF signed THEN Bytes(d.subkey) ELSE NONE
           sig_ts == IF signed THEN OrElse(d.sig_timestamp, d.timestamp) ELSE NONE
<1>2. PICK pk : pk = OrElse(d.pubkey, d.pubKey)
  OBVIOUS
<1>3. /\ FieldsLoad(q.fmt, d, types)
      /\ Given(d.timestamp)
      /\ ExactlyOneOf(d.expiry, d.ttl) /\ ExactlyOneOf(d.pubkey, d.pubKey)
      /\ IF signed THEN /\ SignatureLoads(q.fmt, pk, d.pubkey_ed25519, d.signature)
                        /\ SubkeyLoads(q.fmt, d.subkey)
         ELSE PubkeyLoads(pk)
      /\ Given(d.data) /\ d.data.v # TOO_LONG
  BY <1>1, <1>2 DEF LoadStore
<1>4. r = [pubkey |-> pk.v, timestamp |-> d.timestamp, expiry |-> expiry, msg_namespace |-> ns,
           data |-> data, signature |-> Bytes(d.signature), pubkey_ed25519 |-> ed,
           subkey |-> subkey, sig_ts |-> sig_ts]
  BY <1>1, <1>2 DEF LoadStore
<1>5. FieldNames(q.method) = {"pubkey", "pubkey_ed25519", "signature", "pubKey", "timestamp",
                              "ttl", "expiry", "namespace", "data", "subkey", "sig_timestamp"}
  BY DEF FieldNames, NamespaceActions
<1> DEFINE Values(f) == Given(d[f]) => /\ d[f].v # NONE /\ d[f] # TOO_LONG
                                       /\ Raw(d[f].v) \notin {NONE, WRONG}
                                       /\ Raw(d[f]) \notin {NONE, WRONG}
<1>values. /\ Values("pubkey") /\ Values("pubKey") /\ Values("signature")
           /\ Values("pubkey_ed25519") /\ Values("subkey") /\ Values("data")
  <2>1. \A f \in {"pubkey", "pubKey", "signature", "pubkey_ed25519", "subkey", "data"} :
           f \in FieldNames(q.method) /\ f \in ByteFields
    BY <1>5 DEF ByteFields
  <2>2. \A f : f \in FieldNames(q.method) /\ f \in ByteFields => Values(f)
    BY <1>1, <1>3, FieldValue
  <2> HIDE DEF Values
  <2>3. QED
    BY <2>1, <2>2
<1>6. pk.v # NONE /\ Raw(pk.v) \notin {NONE, WRONG}
  <2>1. Given(pk) /\ (pk = d.pubkey \/ pk = d.pubKey)
    BY <1>2, <1>3 DEF SignatureLoads, PubkeyLoads, OrElse
  <2>2. QED
    BY <1>values, <2>1
<1>7. /\ Given(d.signature) => d.signature.v # NONE /\ Raw(d.signature.v) \notin {NONE, WRONG}
      /\ Given(d.pubkey_ed25519) =>
            d.pubkey_ed25519.v # NONE /\ Raw(d.pubkey_ed25519.v) \notin {NONE, WRONG}
      /\ Given(d.subkey) => d.subkey.v # NONE /\ Raw(d.subkey.v) \notin {NONE, WRONG}
  BY <1>values
<1>8. data # NONE /\ data # TOO_LONG /\ Raw(data) \notin {NONE, WRONG}
  BY <1>3, <1>values DEF Given
<1>9. d.timestamp \in Int /\ expiry \in Int
  <2>1. d.timestamp \in Int
    BY <1>1, <1>3, <1>5, FieldValue DEF TimeFields
  <2>2. CASE Given(d.expiry)
    <3>1. d.expiry \in Int
      BY <1>1, <1>3, <1>5, <2>2, FieldValue DEF TimeFields
    <3>2. QED
      BY <2>1, <2>2, <3>1
  <2>3. CASE ~Given(d.expiry)
    <3>1. Given(d.ttl)
      BY <1>3, <2>3 DEF ExactlyOneOf, Given
    <3>2. d.ttl \in Int
      BY <1>1, <1>3, <1>5, <3>1, FieldValue DEF TimeFields
    <3>3. expiry = d.timestamp + d.ttl
      BY <2>3
    <3>4. QED
      BY <2>1, <3>2, <3>3, SMT
  <2>4. QED
    BY <2>2, <2>3
<1>10. NONE \notin Int /\ WRONG \notin Int
  BY ForwardingAssumption
<1> HIDE DEF expiry, data
<1>11. PICK b : b = StoreToBt(r)
  OBVIOUS
<1>12. /\ DOMAIN b = {"pubkey", "pubKey", "timestamp", "expiry", "ttl", "namespace", "data",
                      "signature", "pubkey_ed25519", "subkey", "sig_timestamp"}
       /\ b.pubkey = Raw(pk.v) /\ b.pubKey = NONE
       /\ b.timestamp = d.timestamp /\ b.expiry = expiry /\ b.ttl = NONE
       /\ b.namespace = IF ns = Default THEN NONE ELSE ns
       /\ b.data = Raw(data) /\ b.signature = Raw(Bytes(d.signature))
       /\ b.pubkey_ed25519 = Raw(ed) /\ b.subkey = Raw(subkey) /\ b.sig_timestamp = NONE
  <2> HIDE DEF ns, ed, subkey, sig_ts
  <2>1. /\ r.pubkey = pk.v /\ r.timestamp = d.timestamp /\ r.expiry = expiry
        /\ r.msg_namespace = ns /\ r.data = data /\ r.signature = Bytes(d.signature)
        /\ r.pubkey_ed25519 = ed /\ r.subkey = subkey
    BY <1>4, SMT
  <2>2. b = [pubkey |-> Raw(pk.v), pubKey |-> NONE, timestamp |-> d.timestamp, expiry |-> expiry,
             ttl |-> NONE, namespace |-> IF ns = Default THEN NONE ELSE ns, data |-> Raw(data),
             signature |-> Raw(Bytes(d.signature)), pubkey_ed25519 |-> Raw(ed),
             subkey |-> Raw(subkey), sig_timestamp |-> NONE]
    BY <1>11, <2>1 DEF StoreToBt
  <2>3. QED
    BY <2>2, SMT
<1>13. Given(b.signature) <=> signed
  BY <1>7, <1>12 DEF Bytes, Raw, Given
<1>14. FieldsLoad("bt", b, types)
  <2>1. b.pubkey # WRONG /\ b.timestamp # WRONG /\ b.expiry # WRONG /\ b.data # WRONG
    BY <1>6, <1>8, <1>9, <1>10, <1>12
  <2>2. /\ Given(b.signature) => b.signature # WRONG
        /\ Given(b.pubkey_ed25519) => b.pubkey_ed25519 # WRONG
        /\ Given(b.subkey) => b.subkey # WRONG
    BY <1>7, <1>12 DEF Bytes, Raw, Given
  <2>3. Given(b.namespace) => /\ b.namespace # WRONG /\ b.namespace # ALL
                              /\ b.namespace \in NAMESPACE_MIN .. NAMESPACE_MAX
    <3>1. CASE Given(d.namespace)
      <4>1. "namespace" \in DOMAIN d
        BY <1>1, <1>5 DEF WellFormed
      <4>2. RightType(q.fmt, "namespace", d.namespace)
        BY <1>3, <3>1, <4>1 DEF FieldsLoad
      <4>3. QED
        BY <1>12, <3>1, <4>2 DEF RightType, OrElse, Given
    <3>2. CASE ~Given(d.namespace)
      BY <1>12, <3>2 DEF OrElse, Given
    <3>3. QED
      BY <3>1, <3>2
  <2>4. ASSUME NEW f \in DOMAIN b, Given(b[f])
        PROVE  RightType("bt", IF f \in DOMAIN types THEN types[f] ELSE "other", b[f])
    <3>1. CASE f = "namespace"
      BY <2>3, <2>4, <3>1 DEF RightType
    <3>2. CASE f # "namespace"
      <4>1. b[f] # WRONG
        BY <1>12, <2>1, <2>2, <2>4, <3>2 DEF Given
      <4>2. QED
        BY <3>2, <4>1, SMT DEF RightType
    <3>3. QED
      BY <3>1, <3>2
  <2>5. QED
    BY <2>4 DEF FieldsLoad
<1>15. IF Given(b.signature) THEN /\ SignatureLoads("bt", b.pubkey, b.pubkey_ed25519, b.signature)
                                  /\ SubkeyLoads("bt", b.subkey)
       ELSE PubkeyLoads(b.pubkey)
  <2>1. CASE signed
    <3>1. SignatureLoads("bt", Raw(pk.v), Raw(Bytes(d.pubkey_ed25519)), Raw(d.signature.v))
      BY <1>3, <1>6, <1>7, <2>1, SignatureRoundTrip
    <3>2. SignatureLoads("bt", b.pubkey, b.pubkey_ed25519, b.signature)
      BY <1>12, <2>1, <3>1 DEF Bytes
    <3>3. SubkeyLoads("bt", b.subkey)
      BY <1>7, <1>12, <2>1, SMT DEF SubkeyLoads, Bytes, Raw, Given
    <3>4. QED
      BY <1>13, <2>1, <3>2, <3>3
  <2>2. CASE ~signed
    <3>1. PubkeyLoads(b.pubkey)
      BY <1>6, <1>12, SMT DEF PubkeyLoads, Raw, Given
    <3>2. QED
      BY <1>13, <2>2, <3>1
  <2>3. QED
    BY <2>1, <2>2
<1>16. /\ Given(b.timestamp) /\ Given(b.expiry) /\ ~Given(b.ttl) /\ ~Given(b.pubKey)
       /\ Given(b.pubkey) /\ b.pubkey.v = pk.v
       /\ Given(b.data) /\ b.data.v = data /\ b.data.enc = "raw"
  BY <1>6, <1>8, <1>9, <1>10, <1>12, SMT DEF Raw, Given
<1>17. OrElse(b.pubkey, b.pubKey) = b.pubkey
  BY <1>16 DEF OrElse
<1>18. LoadStore("bt", b) =
           [pubkey |-> b.pubkey.v, timestamp |-> b.timestamp, expiry |-> b.expiry,
            msg_namespace |-> OrElse(b.namespace, Default), data |-> b.data.v,
            signature |-> Bytes(b.signature),
            pubkey_ed25519 |-> IF Given(b.signature) THEN Bytes(b.pubkey_ed25519) ELSE NONE,
            subkey |-> IF Given(b.signature) THEN Bytes(b.subkey) ELSE NONE,
            sig_ts |-> IF Given(b.signature) THEN OrElse(b.sig_timestamp, b.timestamp) ELSE NONE]
  BY <1>8, <1>14, <1>15, <1>16, <1>17 DEF LoadStore, ExactlyOneOf
<1>19. OrElse(b.namespace, Default) = ns
  BY <1>12 DEF OrElse, Given
<1>20. Bytes(b.signature) = Bytes(d.signature)
  <2>1. Given(Bytes(d.signature)) => Raw(Bytes(d.signature)) # NONE
    BY <1>7 DEF Bytes, Given
  <2>2. QED
    BY <1>12, <2>1, RawBytes
<1>21. (IF Given(b.signature) THEN Bytes(b.pubkey_ed25519) ELSE NONE) = ed
  BY <1>7, <1>12, <1>13, RawBytes, SMT DEF Bytes
<1>22. (IF Given(b.signature) THEN Bytes(b.subkey) ELSE NONE) = subkey
  BY <1>7, <1>12, <1>13, RawBytes, SMT DEF Bytes
<1>23. Given(sig_ts) <=> signed
  <2>1. Given(d.sig_timestamp) => d.sig_timestamp \in Int
    BY <1>1, <1>3, <1>5, FieldValue DEF TimeFields
  <2>2. signed => sig_ts \in Int
    BY <1>9, <2>1 DEF OrElse
  <2>3. QED
    BY <1>10, <2>2 DEF Given
<1> DEFINE read == IF Given(sig_ts) THEN d.timestamp ELSE sig_ts
<1>24. (IF Given(b.signature) THEN OrElse(b.sig_timestamp, b.timestamp) ELSE NONE) = read
  <2>1. OrElse(b.sig_timestamp, b.timestamp) = d.timestamp
    BY <1>12 DEF OrElse, Given
  <2>2. ~signed => sig_ts = NONE
    OBVIOUS
  <2>3. QED
    BY <1>13, <1>23, <2>1, <2>2
<1> HIDE DEF ns, ed, subkey, sig_ts, read
<1>25. p = [pubkey |-> pk.v, timestamp |-> d.timestamp, expiry |-> expiry, msg_namespace |-> ns,
            data |-> data, signature |-> Bytes(d.signature), pubkey_ed25519 |-> ed,
            subkey |-> subkey, sig_ts |-> read]
  BY <1>11, <1>12, <1>16, <1>18, <1>19, <1>20, <1>21, <1>22, <1>24
<1>26. /\ r.sig_ts = sig_ts /\ r.timestamp = d.timestamp /\ r.expiry = expiry
       /\ r.msg_namespace = ns
       /\ p.timestamp = d.timestamp /\ p.expiry = expiry /\ p.msg_namespace = ns
  BY <1>4, <1>25, SMT
<1>27. ASSUME NEW f \in DOMAIN r
       PROVE  p[f] = IF f = "sig_ts" /\ Given(r.sig_ts) THEN r.timestamp ELSE r[f]
  <2>1. f \in {"pubkey", "timestamp", "expiry", "msg_namespace", "data", "signature",
               "pubkey_ed25519", "subkey", "sig_ts"}
    BY <1>4
  <2>2. CASE f = "sig_ts"
    <3>1. p.sig_ts = read
      BY <1>25, SMT
    <3>2. QED
      BY <1>26, <2>2, <3>1 DEF read
  <2>3. CASE f # "sig_ts"
    <3>1. p[f] = r[f]
      BY <1>4, <1>25, <2>1, <2>3, SMT
    <3>2. QED
      BY <2>3, <3>1
  <2>4. QED
    BY <2>2, <2>3
<1>28. ASSUME Given(r.sig_ts) => r.sig_ts = r.timestamp
       PROVE  p = r
  <2>1. read = sig_ts
    BY <1>26, <1>28 DEF read
  <2>2. QED
    BY <1>4, <1>25, <2>1
<1>29. p # PARSE_ERROR
  <2>1. "pubkey" \in DOMAIN p /\ "pubkey" \notin DOMAIN PARSE_ERROR
    BY <1>25, SMT DEF PARSE_ERROR
  <2>2. QED
    BY <2>1
<1>30. QED
  BY <1>26, <1>27, <1>28, <1>29

\* Whatever a request that is forwarded was loaded from, a peer reads it again from to_bt.
LEMMA RoundTrip ==
    ASSUME NEW q, WellFormed(q), q.method \in Recursive,
           NEW r, r = Load(q.method, q.fmt, q.params), r # PARSE_ERROR,
           NEW p, p = Load(q.method, "bt", ToBt(q.method, r))
    PROVE  /\ p # PARSE_ERROR
           /\ \A f \in DOMAIN r \ {"required"} :
                 p[f] = IF q.method = "store" /\ f = "sig_ts" /\ Given(r.sig_ts)
                        THEN r.timestamp ELSE r[f]
           /\ q.method \notin {"delete", "store"} => p = r
           /\ q.method = "store" => /\ p.timestamp = r.timestamp /\ p.expiry = r.expiry
                                    /\ p.msg_namespace = r.msg_namespace
                                    /\ (Given(r.sig_ts) => r.sig_ts = r.timestamp) => p = r
<1>1. CASE q.method = "store"
  <2>1. r = LoadStore(q.fmt, q.params) /\ p = LoadStore("bt", StoreToBt(r))
    BY <1>1 DEF Load, ToBt, NamespaceActions
  <2>2. /\ p # PARSE_ERROR
        /\ \A f \in DOMAIN r :
              p[f] = IF f = "sig_ts" /\ Given(r.sig_ts) THEN r.timestamp ELSE r[f]
        /\ (Given(r.sig_ts) => r.sig_ts = r.timestamp) => p = r
        /\ p.timestamp = r.timestamp /\ p.expiry = r.expiry
        /\ p.msg_namespace = r.msg_namespace
    BY <1>1, <2>1, StoreRoundTrip
  <2>3. QED
    BY <1>1, <2>2
<1>2. CASE q.method = "delete"
  <2>1. r = LoadDeleteMsgs(q.fmt, q.params) /\ p = LoadDeleteMsgs("bt", DeleteMsgsToBt(r))
    BY <1>2 DEF Load, ToBt, NamespaceActions
  <2>2. QED
    BY <1>2, <2>1, DeleteRoundTrip
<1>3. CASE q.method = "revoke_subkey"
  <2>1. r = LoadRevokeSubkey(q.fmt, q.params) /\ p = LoadRevokeSubkey("bt", RevokeSubkeyToBt(r))
    BY <1>3 DEF Load, ToBt, NamespaceActions
  <2>2. p = r
    BY <1>3, <2>1, RevokeRoundTrip
  <2>3. QED
    BY <1>3, <2>2
<1>4. CASE q.method = "expire"
  <2>1. r = LoadExpireMsgs(q.fmt, q.params) /\ p = LoadExpireMsgs("bt", ExpireMsgsToBt(r))
    BY <1>4 DEF Load, ToBt, NamespaceActions
  <2>2. p = r
    BY <1>4, <2>1, ExpireRoundTrip
  <2>3. QED
    BY <1>4, <2>2
<1>5. CASE q.method \in NamespaceActions
  <2>1. /\ r = LoadNamespaceAction(q.fmt, q.params)
        /\ p = LoadNamespaceAction("bt", NamespaceActionToBt(r))
    BY <1>5 DEF Load, ToBt, NamespaceActions
  <2>2. p = r
    BY <1>5, <2>1, NamespaceActionRoundTrip
  <2>3. QED
    BY <1>5, <2>2 DEF NamespaceActions
<1>6. QED
  BY <1>1, <1>2, <1>3, <1>4, <1>5 DEF Recursive

-----------------------------------------------------------------------------
(***************************************************************************)
(* What the entry node accepts, the peer accepts.                          *)
(***************************************************************************)

\* The times of a request that has been loaded are numbers.
LEMMA LoadedTimes ==
    ASSUME NEW q, WellFormed(q), NEW r, r = Load(q.method, q.fmt, q.params), r # PARSE_ERROR
    PROVE  /\ q.method = "store" => /\ r.timestamp \in Int /\ r.expiry \in Int
                                    /\ Given(r.signature) => r.sig_ts \in Int
           /\ q.method = "expire" => r.expiry \in Int
           /\ q.method \in NamespaceActions => r.time \in Int
<1>1. PICK d : d = q.params
  OBVIOUS
<1>2. CASE q.method = "store"
  <2> DEFINE types == [expiry |-> "time", sig_timestamp |-> "time", namespace |-> "namespace"]
             expiry == IF Given(d.expiry) THEN d.expiry ELSE d.timestamp + d.ttl
  <2>1. r = LoadStore(q.fmt, d)
    BY <1>1, <1>2 DEF Load, NamespaceActions
  <2>2. /\ FieldsLoad(q.fmt, d, types) /\ Given(d.timestamp) /\ ExactlyOneOf(d.expiry, d.ttl)
        /\ r.timestamp = d.timestamp /\ r.expiry = expiry /\ r.signature = Bytes(d.signature)
        /\ r.sig_ts = IF Given(d.signature) THEN OrElse(d.sig_timestamp, d.timestamp) ELSE NONE
    <3>1. FieldsLoad(q.fmt, d, types) /\ Given(d.timestamp) /\ ExactlyOneOf(d.expiry, d.ttl)
      BY <2>1 DEF LoadStore
    <3> DEFINE ns == OrElse(d.namespace, Default)
               data == IF q.fmt = "json" \/ d.data.enc = "raw" THEN d.data.v ELSE d.data
               ed == IF Given(d.signature) THEN Bytes(d.pubkey_ed25519) ELSE NONE
               subkey == IF Given(d.signature) THEN Bytes(d.subkey) ELSE NONE
               sig_ts == IF Given(d.signature) THEN OrElse(d.sig_timestamp, d.timestamp) ELSE NONE
    <3>2. r = [pubkey |-> OrElse(d.pubkey, d.pubKey).v, timestamp |-> d.timestamp,
               expiry |-> expiry, msg_namespace |-> ns, data |-> data,
               signature |-> Bytes(d.signature), pubkey_ed25519 |-> ed, subkey |-> subkey,
               sig_ts |-> sig_ts]
      BY <2>1 DEF LoadStore
    <3> HIDE DEF expiry, ns, data, ed, subkey, sig_ts
    <3>3. /\ r.timestamp = d.timestamp /\ r.expiry = expiry
          /\ r.signature = Bytes(d.signature) /\ r.sig_ts = sig_ts
      BY <3>2, SMT
    <3>4. QED
      BY <3>1, <3>3 DEF expiry, sig_ts
  <2>3. {"timestamp", "expiry", "ttl", "sig_timestamp"} \subseteq FieldNames(q.method)
    BY <1>2 DEF FieldNames, NamespaceActions
  <2>4. /\ d.timestamp \in Int
        /\ Given(d.expiry) => d.expiry \in Int
        /\ Given(d.ttl) => d.ttl \in Int
        /\ Given(d.sig_timestamp) => d.sig_timestamp \in Int
    BY <1>1, <2>2, <2>3, FieldValue DEF TimeFields
  <2>5. CASE Given(d.expiry)
    BY <1>2, <2>2, <2>4, <2>5 DEF Bytes, OrElse, Given, NamespaceActions
  <2>6. CASE ~Given(d.expiry)
    <3>1. d.ttl \in Int /\ expiry = d.timestamp + d.ttl
      BY <2>2, <2>4, <2>6 DEF ExactlyOneOf, Given
    <3>2. r.expiry \in Int
      BY <2>2, <2>4, <3>1, SMT
    <3>3. QED
      BY <1>2, <2>2, <2>4, <3>2 DEF Bytes, OrElse, Given, NamespaceActions
  <2>7. QED
    BY <2>5, <2>6
<1>3. CASE q.method = "expire"
  <2>1. r = LoadExpireMsgs(q.fmt, d)
    BY <1>1, <1>3 DEF Load, NamespaceActions
  <2>2. /\ FieldsLoad(q.fmt, d, [expiry |-> "time"]) /\ Given(d.expiry)
        /\ r = [pubkey |-> d.pubkey.v, signature |-> d.signature.v,
                pubkey_ed25519 |-> Bytes(d.pubkey_ed25519), subkey |-> Bytes(d.subkey),
                expiry |-> d.expiry, messages |-> d.messages,
                shorten |-> OrElse(d.shorten, FALSE), extend |-> OrElse(d.extend, FALSE)]
    BY <2>1 DEF LoadExpireMsgs
  <2>3. "expiry" \in FieldNames(q.method)
    BY <1>3 DEF FieldNames, NamespaceActions
  <2>4. d.expiry \in Int
    BY <1>1, <2>2, <2>3, FieldValue DEF TimeFields
  <2>5. QED
    BY <1>3, <2>2, <2>4, SMT DEF NamespaceActions
<1>4. CASE q.method \in NamespaceActions
  <2>1. r = LoadNamespaceAction(q.fmt, d)
    BY <1>1, <1>4 DEF Load, NamespaceActions
  <2>2. /\ FieldsLoad(q.fmt, d, [namespace |-> "namespace_var", time |-> "time"]) /\ Given(d.time)
        /\ r.time = d.time
    BY <2>1, SMT DEF LoadNamespaceAction
  <2>3. "time" \in FieldNames(q.method)
    BY <1>4 DEF FieldNames, NamespaceActions
  <2>4. d.time \in Int
    BY <1>1, <2>2, <2>3, FieldValue DEF TimeFields
  <2>5. QED
    BY <1>4, <2>2, <2>4 DEF NamespaceActions
<1>5. QED
  BY <1>2, <1>3, <1>4

\* The numbers among the constants.
LEMMA Numbers ==
    /\ NOW \in Nat /\ PeerTimes \subseteq Int /\ STORE_TOLERANCE \in Nat
    /\ TTL_MINIMUM \in Nat /\ TTL_MAXIMUM \in Nat /\ TTL_MAXIMUM_PRIVATE \in Nat
    /\ SIGNATURE_TOLERANCE \in Nat /\ SIGNATURE_TOLERANCE_FORWARDED \in Nat
    /\ SIGNATURE_TOLERANCE_FORWARDED >= SIGNATURE_TOLERANCE
    /\ TTL_MAXIMUM_PRIVATE >= TTL_MAXIMUM
BY ForwardingAssumption

\* What is checked against some revoked subkeys passes with none, and again with others, unless
\* they have the one that it is signed with.
LEMMA VerifiesAgain ==
    ASSUME NEW method, NEW r, NEW X, NEW Y, VerifySignature(method, r, X), r.subkey \notin Y
    PROVE  VerifySignature(method, r, Y)
BY DEF VerifySignature

\* store: the peer reads the same message, and the same signature when that is looked at.
LEMMA StoreAgain ==
    ASSUME NEW r, NEW p, p.timestamp = r.timestamp, p.expiry = r.expiry,
           p.msg_namespace = r.msg_namespace,
           ~IsPublicNamespace(r.msg_namespace) => p = r,
           r.timestamp \in Int, r.expiry \in Int,
           NEW t \in Int, NEW g \in BOOLEAN, NEW h \in BOOLEAN,
           NEW v \in BOOLEAN, NEW w \in BOOLEAN, ~IsPublicNamespace(r.msg_namespace) /\ v => w,
           CheckStore(r, NOW, g, v) = "200",
           r.expiry - r.timestamp > TTL_MAXIMUM => h,
           r.timestamp <= t + STORE_TOLERANCE, r.expiry >= t - STORE_TOLERANCE,
           ~IsPublicNamespace(r.msg_namespace) => Within(r.sig_ts, t, SIGNATURE_TOLERANCE)
    PROVE  CheckStore(p, t, h, w) = "200"
<1> DEFINE ttl == r.expiry - r.timestamp
           public == IsPublicNamespace(r.msg_namespace)
           max_ttl == IF ~public /\ g THEN TTL_MAXIMUM_PRIVATE ELSE TTL_MAXIMUM
           max_there == IF ~public /\ h THEN TTL_MAXIMUM_PRIVATE ELSE TTL_MAXIMUM
<1>1. /\ ~(ttl < TTL_MINIMUM \/ ttl > max_ttl)
      /\ public \/ (Given(r.signature) /\ v)
  BY DEF CheckStore
<1>2. ~(ttl < TTL_MINIMUM \/ ttl > max_there)
  <2>1. ttl \in Int
    BY SMT
  <2>2. ttl > TTL_MAXIMUM => h
    OBVIOUS
  <2> HIDE DEF ttl, public
  <2>3. CASE ttl > TTL_MAXIMUM
    <3>1. ~public /\ g /\ h
      BY <1>1, <2>2, <2>3
    <3>2. max_ttl = max_there
      BY <3>1
    <3>3. QED
      BY <1>1, <3>2
  <2>4. CASE ~(ttl > TTL_MAXIMUM)
    <3>1. max_there \in {TTL_MAXIMUM_PRIVATE, TTL_MAXIMUM}
      OBVIOUS
    <3> HIDE DEF max_there
    <3>2. ~(ttl > max_there)
      BY <2>1, <2>4, <3>1, Numbers, SMT
    <3>3. QED
      BY <1>1, <3>2
  <2>5. QED
    BY <2>3, <2>4
<1>3. ~(r.timestamp > t + STORE_TOLERANCE \/ r.expiry < t - STORE_TOLERANCE)
  BY Numbers, SMT
<1>4. ~public => /\ Given(p.signature) /\ Within(p.sig_ts, t, SIGNATURE_TOLERANCE) /\ w
  BY <1>1
<1>5. QED
  BY <1>2, <1>3, <1>4 DEF CheckStore

\* expire
LEMMA ExpireAgain ==
    ASSUME NEW r, r.expiry \in Int, NEW t \in Int, NEW g, NEW h, NEW v \in BOOLEAN,
           NEW w \in BOOLEAN, v => w,
           CheckExpireMsgs(r, NOW, g, v) = "200",
           r.shorten \/ r.extend => h,
           r.expiry >= t - ONE_MINUTE
    PROVE  CheckExpireMsgs(r, t, h, w) = "200"
<1>1. ~(r.expiry < t - ONE_MINUTE)
  BY Numbers, SMT DEF ONE_MINUTE
<1>2. ~(r.shorten /\ Given(r.subkey)) /\ v
  BY DEF CheckExpireMsgs
<1>3. QED
  BY <1>1, <1>2 DEF CheckExpireMsgs

\* delete_all and expire_all, for which a peer allows SIGNATURE_TOLERANCE_FORWARDED, and
\* delete_before, when it is not too early there.
LEMMA TimeAllowedAgain ==
    ASSUME NEW method \in Recursive \ {"store", "expire"}, NEW r,
           method \in NamespaceActions => r.time \in Int,
           NEW t \in Int, Within(t, NOW, SIGNATURE_TOLERANCE_FORWARDED - SIGNATURE_TOLERANCE),
           method = "delete_before" => r.time <= t + ONE_MINUTE,
           TimeAllowed(method, r, NOW, TRUE)
    PROVE  TimeAllowed(method, r, t, FALSE)
<1>1. CASE method = "delete_all"
  <2>1. r.time \in Int /\ Within(r.time, NOW, SIGNATURE_TOLERANCE)
    BY <1>1 DEF TimeAllowed, Tolerance, NamespaceActions
  <2>2. Within(r.time, t, SIGNATURE_TOLERANCE_FORWARDED)
    BY <2>1, Numbers, SMT DEF Within
  <2>3. QED
    BY <1>1, <2>2 DEF TimeAllowed, Tolerance
<1>2. CASE method = "delete_before"
  BY <1>2 DEF TimeAllowed
<1>3. CASE method = "expire_all"
  <2>1. r.time \in Int /\ r.time >= NOW - SIGNATURE_TOLERANCE
    BY <1>3 DEF TimeAllowed, Tolerance, NamespaceActions
  <2>2. r.time >= t - SIGNATURE_TOLERANCE_FORWARDED
    BY <2>1, Numbers, SMT DEF Within
  <2>3. QED
    BY <1>3, <2>1, <2>2, Numbers, SMT DEF TimeAllowed, Tolerance
<1>4. CASE method \in {"delete", "revoke_subkey"}
  BY <1>4 DEF TimeAllowed
<1>5. QED
  BY <1>1, <1>2, <1>3, <1>4 DEF Recursive, NamespaceActions

\* Every status is one of those that a node answers with.
LEMMA Statuses ==
    ASSUME NEW r, NEW for_us \in BOOLEAN, NEW now, NEW past_hf, NEW recurse, NEW X
    PROVE  Processed(r, for_us, now, past_hf, recurse, X) # NONE
<1>1. Check(request.method, r, now, past_hf, recurse, X)
          \in {"200", "400", "401", "403", "406", "406 or 401"}
  BY DEF Check, CheckStore, CheckRetrieve, CheckExpireMsgs
<1>2. Processed(r, for_us, now, past_hf, recurse, X)
          \in {"200", "400", "401", "403", "406", "406 or 401", "421"}
  BY <1>1 DEF Processed
<1>3. QED
  BY <1>2, ForwardingAssumption

\* What a delete has been loaded to.
LEMMA DeleteFields ==
    ASSUME NEW fmt, NEW d, NEW r, r = Load("delete", fmt, d), r # PARSE_ERROR
    PROVE  {"pubkey", "pubkey_ed25519", "signature", "subkey", "messages"}
              \subseteq DOMAIN r \ {"required"}
<1>1. r = LoadDeleteMsgs(fmt, d)
  BY DEF Load, NamespaceActions
<1>2. r = [pubkey |-> d.pubkey.v, signature |-> d.signature.v, messages |-> d.messages,
           pubkey_ed25519 |-> Bytes(d.pubkey_ed25519), subkey |-> NONE,
           required |-> OrElse(d.required, FALSE)]
  BY <1>1 DEF LoadDeleteMsgs
<1>3. DOMAIN r = {"pubkey", "signature", "messages", "pubkey_ed25519", "subkey", "required"}
  BY <1>2
<1>4. QED
  BY <1>3

\* The step in which the entry node takes the request.
LEMMA EntryKeepsForwardInv ==
    ASSUME ForwardInv, ProcessAtEntry
    PROVE  ForwardInv'
<1>1. /\ request' = request /\ hf' = hf /\ peer_now' = peer_now
      /\ peer' = peer /\ peer_status' = peer_status
      /\ status = NONE /\ entry' = Load(request.method, request.fmt, request.params)
  BY DEF ProcessAtEntry
<1>2. PICK for_us \in BOOLEAN :
          status' = Processed(entry', for_us, NOW, hf.entry, TRUE, revoked.entry)
  BY DEF ProcessAtEntry
<1>3. peer_status = NONE /\ peer = NONE
  BY <1>1, ForwardingAssumption DEF ForwardInv
<1>4. ASSUME status' = "200"
      PROVE  /\ entry' # PARSE_ERROR
             /\ Check(request.method, entry', NOW, hf.entry, TRUE, {}) = "200"
  <2>1. PICK r : r = entry'
    OBVIOUS
  <2> DEFINE v == VerifySignature(request.method, r, revoked.entry)
             w == VerifySignature(request.method, r, {})
  <2>2. r # PARSE_ERROR /\ Check(request.method, r, NOW, hf.entry, TRUE, revoked.entry) = "200"
    BY <1>2, <1>4, <2>1 DEF Processed
  <2>3. v => w
    BY VerifiesAgain
  <2> HIDE DEF v, w
  <2>4. Check(request.method, r, NOW, hf.entry, TRUE, {}) = "200"
    BY <2>2, <2>3 DEF Check, CheckStore, CheckRetrieve, CheckExpireMsgs, v, w
  <2>5. QED
    BY <2>1, <2>2, <2>4
<1>5. (Check(request.method, entry, NOW, hf.entry, TRUE, {}))'
          = Check(request.method, entry', NOW, hf.entry, TRUE, {})
  BY <1>1 DEF Check, CheckStore, CheckRetrieve, CheckExpireMsgs
<1>6. PeerReadsTheSame' /\ PeerAccepts'
  BY <1>1, <1>3 DEF PeerReadsTheSame, PeerAccepts
<1>7. QED
  BY <1>1, <1>3, <1>4, <1>5, <1>6 DEF ForwardInv

\* The step in which a peer takes it.
LEMMA PeerKeepsForwardInv ==
    ASSUME ForwardInv, ProcessAtPeer
    PROVE  ForwardInv'
<1>1. /\ request' = request /\ hf' = hf /\ revoked' = revoked
      /\ entry' = entry /\ status' = status /\ peer_now' \in PeerTimes
      /\ status = "200" /\ request.method \in Recursive /\ peer_status = NONE
      /\ peer' = Load(request.method, "bt", ToBt(request.method, entry))
  BY DEF ProcessAtPeer, Forwarded
<1>2. PICK for_us \in BOOLEAN :
          peer_status' = Processed(peer', for_us, peer_now', hf.peer, FALSE, revoked.peer)
  BY DEF ProcessAtPeer
<1>3. /\ WellFormed(request) /\ hf \in [{"entry", "peer"} -> BOOLEAN]
      /\ entry = Load(request.method, request.fmt, request.params) /\ entry # PARSE_ERROR
      /\ Check(request.method, entry, NOW, hf.entry, TRUE, {}) = "200"
  BY <1>1 DEF ForwardInv
<1>4. PICK p, t : p = peer' /\ t = peer_now'
  OBVIOUS
<1>5. /\ p # PARSE_ERROR
      /\ \A f \in DOMAIN entry \ {"required"} :
            p[f] = IF request.method = "store" /\ f = "sig_ts" /\ Given(entry.sig_ts)
                   THEN entry.timestamp ELSE entry[f]
      /\ request.method \notin {"delete", "store"} => p = entry
      /\ request.method = "store" => /\ p.timestamp = entry.timestamp /\ p.expiry = entry.expiry
                                     /\ p.msg_namespace = entry.msg_namespace
                                     /\ (Given(entry.sig_ts) => entry.sig_ts = entry.timestamp)
                                           => p = entry
  <2>1. p = Load(request.method, "bt", ToBt(request.method, entry))
    BY <1>1, <1>4
  <2>2. QED
    BY <1>1, <1>3, <2>1, RoundTrip, SMT
<1>6. PeerReadsTheSame'
  BY <1>1, <1>4, <1>5 DEF PeerReadsTheSame
<1>7. PeerAccepts'
  <2>1. SUFFICES ASSUME peer_status' # "421", ClocksAgree', entry.subkey \notin revoked.peer,
                        NeedsHardfork => hf.peer, InTimeAtPeer', ~SignedSeparately
                 PROVE  peer_status' = "200"
    <3>1. (SignedSeparately' <=> SignedSeparately) /\ (NeedsHardfork' <=> NeedsHardfork)
      BY <1>1 DEF SignedSeparately, NeedsHardfork
    <3>2. QED
      BY <1>1, <3>1 DEF PeerAccepts
  <2>2. peer_status' = Check(request.method, p, t, hf.peer, FALSE, revoked.peer)
    BY <1>2, <1>4, <1>5, <2>1 DEF Processed
  <2>3. PICK m, r, g, h, Y : /\ m = request.method /\ r = entry /\ Y = revoked.peer
                             /\ g = hf.entry /\ h = hf.peer
    OBVIOUS
  <2>4. /\ m = "store" => /\ r.timestamp \in Int /\ r.expiry \in Int
                          /\ Given(r.signature) => r.sig_ts \in Int
        /\ m = "expire" => r.expiry \in Int
        /\ m \in NamespaceActions => r.time \in Int
    BY <1>3, <2>3, LoadedTimes
  <2>5. /\ m \in Recursive /\ t \in Int /\ r.subkey \notin Y
        /\ g \in BOOLEAN /\ h \in BOOLEAN
        /\ Within(t, NOW, SIGNATURE_TOLERANCE_FORWARDED - SIGNATURE_TOLERANCE)
        /\ Check(m, r, NOW, g, TRUE, {}) = "200"
    BY <1>1, <1>3, <1>4, <2>1, <2>3, Numbers DEF ClocksAgree
  <2>6. Check(m, p, t, h, FALSE, Y) = "200"
    <3>1. CASE m = "store"
      <4>1. /\ r.timestamp <= t + STORE_TOLERANCE /\ r.expiry >= t - STORE_TOLERANCE
            /\ ~IsPublicNamespace(r.msg_namespace) => Within(r.sig_ts, t, SIGNATURE_TOLERANCE)
            /\ r.expiry - r.timestamp > TTL_MAXIMUM => h
        BY <1>1, <1>4, <2>1, <2>3, <3>1 DEF InTimeAtPeer, NeedsHardfork
      <4>2. ~IsPublicNamespace(r.msg_namespace) => p = r
        BY <1>5, <2>1, <2>3, <3>1 DEF SignedSeparately
      <4>3. PICK v, w : v = VerifySignature(m, r, {}) /\ w = VerifySignature(m, p, Y)
        OBVIOUS
      <4>4. v \in BOOLEAN /\ w \in BOOLEAN
        BY <4>3 DEF VerifySignature
      <4>5. ~IsPublicNamespace(r.msg_namespace) /\ v => w
        BY <2>5, <4>2, <4>3, VerifiesAgain
      <4>6. CheckStore(r, NOW, g, v) = "200"
        BY <2>5, <3>1, <4>3 DEF Check
      <4>7. /\ p.timestamp = r.timestamp /\ p.expiry = r.expiry
            /\ p.msg_namespace = r.msg_namespace
        BY <1>5, <2>3, <3>1
      <4>8. CheckStore(p, t, h, w) = "200"
        <5>1. r.timestamp \in Int /\ r.expiry \in Int
          BY <2>4, <3>1
        <5>2. QED
          BY <2>5, <4>1, <4>2, <4>4, <4>5, <4>6, <4>7, <5>1, StoreAgain, SMT
      <4>9. QED
        BY <3>1, <4>3, <4>8 DEF Check
    <3>2. CASE m = "expire"
      <4>1. /\ r.expiry \in Int /\ r.expiry >= t - ONE_MINUTE
            /\ r.shorten \/ r.extend => h
        BY <1>1, <1>4, <2>1, <2>3, <2>4, <3>2 DEF InTimeAtPeer, NeedsHardfork
      <4>2. p = r
        BY <1>5, <2>3, <3>2
      <4>3. PICK v, w : v = VerifySignature(m, r, {}) /\ w = VerifySignature(m, r, Y)
        OBVIOUS
      <4>4. v \in BOOLEAN /\ w \in BOOLEAN
        BY <4>3 DEF VerifySignature
      <4>5. v => w
        BY <2>5, <4>3, VerifiesAgain
      <4>6. CheckExpireMsgs(r, NOW, g, v) = "200"
        BY <2>5, <3>2, <4>3 DEF Check
      <4>7. CheckExpireMsgs(r, t, h, w) = "200"
        BY <2>5, <4>1, <4>4, <4>5, <4>6, ExpireAgain
      <4>8. QED
        BY <3>2, <4>2, <4>3, <4>7 DEF Check
    <3>3. CASE m \notin {"store", "expire"}
      <4>1. m # "retrieve" /\ m \in Recursive \ {"store", "expire"}
        BY <2>5, <3>3 DEF Recursive, NamespaceActions
      <4>2. TimeAllowed(m, r, NOW, TRUE) /\ VerifySignature(m, r, {})
        BY <2>5, <3>3, <4>1 DEF Check
      <4>3. m = "delete_before" => r.time <= t + ONE_MINUTE
        BY <1>1, <1>4, <2>1, <2>3 DEF InTimeAtPeer
      <4>4. TimeAllowed(m, r, t, FALSE)
        BY <2>4, <2>5, <4>1, <4>2, <4>3, TimeAllowedAgain
      <4>5. VerifySignature(m, r, Y)
        BY <2>5, <4>2, VerifiesAgain
      <4>6. CASE m = "delete"
        <5>1. \A f \in {"pubkey", "pubkey_ed25519", "signature", "subkey", "messages"} :
                 f \in DOMAIN entry \ {"required"}
          BY <1>3, <2>3, <4>6, DeleteFields, SMT
        <5>2. /\ p.pubkey = r.pubkey /\ p.pubkey_ed25519 = r.pubkey_ed25519
              /\ p.signature = r.signature /\ p.subkey = r.subkey /\ p.messages = r.messages
          BY <1>5, <2>3, <4>6, <5>1
        <5>3. SignedData(m, p) = SignedData(m, r)
          BY <4>6, <5>2 DEF SignedData, NamespaceActions
        <5>4. VerifySignature(m, p, Y)
          BY <4>5, <5>2, <5>3 DEF VerifySignature, UsesEd, VerifyKey
        <5>5. TimeAllowed(m, p, t, FALSE)
          BY <4>6 DEF TimeAllowed
        <5>6. QED
          BY <4>6, <5>4, <5>5 DEF Check
      <4>7. CASE m # "delete"
        <5>1. p = r
          BY <1>5, <2>3, <3>3, <4>7
        <5>2. QED
          BY <3>3, <4>1, <4>4, <4>5, <5>1 DEF Check
      <4>8. QED
        BY <4>6, <4>7
    <3>4. QED
      BY <3>1, <3>2, <3>3
  <2>7. QED
    BY <2>2, <2>3, <2>6
<1>8. peer_status' # NONE
  BY <1>2, Statuses
<1>9. (Check(request.method, entry, NOW, hf.entry, TRUE, {}))'
          = Check(request.method, entry, NOW, hf.entry, TRUE, {})
  BY <1>1 DEF Check, CheckStore, CheckRetrieve, CheckExpireMsgs
<1>10. QED
  BY <1>1, <1>3, <1>6, <1>7, <1>8, <1>9 DEF ForwardInv

\* The request as it came, and what the two nodes have made of it (register_client_rpc_endpoint,
\* the load functions and to_bt).
THEOREM ForwardingInvariant == Spec => []ForwardInv
<1>1. Init => ForwardInv
  <2>1. SUFFICES ASSUME Init
                 PROVE  ForwardInv
    OBVIOUS
  <2>2. WellFormed(request)
    BY <2>1, RequestsAssumption DEF Init
  <2>3. /\ status = NONE /\ peer = NONE /\ peer_status = NONE
        /\ hf \in [{"entry", "peer"} -> BOOLEAN]
    BY <2>1 DEF Init
  <2>4. status # "200"
    BY <2>3, ForwardingAssumption
  <2>5. PeerReadsTheSame /\ PeerAccepts
    BY <2>3 DEF PeerReadsTheSame, PeerAccepts
  <2>6. QED
    BY <2>2, <2>3, <2>4, <2>5 DEF ForwardInv
<1>2. ForwardInv /\ [Next]_vars => ForwardInv'
  <2>1. SUFFICES ASSUME ForwardInv, [Next]_vars
                 PROVE  ForwardInv'
    OBVIOUS
  <2>2. CASE ProcessAtEntry
    BY <2>1, <2>2, EntryKeepsForwardInv
  <2>3. CASE ProcessAtPeer
    BY <2>1, <2>3, PeerKeepsForwardInv
  <2>4. CASE SubkeyRevoked
    <3>1. /\ request' = request /\ hf' = hf /\ entry' = entry /\ status' = status
          /\ peer' = peer /\ peer_status' = peer_status /\ peer_status = NONE
      BY <2>4 DEF SubkeyRevoked
    <3>2. (Check(request.method, entry, NOW, hf.entry, TRUE, {}))'
              = Check(request.method, entry, NOW, hf.entry, TRUE, {})
      BY <3>1 DEF Check, CheckStore, CheckRetrieve, CheckExpireMsgs
    <3>3. PeerReadsTheSame' /\ PeerAccepts'
      BY <2>1, <3>1 DEF ForwardInv, PeerReadsTheSame, PeerAccepts
    <3>4. QED
      BY <2>1, <3>1, <3>2, <3>3 DEF ForwardInv
  <2>5. CASE UNCHANGED vars
    <3>1. /\ request' = request /\ hf' = hf /\ entry' = entry /\ status' = status
          /\ peer_now' = peer_now /\ peer' = peer /\ peer_status' = peer_status
          /\ revoked' = revoked
      BY <2>5 DEF vars
    <3>2. (Check(request.method, entry, NOW, hf.entry, TRUE, {}))'
              = Check(request.method, entry, NOW, hf.entry, TRUE, {})
      BY <3>1 DEF Check, CheckStore, CheckRetrieve, CheckExpireMsgs
    <3>3. /\ SignedSeparately' <=> SignedSeparately
          /\ InTimeAtPeer' <=> InTimeAtPeer
          /\ NeedsHardfork' <=> NeedsHardfork
          /\ ClocksAgree' <=> ClocksAgree
      BY <3>1 DEF SignedSeparately, InTimeAtPeer, NeedsHardfork, ClocksAgree
    <3>4. PeerReadsTheSame' /\ PeerAccepts'
      BY <2>1, <3>1, <3>3 DEF ForwardInv, PeerReadsTheSame, PeerAccepts
    <3>5. QED
      BY <2>1, <3>1, <3>2, <3>4 DEF ForwardInv
  <2>6. QED
    BY <2>1, <2>2, <2>3, <2>4, <2>5 DEF Next
<1>3. QED
  BY <1>1, <1>2, PTL DEF Spec

\* Whatever format and spelling a client has used, a peer reads from to_bt the request that the
\* entry node has accepted.
THEOREM PeersReadTheSame == Spec => []PeerReadsTheSame
<1>1. ForwardInv => PeerReadsTheSame
  BY DEF ForwardInv
<1>2. QED
  BY <1>1, ForwardingInvariant, PTL

\* What the entry node has accepted, the peer accepts, whatever each knows of the hardfork, as
\* long as their clocks and the forwarding keep within SIGNATURE_TOLERANCE_FORWARDED's allowance
\* and none of the exceptions that PeerAccepts lists applies.
THEOREM PeersAccept == Spec => []PeerAccepts
<1>1. ForwardInv => PeerAccepts
  BY DEF ForwardInv
<1>2. QED
  BY <1>1, ForwardingInvariant, PTL
=============================================================================
