---------------------------- MODULE MCForwarding ----------------------------
(***************************************************************************)
(* Small instances of Forwarding for TLC: for every request an instance    *)
(* that is in order, and those that differ from it in up to two fields.    *)
(***************************************************************************)
EXTENDS Forwarding, TLC

CONSTANTS x1, x2, e1, e2, e3, k1, d1, h1, h2

\* e3 does not convert.
MCEdOf == [e \in {e1, e2} |-> IF e = e1 THEN x1 ELSE x2]

Enc(e, v) == [enc |-> e, v |-> v]
User == [type |-> 5, key |-> x1]
Group == [type |-> 3, key |-> x2]

Times == {NONE, WRONG, 1, NOW - 3, NOW - 2, NOW, NOW + 1, NOW + 3}
NamespaceValues == {NONE, ALL, 0, 5, LegacyClosed, NAMESPACE_MAX + 1}
HashLists == {NONE, <<>>, <<h1>>, <<h2, h1>>, <<h1, BAD_HASH>>}

\* The values of the fields that a variant may change.
Values ==
    [pubkey |-> {NONE, Enc("hex", User), Enc("raw", Group), Enc("b64", User)},
     pubKey |-> {NONE, Enc("hex", User)},
     pubkey_ed25519 |-> {NONE, Enc("hex", e1), Enc("raw", e2), Enc("hex", e3), Enc("b64", e1)},
     signature |-> {NONE, Enc("b64", UNSIGNED), Enc("raw", UNSIGNED)},
     subkey |-> {NONE, Enc("b64", k1), Enc("hex", k1), Enc("raw", k1)},
     revoke_subkey |-> {NONE, Enc("b64", k1), Enc("hex", k1), Enc("raw", k1)},
     data |-> {NONE, Enc("b64", d1), Enc("raw", d1), Enc("b64", TOO_LONG)},
     namespace |-> NamespaceValues, timestamp |-> Times, sig_timestamp |-> Times,
     expiry |-> Times \cup {NOW + 4}, time |-> Times, ttl |-> {NONE, 0, 1, 4},
     messages |-> HashLists, lastHash |-> {NONE, h1, BAD_HASH}, last_hash |-> {NONE, h1},
     required |-> {NONE, TRUE, WRONG}, shorten |-> {NONE, TRUE, FALSE}, extend |-> {NONE, TRUE}]

\* A request of each kind that is in order, in json.
Fields(method) ==
    LET signed == [pubkey |-> Enc("hex", User), pubkey_ed25519 |-> Enc("hex", e1),
                   signature |-> Enc("b64", UNSIGNED)]
    IN CASE method = "store" ->
              [pubKey |-> NONE, timestamp |-> NOW, ttl |-> NONE, expiry |-> NOW + 3,
               namespace |-> 5, data |-> Enc("b64", d1), subkey |-> NONE,
               sig_timestamp |-> NONE] @@ signed
         [] method = "retrieve" ->
              [pubKey |-> NONE, timestamp |-> NOW, namespace |-> NONE, subkey |-> NONE,
               lastHash |-> NONE, last_hash |-> NONE] @@ signed
         [] method = "delete" -> [messages |-> <<h1>>, required |-> NONE] @@ signed
         [] method = "revoke_subkey" -> [revoke_subkey |-> Enc("hex", k1)] @@ signed
         [] method \in NamespaceActions -> [namespace |-> NONE, time |-> NOW] @@ signed
         [] method = "expire" -> [messages |-> <<h1>>, expiry |-> NOW, shorten |-> NONE,
                                  extend |-> NONE, subkey |-> NONE] @@ signed
         [] method = "get_expiries" ->
              [messages |-> <<h1>>, timestamp |-> NOW, subkey |-> NONE] @@ signed

AsBt(d) == [d EXCEPT !.signature.enc = "raw"]

Variants(d) ==
    UNION {{[d EXCEPT ![f] = x, ![g] = y] : x \in Values[f], y \in Values[g]}
              : f, g \in DOMAIN d}

\* What the peer's clock shows: ahead, on time, behind, and further ahead than is allowed for.
MCPeerTimes == {NOW - 1, NOW, NOW + 1, NOW + 2}

\* A request signed for namespace 1 and time 12, and the one for namespace 11 and time 2 that
\* the same text stands for.
SameText ==
    LET q(ns, time) == [method |-> "delete_before", fmt |-> "bt",
                        params |-> [AsBt(Fields("delete_before")) EXCEPT
                                       !.namespace = ns, !.time = time]]
    IN [q(11, 2) EXCEPT !.params.signature = SignedBy(q(1, 12)).params.signature]

MCRequests ==
    {SameText} \cup
    UNION {UNION {{[method |-> m, fmt |-> fmt, params |-> d]
                      : d \in Variants(IF fmt = "json" THEN Fields(m) ELSE AsBt(Fields(m)))}
                     : fmt \in {"json", "bt"}}
              : m \in Recursive \cup {"retrieve", "get_expiries"}}
=============================================================================
