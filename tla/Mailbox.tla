------------------------------ MODULE Mailbox -------------------------------
(***************************************************************************)
(* What the message database promises its users (oxenss/storage/           *)
(* database.hpp), with no tables, row ids or triggers: a set of stored     *)
(* messages, each belonging to the account its hash was computed over.     *)
(* Messages come in without disturbing the ones already there, leave       *)
(* because they expired or because their own account deleted them, and     *)
(* change nothing but their expiry, and that only at the request of their  *)
(* own account.                                                            *)
(***************************************************************************)
EXTENDS Integers

CONSTANTS Pubkeys, Namespaces, Hashes, HashOwner, MaxTime

VARIABLES stored, now

mailboxVars == <<stored, now>>

Item == [hash : Hashes, ns : Namespaces, timestamp : 0 .. MaxTime, expiry : 0 .. MaxTime]

BelongingTo(pk) == {i \in stored : HashOwner[i.hash] = pk}

Init == stored = {} /\ now = 0

\* Messages that are not stored yet come in, each once.
Deposit ==
    /\ stored \subseteq stored'
    /\ stored' \subseteq Item
    /\ \A i, j \in stored' : i.hash = j.hash => i = j
    /\ UNCHANGED now

Expire ==
    /\ stored' = {i \in stored : i.expiry > now}
    /\ UNCHANGED now

Delete(pk) ==
    /\ stored' \subseteq stored
    /\ stored \ stored' \subseteq BelongingTo(pk)
    /\ UNCHANGED now

\* Some messages of the account get the expiry e.
Retime(pk, e) ==
    /\ \E S \in SUBSET BelongingTo(pk) :
           stored' = (stored \ S) \cup {[i EXCEPT !.expiry = e] : i \in S}
    /\ UNCHANGED now

Tick == now' = now + 1 /\ UNCHANGED stored

Next ==
    \/ Deposit
    \/ Expire
    \/ \E pk \in Pubkeys : Delete(pk)
    \/ \E pk \in Pubkeys, e \in 0 .. MaxTime : Retime(pk, e)
    \/ Tick

Spec == Init /\ [][Next]_mailboxVars
=============================================================================
