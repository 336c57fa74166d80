----------------------------- MODULE MCDatabase -----------------------------
(***************************************************************************)
(* Small instances of Database for TLC.                                    *)
(***************************************************************************)
EXTENDS Database

CONSTANTS alice, bob, h1, h2, h3, inbox, config, s1, s2

\* Two messages of one account and one of another: an owner row can outlive a
\* message, and owner ids are handed to the other account.
MCHashOwner == [h \in Hashes |-> IF h = h3 THEN bob ELSE alice]

\* A message in each namespace; only the second is younger than time 0.
MCAttributes == {[ns |-> inbox, timestamp |-> 0, expiry |-> 1],
                 [ns |-> config, timestamp |-> 1, expiry |-> 2]}

\* One kind of message, where only revocations matter.
MCOneAttribute == {[ns |-> inbox, timestamp |-> 0, expiry |-> 1]}
=============================================================================
