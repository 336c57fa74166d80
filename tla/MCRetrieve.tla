----------------------------- MODULE MCRetrieve -----------------------------
(***************************************************************************)
(* Small instances of Retrieve for TLC.                                    *)
(***************************************************************************)
EXTENDS Retrieve, TLC

CONSTANTS alice, bob, h1, h2, h3, inbox, config

\* Three messages of the polling account.
MCHashOwner == [h \in Hashes |-> alice]

\* They differ in nothing, so renaming them changes nothing.
Symmetry == Permutations(Hashes)

\* Messages of the polled namespace, and one of another namespace to interleave.
MCAttributes == {[ns |-> inbox, timestamp |-> 0, expiry |-> 1],
                 [ns |-> config, timestamp |-> 0, expiry |-> 1]}

\* max_count absent, one and two messages.
MCMaxCounts == {0, 1, 2}
=============================================================================
