---------------------------- MODULE MCSwarmUpdate ----------------------------
(***************************************************************************)
(* Small instances of SwarmUpdate for TLC.                                 *)
(***************************************************************************)
EXTENDS SwarmUpdate, TLC

CONSTANTS n1, n2, n3, m1

\* The chain may give any node any swarm.
Symmetry == Permutations(Nodes)

\* m1 lies halfway between the swarms 1 and 3.
MCPosition == (m1 :> 2)

\* It is stored in a namespace other than the default one.
MCNamespace == (m1 :> 1)

\* No action and no property reads the blocks before the latest one, so states that differ
\* only in those need not be told apart.
View == <<Latest, Len(chain), nodeVars, db, handlers, todo, net, restarts, intact>>
=============================================================================
