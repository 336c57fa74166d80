----------------------------- MODULE SwarmSpace -----------------------------
(***************************************************************************)
(* Which swarm an account belongs to (get_swarm_by_pk in oxenss/snode/     *)
(* swarm.cpp).  Swarm ids and account positions are uint64_t values on a   *)
(* ring; the list of swarms is sorted by id, so a set of ids stands for it.*)
(***************************************************************************)
EXTENDS Integers, FiniteSets, FiniteSetsExt

CONSTANT Ring   \* the number of uint64_t values, 2^64

ASSUME RingAssumption == Ring \in Nat \ {0}

Positions == 0 .. Ring - 1

\* The largest uint64_t: the "dummy" swarm of decommissioned nodes.
INVALID_SWARM_ID == Ring - 1

\* uint64_t subtraction.
Minus(a, b) == IF a >= b THEN a - b ELSE a - b + Ring

\* The first swarm with an id >= res, or the first swarm beyond the top id.
RightOf(ids, res) ==
    LET above == {s \in ids : s >= res}
    IN  IF above = {} THEN Min(ids) ELSE Min(above)

\* Mutant of LeftOf: no wraparound below the first swarm.
LeftOfFirst(ids, right) ==
    LET below == {s \in ids : s < right}
    IN  IF below = {} THEN right ELSE Max(below)

\* The swarm just before that, with wraparound.
LeftOf(ids, right) ==
    LET below == {s \in ids : s < right}
    IN  IF below = {} THEN Max(ids) ELSE Max(below)

GetSwarmByPk(ids, res) ==
    LET right == RightOf(ids, res)
        left == LeftOf(ids, right)
    IN  IF Minus(right, res) < Minus(res, left) THEN right ELSE left

\* How far two positions are apart on the ring.
Distance(a, b) ==
    IF Minus(a, b) <= Minus(b, a) THEN Minus(a, b) ELSE Minus(b, a)

\* "the swarm you belong to is whichever one has a swarm id closest to this
\* pubkey-derived value" (swarm.h), around the top of the uint64_t range too.
IsNearest(ids, res) ==
    LET found == GetSwarmByPk(ids, res)
    IN  found \in ids /\ \A s \in ids : Distance(found, res) <= Distance(s, res)
=============================================================================
