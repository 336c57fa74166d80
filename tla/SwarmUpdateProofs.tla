-------------------------- MODULE SwarmUpdateProofs --------------------------
(***************************************************************************)
(* Proofs about SwarmSpace and SwarmUpdate: the swarm found for an account *)
(* is the nearest one, nodes at the same block agree on their peers, and   *)
(* the stored messages follow their accounts from swarm to swarm.          *)
(***************************************************************************)
EXTENDS SwarmUpdate, WellFoundedInduction, TLAPS

\* The prover of every leaf that does not name another.
USE Zenon

-----------------------------------------------------------------------------
(***************************************************************************)
(* The nearest swarm.                                                      *)
(***************************************************************************)

\* The first of a set of ids, as lower_bound and begin find it.
LEMMA FirstId ==
    ASSUME NEW S \in SUBSET Positions, S # {}
    PROVE  Min(S) \in S /\ \A i \in S : Min(S) <= i
<1>1. S \subseteq Nat
  BY RingAssumption, SMT DEF Positions
<1>2. PICK x \in S : \A y \in S : ~(<<y, x>> \in OpToRel(<, Nat))
  BY <1>1, NatLessThanWellFounded, WFMin
<1>3. \A y \in S : ~(y < x)
  BY <1>1, <1>2 DEF OpToRel
<1>4. \A y \in S : x <= y
  BY <1>1, <1>3, SMT
<1>5. QED
  BY <1>4 DEF Min

\* The last of a set of ids, as prev(end) finds it.
LEMMA LastId ==
    ASSUME NEW S \in SUBSET Positions, S # {}
    PROVE  Max(S) \in S /\ \A i \in S : i <= Max(S)
<1> DEFINE T == {n \in Nat : \E i \in S : n = Ring - i}
<1>1. T \subseteq Nat /\ T # {}
  <2>1. PICK i \in S : TRUE
    OBVIOUS
  <2>2. Ring - i \in Nat
    BY RingAssumption, SMT DEF Positions
  <2>3. QED
    BY <2>2
<1>2. PICK x \in T : \A y \in T : ~(<<y, x>> \in OpToRel(<, Nat))
  BY <1>1, NatLessThanWellFounded, WFMin
<1>3. \A y \in T : ~(y < x)
  BY <1>1, <1>2 DEF OpToRel
<1>4. PICK i \in S : x = Ring - i
  OBVIOUS
<1>5. \A j \in S : i >= j
  BY <1>3, <1>4, RingAssumption, SMT DEF Positions
<1>6. QED
  BY <1>5 DEF Max, Positions

\* Going up from res, the right swarm comes first.
LEMMA RightIsFirst ==
    ASSUME NEW ids \in SUBSET Positions, ids # {}, NEW res \in Positions
    PROVE  /\ RightOf(ids, res) \in ids
           /\ \A s \in ids : Minus(RightOf(ids, res), res) <= Minus(s, res)
<1> DEFINE above == {s \in ids : s >= res}
<1> PICK right : right = RightOf(ids, res)
  OBVIOUS
<1>1. CASE above = {}
  <2>1. right = Min(ids)
    BY <1>1 DEF RightOf
  <2>2. right \in ids /\ \A s \in ids : right <= s
    BY <2>1, FirstId, SMT
  <2>3. \A s \in ids : s < res
    BY <1>1, RingAssumption, SMT DEF Positions
  <2>4. \A s \in ids : Minus(right, res) <= Minus(s, res)
    BY <2>2, <2>3, RingAssumption, SMT DEF Minus, Positions
  <2>5. QED
    BY <2>2, <2>4
<1>2. CASE above # {}
  <2>1. right = Min(above)
    BY <1>2 DEF RightOf
  <2>2. right \in above /\ \A s \in above : right <= s
    BY <1>2, <2>1, FirstId
  <2>3. \A s \in ids : Minus(right, res) <= Minus(s, res)
    BY <2>2, RingAssumption, SMT DEF Minus, Positions
  <2>4. QED
    BY <2>2, <2>3
<1>3. QED
  BY <1>1, <1>2

\* Going down from res, the left swarm comes first, unless the right one is at res itself.
LEMMA LeftIsFirst ==
    ASSUME NEW ids \in SUBSET Positions, ids # {}, NEW res \in Positions,
           RightOf(ids, res) # res
    PROVE  \A s \in ids :
               Minus(res, LeftOf(ids, RightOf(ids, res))) <= Minus(res, s)
<1> PICK right : right = RightOf(ids, res)
  OBVIOUS
<1> PICK left : left = LeftOf(ids, right)
  OBVIOUS
<1> DEFINE above == {s \in ids : s >= res}
           below == {s \in ids : s < right}
<1>1. right \in ids /\ right # res
  BY RightIsFirst
<1>2. \A s \in ids : s # res
  <2>1. SUFFICES ASSUME res \in ids PROVE FALSE
    OBVIOUS
  <2>2. res \in above
    BY <2>1, RingAssumption, SMT DEF Positions
  <2>3. right = Min(above)
    BY <2>2 DEF RightOf
  <2>4. right \in above /\ right <= res
    BY <2>2, <2>3, FirstId
  <2>5. QED
    BY <2>4, <1>1, RingAssumption, SMT DEF Positions
<1>3. CASE below = {}
  <2>1. left = Max(ids)
    BY <1>3 DEF LeftOf
  <2>2. left \in ids /\ \A s \in ids : s <= left
    BY <2>1, LastId
  <2>3. CASE above = {}
    <3>1. \A s \in ids : s < res
      BY <2>3, RingAssumption, SMT DEF Positions
    <3>2. \A s \in ids : Minus(res, left) <= Minus(res, s)
      BY <2>2, <3>1, RingAssumption, SMT DEF Minus, Positions
    <3>3. QED
      BY <3>2
  <2>4. CASE above # {}
    <3>1. right = Min(above)
      BY <2>4 DEF RightOf
    <3>2. right >= res
      BY <2>4, <3>1, FirstId
    <3>3. \A s \in ids : s > res
      BY <1>1, <1>2, <1>3, <3>2, RingAssumption, SMT DEF Positions
    <3>4. \A s \in ids : Minus(res, left) <= Minus(res, s)
      BY <2>2, <3>3, RingAssumption, SMT DEF Minus, Positions
    <3>5. QED
      BY <3>4
  <2>5. QED
    BY <2>3, <2>4
<1>4. CASE below # {}
  <2>1. left = Max(below)
    BY <1>4 DEF LeftOf
  <2>2. left \in below /\ \A s \in below : s <= left
    <3>1. below \in SUBSET Positions
      OBVIOUS
    <3>2. QED
      BY <1>4, <2>1, <3>1, LastId
  <2>3. above # {}
    <3>1. SUFFICES ASSUME above = {} PROVE FALSE
      OBVIOUS
    <3>2. right = Min(ids)
      BY <3>1 DEF RightOf
    <3>3. \A s \in ids : right <= s
      BY <3>2, FirstId, SMT
    <3>4. PICK s \in below : TRUE
      BY <1>4
    <3>5. QED
      BY <1>1, <3>3, <3>4, RingAssumption, SMT DEF Positions
  <2>4. right = Min(above)
    BY <2>3 DEF RightOf
  <2>5. right >= res /\ \A s \in above : right <= s
    BY <2>3, <2>4, FirstId
  <2>6. \A s \in below : s < res
    BY <1>1, <2>5, RingAssumption, SMT DEF Positions
  <2>7. \A s \in ids : s \in below \/ s > res
    BY <1>1, <1>2, <2>5, RingAssumption, SMT DEF Positions
  <2>8. \A s \in ids : Minus(res, left) <= Minus(res, s)
    BY <2>2, <2>6, <2>7, RingAssumption, SMT DEF Minus, Positions
  <2>9. QED
    BY <2>8
<1>5. QED
  BY <1>3, <1>4

\* get_swarm_by_pk finds the nearest swarm, for a ring of any size and any swarms.
THEOREM FindsNearest ==
    ASSUME NEW ids \in SUBSET Positions, ids # {}, NEW res \in Positions
    PROVE  IsNearest(ids, res)
<1> PICK right : right = RightOf(ids, res)
  OBVIOUS
<1> PICK left : left = LeftOf(ids, right)
  OBVIOUS
<1> PICK found : found = GetSwarmByPk(ids, res)
  OBVIOUS
<1>1. right \in ids /\ \A s \in ids : Minus(right, res) <= Minus(s, res)
  BY RightIsFirst
<1>2. left \in ids
  <2>1. CASE {s \in ids : s < right} = {}
    BY <2>1, LastId DEF LeftOf
  <2>2. CASE {s \in ids : s < right} # {}
    <3>1. {s \in ids : s < right} \in SUBSET Positions
      OBVIOUS
    <3>2. Max({s \in ids : s < right}) \in {s \in ids : s < right}
      BY <2>2, <3>1, LastId
    <3>3. QED
      BY <2>2, <3>2 DEF LeftOf
  <2>3. QED
    BY <2>1, <2>2
<1>3. found = IF Minus(right, res) < Minus(res, left) THEN right ELSE left
  BY DEF GetSwarmByPk
<1>4. found \in ids
  BY <1>1, <1>2, <1>3
<1>5. \A s \in ids : Minus(s, res) \in Nat /\ Minus(res, s) \in Nat
  BY RingAssumption, SMT DEF Minus, Positions
<1>6. ASSUME NEW s \in ids PROVE Distance(found, res) <= Distance(s, res)
  <2>1. CASE right = res
    <3>1. Minus(right, res) = 0
      BY <2>1, RingAssumption, SMT DEF Minus, Positions
    <3>2. Distance(found, res) = 0
      <4>1. CASE Minus(right, res) < Minus(res, left)
        BY <4>1, <1>1, <1>3, <1>5, <3>1, SMT DEF Distance
      <4>2. CASE ~(Minus(right, res) < Minus(res, left))
        <5>1. Minus(res, left) = 0
          BY <4>2, <3>1, <1>2, <1>5, SMT
        <5>2. QED
          BY <4>2, <5>1, <1>2, <1>3, <1>5, SMT DEF Distance
      <4>3. QED
        BY <4>1, <4>2
    <3>3. QED
      BY <3>2, <1>5, SMT DEF Distance
  <2>2. CASE right # res
    <3>1. Minus(right, res) <= Minus(s, res)
      BY <1>1
    <3>2. Minus(res, left) <= Minus(res, s)
      BY <2>2, LeftIsFirst
    <3>3. Distance(found, res) <= Minus(right, res) /\ Distance(found, res) <= Minus(res, left)
      BY <1>1, <1>2, <1>3, <1>5, SMT DEF Distance
    <3>4. Distance(found, res) \in Nat
      BY <1>4, <1>5 DEF Distance
    <3>5. QED
      BY <3>1, <3>2, <3>3, <3>4, <1>1, <1>2, <1>5, SMT DEF Distance
  <2>3. QED
    BY <2>1, <2>2
<1>7. QED
  BY <1>4, <1>6 DEF IsNearest

-----------------------------------------------------------------------------
(***************************************************************************)
(* Type correctness, and the strengthening of PeersAgree: the swarm and    *)
(* the peers of a node in a swarm are those of the block it has taken over.*)
(***************************************************************************)
SomeSwarm == SwarmIdsOf(Latest) # {}

PeersOfBlock ==
    \A n \in Nodes : cur_swarm_id[n] # INVALID_SWARM_ID =>
        /\ height[n] # 0
        /\ cur_swarm_id[n] = chain[height[n]][n]
        /\ swarm_peers[n] = Members(chain[height[n]], cur_swarm_id[n]) \ {n}

IInv == TypeOK /\ SomeSwarm /\ PeersOfBlock

\* A new block changes nothing that a node has taken over, and leaves some swarm.
LEMMA NewBlockPreserves ==
    ASSUME IInv, NEW n \in Nodes, NEW s \in SwarmIds \cup {INVALID_SWARM_ID}, NewBlock(n, s)
    PROVE  IInv'
<1> USE DEF IInv, NewBlock, nodeVars
<1> PICK b : b = [Latest EXCEPT ![n] = s]
  OBVIOUS
<1>1. chain \in Seq(Block) /\ Len(chain) \in Nat \ {0} /\ Latest \in Block
  BY SMT DEF TypeOK, Latest
<1>2. b \in Block /\ \A x \in Nodes : b[x] = IF x = n THEN s ELSE Latest[x]
  BY <1>1 DEF Block
<1>3. chain' = Append(chain, b)
  OBVIOUS
<1>4. /\ chain' \in Seq(Block) /\ Len(chain') = Len(chain) + 1 /\ chain'[Len(chain) + 1] = b
      /\ \A i \in 1 .. Len(chain) : chain'[i] = chain[i]
  BY <1>1, <1>2, <1>3, SMT
<1>5. TypeOK'
  <2>1. chain' # <<>> /\ 0 .. Len(chain) \subseteq 0 .. Len(chain')
    BY <1>1, <1>4, SMT
  <2>2. height' \in [Nodes -> 0 .. Len(chain')]
    BY <2>1 DEF TypeOK
  <2>3. net' \subseteq [type : {"storage_cc"}, to : Nodes, msg : Messages, sent : 0 .. Len(chain')]
                   \cup [type : {"data"}, to : Nodes, msg : Messages, ns : {Default}]
    BY <2>1 DEF TypeOK
  <2>4. intact' \in BOOLEAN
    BY DEF TypeOK
  <2>5. QED
    BY <1>4, <2>1, <2>2, <2>3, <2>4 DEF TypeOK
<1>6. SomeSwarm'
  <2>1. Latest' = b
    BY <1>1, <1>4 DEF Latest
  <2>2. PICK x \in Nodes : b[x] # INVALID_SWARM_ID
    <3>1. CASE s # INVALID_SWARM_ID
      BY <1>2, <3>1, SMT
    <3>2. CASE s = INVALID_SWARM_ID
      <4>1. Latest[n] # INVALID_SWARM_ID /\ Members(Latest, Latest[n]) # {n}
        BY <3>2
      <4>2. PICK x \in Nodes : x # n /\ Latest[x] = Latest[n]
        BY <4>1 DEF Members
      <4>3. QED
        BY <1>2, <4>1, <4>2
    <3>3. QED
      BY <3>1, <3>2
  <2>3. QED
    BY <2>1, <2>2 DEF SomeSwarm, SwarmIdsOf
<1>7. PeersOfBlock'
  <2>1. \A x \in Nodes : height[x] # 0 => chain'[height[x]] = chain[height[x]]
    BY <1>1, <1>4, SMT DEF TypeOK
  <2>2. SUFFICES ASSUME NEW x \in Nodes, cur_swarm_id'[x] # INVALID_SWARM_ID
                 PROVE  /\ height'[x] # 0
                        /\ cur_swarm_id'[x] = chain'[height'[x]][x]
                        /\ swarm_peers'[x] = Members(chain'[height'[x]], cur_swarm_id'[x]) \ {x}
    BY DEF PeersOfBlock, Members
  <2>3. /\ height[x] # 0 /\ cur_swarm_id[x] = chain[height[x]][x]
        /\ swarm_peers[x] = Members(chain[height[x]], cur_swarm_id[x]) \ {x}
    BY <2>2 DEF PeersOfBlock
  <2>4. QED
    BY <2>1, <2>3
<1>8. QED
  BY <1>5, <1>6, <1>7

\* on_swarm_update leaves the node with the swarm and the peers of the block.
LEMMA OnSwarmUpdatePreserves ==
    ASSUME IInv, NEW n \in Nodes, OnSwarmUpdate(n)
    PROVE  IInv'
<1> USE DEF IInv, OnSwarmUpdate
<1>1. Len(chain) \in Nat \ {0} /\ Latest \in Block /\ Latest = chain[Len(chain)]
  BY SMT DEF TypeOK, Latest
<1>2. chain' = chain /\ Latest' = Latest
  BY DEF Latest
<1>3. PeersAfter(n, Latest) \subseteq Nodes
  BY DEF PeersAfter, Members, TypeOK
<1>4. Relayed(n, Latest) \subseteq
          [type : {"data"}, to : Nodes, msg : Messages, ns : {Default}]
  <2>1. \A to \in Nodes, m \in Messages : Push(to, m) \in
            [type : {"data"}, to : Nodes, msg : Messages, ns : {Default}]
    BY DEF Push
  <2>2. NewSnodes(n, Latest) \subseteq Nodes /\ \A x : Members(Latest, x) \subseteq Nodes
    BY DEF NewSnodes, Members
  <2>3. QED
    BY <2>1, <2>2, SMT DEF Relayed
<1>5. TypeOK'
  <2>1. height' \in [Nodes -> 0 .. Len(chain)] /\ cur_swarm_id' \in Block
    BY <1>1, SMT DEF TypeOK, Block
  <2>2. swarms' \in [Nodes -> Block] /\ swarm_peers' \in [Nodes -> SUBSET Nodes]
    <3>1. CASE Ready(n, Latest)
      <4>1. swarms' = [swarms EXCEPT ![n] = Latest]
        BY <3>1
      <4>2. swarm_peers' = [swarm_peers EXCEPT ![n] = PeersAfter(n, Latest)]
        BY <3>1
      <4>3. swarms \in [Nodes -> Block] /\ swarm_peers \in [Nodes -> SUBSET Nodes]
        BY DEF TypeOK
      <4> HIDE DEF OnSwarmUpdate, IInv
      <4>4. swarms' \in [Nodes -> Block]
        BY <1>1, <4>1, <4>3
      <4>5. QED
        BY <1>3, <4>2, <4>3, <4>4
    <3>2. CASE ~Ready(n, Latest)
      BY <3>2 DEF TypeOK
    <3>3. QED
      BY <3>1, <3>2
  <2>3. net' \subseteq net \cup [type : {"data"}, to : Nodes, msg : Messages, ns : {Default}]
    BY <1>4
  <2>4. intact' \in BOOLEAN
    BY DEF TypeOK
  <2>5. QED
    BY <1>2, <2>1, <2>2, <2>3, <2>4 DEF TypeOK
<1>6. SomeSwarm'
  BY <1>2 DEF SomeSwarm
<1>7. PeersOfBlock'
  <2>1. SUFFICES ASSUME NEW x \in Nodes, cur_swarm_id'[x] # INVALID_SWARM_ID
                 PROVE  /\ height'[x] # 0
                        /\ cur_swarm_id'[x] = chain[height'[x]][x]
                        /\ swarm_peers'[x] = Members(chain[height'[x]], cur_swarm_id'[x]) \ {x}
    BY <1>2, SMT DEF PeersOfBlock, Members
  <2>2. CASE x = n
    <3>1. height'[n] = Len(chain) /\ cur_swarm_id'[n] = Latest[n]
      BY DEF TypeOK, Block
    <3>2. Ready(n, Latest)
      BY <2>1, <2>2, <3>1 DEF Ready
    <3>3. swarm_peers'[n] = Members(Latest, Latest[n]) \ {n}
      BY <2>1, <2>2, <3>1, <3>2 DEF PeersAfter, TypeOK
    <3>4. QED
      BY <1>1, <2>2, <3>1, <3>3
  <2>3. CASE x # n
    <3>1. height'[x] = height[x] /\ cur_swarm_id'[x] = cur_swarm_id[x]
          /\ swarm_peers'[x] = swarm_peers[x]
      BY <2>3 DEF TypeOK, Block
    <3>2. QED
      BY <2>1, <3>1 DEF PeersOfBlock
  <2>4. QED
    BY <2>2, <2>3
<1>8. QED
  BY <1>5, <1>6, <1>7

\* A restarted node is in no swarm until its first update.
LEMMA RestartPreserves ==
    ASSUME IInv, NEW n \in Nodes, Restart(n)
    PROVE  IInv'
<1> USE DEF IInv, Restart
<1>1. chain' = chain /\ Latest' = Latest
  BY DEF Latest
<1>2. TypeOK'
  <2>1. height' \in [Nodes -> 0 .. Len(chain)] /\ cur_swarm_id' \in Block
    BY SMT DEF TypeOK, Block
  <2>2. swarms' \in [Nodes -> Block] /\ swarm_peers' \in [Nodes -> SUBSET Nodes]
    BY DEF TypeOK, Block, NoSwarms
  <2>3. handlers' \subseteq handlers
    OBVIOUS
  <2>4. restarts' \in Nat
    BY SMT DEF TypeOK
  <2>5. intact' \in BOOLEAN
    BY DEF TypeOK
  <2>6. QED
    BY <1>1, <2>1, <2>2, <2>3, <2>4, <2>5 DEF TypeOK
<1>3. SomeSwarm'
  BY <1>1 DEF SomeSwarm
<1>4. PeersOfBlock'
  BY <1>1, SMT DEF PeersOfBlock, Members, TypeOK, Block
<1>5. QED
  BY <1>2, <1>3, <1>4

\* Storing and pushing leave the swarm state alone.
LEMMA StoringPreserves ==
    ASSUME IInv,
           \/ \E n \in Nodes, m \in Messages : CheckStore(n, m)
           \/ \E x \in handlers : Distribute(x) \/ ProcessStore(x)
           \/ \E x \in net : HandleForwarded(x) \/ ProcessPushBatch(x)
    PROVE  IInv'
<1> USE DEF IInv
<1>1. chain' = chain /\ nodeVars' = nodeVars /\ restarts' = restarts
  BY DEF CheckStore, Distribute, ProcessStore, HandleForwarded, ProcessPushBatch
<1>2. SomeSwarm' /\ PeersOfBlock'
  <2>1. SomeSwarm'
    BY <1>1 DEF SomeSwarm, SwarmIdsOf, Latest
  <2>2. /\ height' = height /\ cur_swarm_id' = cur_swarm_id
        /\ swarms' = swarms /\ swarm_peers' = swarm_peers
    BY <1>1 DEF nodeVars
  <2>3. PeersOfBlock'
    BY <1>1, <2>2 DEF PeersOfBlock, Members
  <2>4. QED
    BY <2>1, <2>3
<1>3. ASSUME NEW n \in Nodes, NEW m \in Messages, CheckStore(n, m) PROVE TypeOK'
  <2>1. [node |-> n, msg |-> m, at |-> "checked"]
            \in [node : Nodes, msg : Messages, at : {"checked", "store"}]
    OBVIOUS
  <2>2. QED
    BY <1>1, <1>3, <2>1 DEF CheckStore, TypeOK, nodeVars
<1>4. ASSUME NEW x \in handlers, Distribute(x) PROVE TypeOK'
  <2>1. x \in [node : Nodes, msg : Messages, at : {"checked", "store"}]
    BY DEF TypeOK
  <2>2. [x EXCEPT !.at = "store"] \in [node : Nodes, msg : Messages, at : {"checked", "store"}]
    BY <2>1
  <2>3. {x.node} \cup swarm_peers[x.node] \in SUBSET Nodes /\ height[x.node] \in 0 .. Len(chain)
    BY <2>1 DEF TypeOK
  <2>4. {[type |-> "storage_cc", to |-> p, msg |-> x.msg, sent |-> height[x.node]] :
             p \in swarm_peers[x.node]}
            \subseteq [type : {"storage_cc"}, to : Nodes, msg : Messages, sent : 0 .. Len(chain)]
    BY <2>1, <2>3, SMT
  <2>5. todo' \in [Messages -> SUBSET Nodes]
    BY <1>4, <2>1, <2>3 DEF Distribute, TypeOK
  <2>6. handlers' \subseteq [node : Nodes, msg : Messages, at : {"checked", "store"}]
    BY <1>4, <2>2 DEF Distribute, TypeOK
  <2>7. net' \subseteq [type : {"storage_cc"}, to : Nodes, msg : Messages, sent : 0 .. Len(chain)]
                  \cup [type : {"data"}, to : Nodes, msg : Messages, ns : {Default}]
    BY <1>4, <2>4 DEF Distribute, TypeOK
  <2>8. QED
    BY <1>1, <1>4, <2>5, <2>6, <2>7 DEF Distribute, TypeOK, nodeVars
<1>5. ASSUME NEW x \in handlers, ProcessStore(x) PROVE TypeOK'
  <2>1. x.node \in Nodes /\ x.msg \in Messages
    BY DEF TypeOK
  <2>2. db' \in [Nodes -> [Messages -> Nat \cup {NONE}]]
    BY <1>5, <2>1, SwarmUpdateAssumption DEF ProcessStore, StoreIn, TypeOK
  <2>3. todo' \in [Messages -> SUBSET Nodes] /\ handlers' \subseteq handlers
    BY <1>5, <2>1 DEF ProcessStore, TypeOK
  <2>4. QED
    BY <1>1, <1>5, <2>2, <2>3 DEF ProcessStore, TypeOK, nodeVars
<1>6. ASSUME NEW x \in net, HandleForwarded(x) PROVE TypeOK'
  <2>1. x.to \in Nodes /\ x.msg \in Messages
    BY <1>6 DEF TypeOK, HandleForwarded
  <2>2. [node |-> x.to, msg |-> x.msg, at |-> "store"]
            \in [node : Nodes, msg : Messages, at : {"checked", "store"}]
    BY <2>1
  <2>3. handlers' \subseteq [node : Nodes, msg : Messages, at : {"checked", "store"}]
    BY <1>6, <2>2 DEF HandleForwarded, TypeOK
  <2>4. QED
    BY <1>1, <1>6, <2>3 DEF HandleForwarded, TypeOK, nodeVars
<1>7. ASSUME NEW x \in net, ProcessPushBatch(x) PROVE TypeOK'
  <2>1. x.to \in Nodes /\ x.msg \in Messages /\ x.ns \in Nat
    BY <1>7, SMT DEF TypeOK, ProcessPushBatch, Default
  <2>2. db' \in [Nodes -> [Messages -> Nat \cup {NONE}]]
    <3>1. CASE db' = db
      BY <3>1 DEF TypeOK
    <3>2. CASE db' = [db EXCEPT ![x.to][x.msg] = x.ns]
      BY <2>1, <3>2 DEF TypeOK
    <3>3. QED
      BY <1>7, <3>1, <3>2 DEF ProcessPushBatch, StoreIn
  <2>3. QED
    BY <1>1, <1>7, <2>2 DEF ProcessPushBatch, TypeOK, nodeVars
<1>8. QED
  BY <1>2, <1>3, <1>4, <1>5, <1>6, <1>7

\* The invariant holds from the start of the nodes on, at every step.
THEOREM SwarmInvariant == Spec => []IInv
<1>1. Init => IInv
  <2>1. SUFFICES ASSUME Init PROVE IInv
    OBVIOUS
  <2>2. PICK b \in Block : chain = <<b>> /\ SwarmIdsOf(b) # {}
    BY <2>1 DEF Init
  <2>3. Len(chain) = 1 /\ Latest = b /\ chain \in Seq(Block) /\ chain # <<>>
    BY <2>2, SMT DEF Latest
  <2>4. TypeOK
    BY <2>1, <2>3, SMT DEF Init, TypeOK, Block, NoSwarms, Nothing
  <2>5. SomeSwarm /\ PeersOfBlock
    BY <2>1, <2>2, <2>3 DEF Init, SomeSwarm, PeersOfBlock, NoSwarms
  <2>6. QED
    BY <2>4, <2>5 DEF IInv
<1>2. IInv /\ [Next]_vars => IInv'
  <2>1. SUFFICES ASSUME IInv, [Next]_vars PROVE IInv'
    OBVIOUS
  <2>2. CASE UNCHANGED vars
    <3>1. /\ chain' = chain /\ height' = height /\ cur_swarm_id' = cur_swarm_id
          /\ swarms' = swarms /\ swarm_peers' = swarm_peers /\ db' = db
          /\ handlers' = handlers /\ todo' = todo /\ net' = net
          /\ restarts' = restarts /\ intact' = intact
      BY <2>2 DEF vars, nodeVars
    <3>2. TypeOK'
      BY <2>1, <3>1 DEF IInv, TypeOK
    <3>3. SomeSwarm'
      BY <2>1, <3>1 DEF IInv, SomeSwarm, SwarmIdsOf, Latest
    <3>4. PeersOfBlock'
      BY <2>1, <3>1 DEF IInv, PeersOfBlock, Members
    <3>5. QED
      BY <3>2, <3>3, <3>4 DEF IInv
  <2>3. CASE \E n \in Nodes, s \in SwarmIds \cup {INVALID_SWARM_ID} : NewBlock(n, s)
    BY <2>1, <2>3, NewBlockPreserves
  <2>4. CASE \E n \in Nodes : OnSwarmUpdate(n)
    BY <2>1, <2>4, OnSwarmUpdatePreserves
  <2>5. CASE \E n \in Nodes : Restart(n)
    BY <2>1, <2>5, RestartPreserves
  <2>6. QED
    BY <2>1, <2>2, <2>3, <2>4, <2>5, StoringPreserves DEF Next
<1>3. QED
  BY <1>1, <1>2, PTL DEF Spec

\* Nodes of one swarm at the same block are each other's peers, for any number of nodes,
\* swarms, blocks and restarts.
THEOREM PeersAlwaysAgree == Spec => []PeersAgree
<1>1. IInv => PeersAgree
  <2>1. SUFFICES ASSUME IInv, NEW m \in Nodes, NEW n \in Nodes, height[m] = height[n],
                        cur_swarm_id[m] # INVALID_SWARM_ID, cur_swarm_id[n] # INVALID_SWARM_ID
                 PROVE  m \in swarm_peers[n] <=> cur_swarm_id[m] = cur_swarm_id[n] /\ m # n
    BY DEF PeersAgree
  <2>2. /\ cur_swarm_id[m] = chain[height[n]][m]
        /\ swarm_peers[n] = Members(chain[height[n]], cur_swarm_id[n]) \ {n}
    BY <2>1 DEF IInv, PeersOfBlock
  <2>3. QED
    BY <2>2 DEF Members
<1>2. QED
  BY <1>1, SwarmInvariant, PTL

\* Every account's swarm is the nearest one, whatever swarms the chain leads to.
THEOREM NearestAlways == Spec => []NearestSwarm
<1>1. IInv => NearestSwarm
  <2>1. SUFFICES ASSUME IInv, NEW p \in Positions PROVE IsNearest(SwarmIdsOf(Latest), p)
    BY DEF NearestSwarm
  <2>2. Latest \in Block
    BY <2>1, SMT DEF IInv, TypeOK, Latest
  <2>3. SwarmIdsOf(Latest) \in SUBSET Positions
    BY <2>2, SwarmUpdateAssumption DEF Block, SwarmIdsOf
  <2>4. SwarmIdsOf(Latest) # {}
    BY <2>1 DEF IInv, SomeSwarm
  <2>5. QED
    BY <2>3, <2>4, FindsNearest
<1>2. QED
  BY <1>1, SwarmInvariant, PTL

-----------------------------------------------------------------------------
(***************************************************************************)
(* The data follows the swarms.                                            *)
(***************************************************************************)

\* The nodes that message m belongs on by the block at height h.
Owners(h, m) == Members(chain[h], SwarmOf(chain[h], m))

\* A handler of node n has message m to store; a forwarded copy of m is on its way to n.
HandledAt(n, m) == \E x \in handlers : x.node = n /\ x.msg = m
ForwardedTo(n, m) == \E x \in net : x.type = "storage_cc" /\ x.to = n /\ x.msg = m

\* Node n has message m, or a handler that is about to store it.
Has(n, m) == Holds(n, m) \/ HandledAt(n, m)

\* Node n has message m, is to store it before m is acknowledged, or is sent it.
Served(n, m) == Holds(n, m) \/ n \in todo[m] \/ Push(n, m) \in net

\* A node that has still to store m never will, so that m is never acknowledged.
Lost(m) == \E n \in todo[m] : ~HandledAt(n, m) /\ ~ForwardedTo(n, m)

\* An owner by the block before the latest that has yet to take over the latest one has m:
\* it will push m then.
Source(m) ==
    /\ Len(chain) > 1
    /\ \E e \in Owners(Len(chain) - 1, m) : height[e] = Len(chain) - 1 /\ Has(e, m)

\* Every owner has m or gets it, the new ones from those of before.
OwnersServed(m) ==
    \A x \in Owners(Len(chain), m) :
        \/ Served(x, m) \/ Lost(m)
        \/ Source(m) /\ x \notin Owners(Len(chain) - 1, m)

\* A handler runs on an owner by the block that its node has taken over.
HandlersOwn(m) ==
    \A x \in handlers : x.msg = m => height[x.node] # 0 /\ x.node \in Owners(height[x.node], m)

\* From the second block on, what was forwarded by the latest block is on an owner.
ForwardsRooted(m) ==
    \A x \in net : (x.type = "storage_cc" /\ x.msg = m) =>
        /\ x.sent # 0
        /\ (Len(chain) > 1 /\ x.sent = Len(chain)) => \E a \in Owners(Len(chain), m) : Has(a, m)

\* Nobody has forwarded m: at most its entry node is at work on it.
Unsent(m) ==
    /\ \A n \in Nodes : ~ForwardedTo(n, m)
    /\ \A x, y \in handlers : x.msg = m /\ y.msg = m => x = y /\ x.at = "checked"

\* m has been forwarded once: whoever is to store it is waited for, and some owner has it.
SentOnce(m) ==
    /\ \A x \in handlers : x.msg = m =>
           x.at = "store" /\ x.node \in todo[m] /\ ~ForwardedTo(x.node, m)
    /\ \A n \in Nodes : ForwardedTo(n, m) => n \in todo[m]
    /\ Lost(m) \/ \E a \in Owners(1, m) : Has(a, m) \/ Push(a, m) \in net

\* Before the second block a restart may undo a store, but then m is not acknowledged
\* or some owner has it.
FirstBlock(m) ==
    Len(chain) = 1 =>
        /\ Owners(1, m) = Nodes => todo[m] = Nodes \/ \E p \in Nodes : Holds(p, m)
        /\ Owners(1, m) # Nodes /\ todo[m] = Nodes => Unsent(m)
        /\ Owners(1, m) # Nodes /\ todo[m] # Nodes => SentOnce(m)

\* What holds of a message while nothing has happened that may leave data behind.
Follows(m) == HandlersOwn(m) /\ ForwardsRooted(m) /\ FirstBlock(m) /\ OwnersServed(m)

\* One node has moved, and not out of a swarm of which it was the only member.
OneMove(b, c) ==
    \E n \in Nodes, s \in SwarmIds \cup {INVALID_SWARM_ID} :
        /\ b[n] # s /\ c = [b EXCEPT ![n] = s]
        /\ s = INVALID_SWARM_ID => Members(b, b[n]) # {n}

\* Each block has swarms, the latest moves one node, and a node knows the swarms of the block
\* that it has taken over.
BlocksKnown ==
    /\ \A h \in 1 .. Len(chain) : SwarmIdsOf(chain[h]) # {}
    /\ Len(chain) > 1 => OneMove(chain[Len(chain) - 1], Latest)
    /\ \A n \in Nodes :
           /\ height[n] # 0 => cur_swarm_id[n] = chain[height[n]][n]
           /\ cur_swarm_id[n] # INVALID_SWARM_ID => swarms[n] = chain[height[n]]

\* No node has missed a block.
InStep == \A n \in Nodes : height[n] >= Len(chain) - 1

\* The inductive invariant behind DataFollows.
FollowInv == IInv /\ BlocksKnown /\ (intact /\ InStep => \A m \in Messages : Follows(m))

\* The swarm found is at res, or the first one below res and no farther than the others, or
\* the first one above and nearer than any below.
LEMMA FoundSide ==
    ASSUME NEW ids \in SUBSET Positions, ids # {}, NEW res \in Positions,
           NEW f, f = GetSwarmByPk(ids, res)
    PROVE  \/ f = res
           \/ \A i \in ids : Minus(res, f) <= Minus(res, i) /\ Minus(res, f) <= Minus(i, res)
           \/ \A i \in ids : Minus(f, res) < Minus(res, i) /\ Minus(f, res) <= Minus(i, res)
<1> PICK right : right = RightOf(ids, res)
  OBVIOUS
<1> PICK left : left = LeftOf(ids, right)
  OBVIOUS
<1>1. right \in ids /\ \A s \in ids : Minus(right, res) <= Minus(s, res)
  BY RightIsFirst
<1>2. f = IF Minus(right, res) < Minus(res, left) THEN right ELSE left
  BY DEF GetSwarmByPk
<1>3. f \in ids
  BY FindsNearest DEF IsNearest
<1>4. \A s \in Positions : Minus(s, res) \in Nat /\ Minus(res, s) \in Nat
  BY RingAssumption, SMT DEF Minus, Positions
<1>5. right \in Positions /\ f \in Positions
  BY <1>1, <1>3
<1>6. CASE Minus(right, res) < Minus(res, left)
  <2>1. f = right
    BY <1>2, <1>6
  <2>2. CASE right = res
    BY <2>1, <2>2
  <2>3. CASE right # res
    <3>1. \A i \in ids : Minus(res, left) <= Minus(res, i)
      BY <2>3, LeftIsFirst
    <3>2. Minus(right, res) \in Int /\ \A i \in ids : Minus(res, i) \in Int
      BY <1>4, <1>5, SMT
    <3>3. PICK d : d = Minus(res, left)
      OBVIOUS
    <3>4. d \in Nat
      <4>1. left \in ids
        <5>1. CASE {s \in ids : s < right} = {}
          BY <5>1, LastId DEF LeftOf
        <5>2. CASE {s \in ids : s < right} # {}
          <6>1. {s \in ids : s < right} \in SUBSET Positions
            OBVIOUS
          <6>2. Max({s \in ids : s < right}) \in {s \in ids : s < right}
            BY <5>2, <6>1, LastId
          <6>3. QED
            BY <5>2, <6>2 DEF LeftOf
        <5>3. QED
          BY <5>1, <5>2
      <4>2. QED
        BY <1>4, <3>3, <4>1
    <3>5. \A i \in ids : Minus(f, res) < Minus(res, i)
      BY <1>6, <2>1, <3>1, <3>2, <3>3, <3>4, SMT
    <3>6. QED
      BY <1>1, <2>1, <3>5
  <2>4. QED
    BY <2>2, <2>3
<1>7. CASE ~(Minus(right, res) < Minus(res, left))
  <2>1. f = left
    BY <1>2, <1>7
  <2>2. Minus(res, f) \in Nat /\ Minus(right, res) \in Nat
    BY <1>4, <1>5
  <2>3. Minus(res, f) <= Minus(right, res)
    BY <1>7, <2>1, <2>2, SMT
  <2>4. CASE right = res
    <3>1. Minus(res, f) = 0
      <4>1. Minus(right, res) = 0
        BY <2>4, RingAssumption, SMT DEF Minus, Positions
      <4>2. QED
        BY <4>1, <2>2, <2>3, SMT
    <3>2. f = res
      BY <1>5, <3>1, RingAssumption, SMT DEF Minus, Positions
    <3>3. QED
      BY <3>2
  <2>5. CASE right # res
    <3>1. \A i \in ids : Minus(res, f) <= Minus(res, i)
      BY <2>1, <2>5, LeftIsFirst
    <3>2. \A i \in ids : Minus(i, res) \in Nat
      BY <1>4
    <3>3. \A i \in ids : Minus(res, f) <= Minus(i, res)
      BY <1>1, <2>2, <2>3, <3>2, SMT
    <3>4. QED
      BY <3>1, <3>3
  <2>6. QED
    BY <2>4, <2>5
<1>8. QED
  BY <1>6, <1>7

\* The choice between two swarms does not depend on the others: where both swarms found are
\* among the swarms of both sides, they are the same one.
LEMMA SameChoice ==
    ASSUME NEW ids \in SUBSET Positions, NEW jds \in SUBSET Positions, NEW res \in Positions,
           NEW s \in ids, NEW t \in jds, s \in jds, t \in ids,
           s = GetSwarmByPk(ids, res), t = GetSwarmByPk(jds, res)
    PROVE  s = t
<1>1. \/ s = res
      \/ \A i \in ids : Minus(res, s) <= Minus(res, i) /\ Minus(res, s) <= Minus(i, res)
      \/ \A i \in ids : Minus(s, res) < Minus(res, i) /\ Minus(s, res) <= Minus(i, res)
  BY FoundSide
<1>2. \/ t = res
      \/ \A i \in jds : Minus(res, t) <= Minus(res, i) /\ Minus(res, t) <= Minus(i, res)
      \/ \A i \in jds : Minus(t, res) < Minus(res, i) /\ Minus(t, res) <= Minus(i, res)
  BY FoundSide
<1>3. \/ s = res
      \/ Minus(res, s) <= Minus(res, t) /\ Minus(res, s) <= Minus(t, res)
      \/ Minus(s, res) < Minus(res, t) /\ Minus(s, res) <= Minus(t, res)
  BY <1>1
<1>4. \/ t = res
      \/ Minus(res, t) <= Minus(res, s) /\ Minus(res, t) <= Minus(s, res)
      \/ Minus(t, res) < Minus(res, s) /\ Minus(t, res) <= Minus(s, res)
  BY <1>2
<1>5. s \in Positions /\ t \in Positions
  OBVIOUS
<1>6. QED
  BY <1>3, <1>4, <1>5, RingAssumption, SMT DEF Minus, Positions

\* In a block with swarms, a message belongs to one of them, which has members.
LEMMA SwarmFound ==
    ASSUME NEW b \in Block, SwarmIdsOf(b) # {}, NEW m \in Messages
    PROVE  /\ SwarmIdsOf(b) \in SUBSET Positions
           /\ SwarmOf(b, m) \in SwarmIdsOf(b)
           /\ Members(b, SwarmOf(b, m)) # {}
<1>1. SwarmIdsOf(b) \in SUBSET Positions
  BY SwarmUpdateAssumption DEF Block, SwarmIdsOf
<1>2. Position[m] \in Positions
  BY SwarmUpdateAssumption
<1>3. SwarmOf(b, m) \in SwarmIdsOf(b)
  BY <1>1, <1>2, FindsNearest DEF IsNearest, SwarmOf
<1>4. Members(b, SwarmOf(b, m)) # {}
  BY <1>3 DEF SwarmIdsOf, Members
<1>5. QED
  BY <1>1, <1>3, <1>4

\* The blocks up to the latest.
LEMMA Blocks ==
    ASSUME IInv, BlocksKnown
    PROVE  /\ Len(chain) \in Nat \ {0} /\ Latest = chain[Len(chain)]
           /\ \A h \in 1 .. Len(chain) : chain[h] \in Block /\ SwarmIdsOf(chain[h]) # {}
           /\ \A n \in Nodes : height[n] \in 0 .. Len(chain)
<1>1. chain \in Seq(Block) /\ chain # <<>> /\ height \in [Nodes -> 0 .. Len(chain)]
  BY DEF IInv, TypeOK
<1>2. QED
  BY <1>1, SMT DEF BlocksKnown, Latest

\* An owner of the block before that takes over the latest block pushes what it holds to
\* every new owner.
LEMMA NewcomersPushed ==
    ASSUME IInv, BlocksKnown, Len(chain) > 1, NEW m \in Messages,
           NEW e \in Owners(Len(chain) - 1, m), height[e] = Len(chain) - 1, Holds(e, m),
           NEW x \in Owners(Len(chain), m), x \notin Owners(Len(chain) - 1, m)
    PROVE  Ready(e, Latest) /\ Push(x, m) \in Relayed(e, Latest)
<1> PICK b : b = chain[Len(chain) - 1]
  OBVIOUS
<1> PICK c : c = Latest
  OBVIOUS
<1> PICK p : p = SwarmOf(b, m)
  OBVIOUS
<1> PICK q : q = SwarmOf(c, m)
  OBVIOUS
<1>1. Len(chain) \in Nat /\ Len(chain) - 1 \in 1 .. Len(chain) /\ Len(chain) \in 1 .. Len(chain)
  BY Blocks, SMT
<1>2. c = chain[Len(chain)]
  BY Blocks
<1>3. b \in Block /\ SwarmIdsOf(b) # {} /\ c \in Block /\ SwarmIdsOf(c) # {}
  BY <1>1, <1>2, Blocks
<1>4. /\ SwarmIdsOf(b) \in SUBSET Positions /\ p \in SwarmIdsOf(b)
      /\ SwarmIdsOf(c) \in SUBSET Positions /\ q \in SwarmIdsOf(c)
  BY <1>3, SwarmFound
<1>5. q \in SwarmIdsOf(b) /\ p \in SwarmIdsOf(c) => p = q
  <2>1. Position[m] \in Positions
    BY SwarmUpdateAssumption
  <2>2. p = GetSwarmByPk(SwarmIdsOf(b), Position[m]) /\ q = GetSwarmByPk(SwarmIdsOf(c), Position[m])
    BY DEF SwarmOf
  <2>3. QED
    BY <1>4, <2>1, <2>2, SameChoice, SMT
<1>6. e \in Nodes /\ b[e] = p /\ x \in Nodes /\ c[x] = q /\ (q = p => b[x] # p)
  BY <1>2 DEF Owners, Members
<1>7. p # INVALID_SWARM_ID /\ q # INVALID_SWARM_ID
  BY <1>4 DEF SwarmIdsOf
<1>8. cur_swarm_id[e] = p /\ swarms[e] = b /\ swarm_peers[e] = Members(b, p) \ {e}
  <2>1. height[e] # 0
    <3>1. \A k \in Nat : k > 1 => k - 1 # 0
      BY SMT
    <3>2. QED
      BY <1>1, <3>1
  <2>2. cur_swarm_id[e] = p
    BY <1>6, <2>1 DEF BlocksKnown
  <2>3. swarms[e] = b
    BY <1>6, <1>7, <2>2 DEF BlocksKnown
  <2>4. QED
    BY <1>6, <1>7, <2>2, <2>3 DEF IInv, PeersOfBlock
<1>9. PICK y \in Nodes, s \in SwarmIds \cup {INVALID_SWARM_ID} :
          /\ b[y] # s /\ c = [b EXCEPT ![y] = s]
          /\ s = INVALID_SWARM_ID => Members(b, b[y]) # {y}
  BY DEF BlocksKnown, OneMove
<1>10. c[y] = s /\ \A z \in Nodes : z # y => c[z] = b[z]
  BY <1>3, <1>9 DEF Block
<1>11. x \notin Members(b, p)
  BY DEF Owners
<1>12. CASE e # y
  <2>1. c[e] = p
    BY <1>6, <1>10, <1>12
  <2>2. Ready(e, c) /\ Stays(e, c)
    BY <1>7, <1>8, <2>1 DEF Ready, Stays
  <2>3. CASE q = p
    <3>1. x \in NewSnodes(e, c)
      BY <1>6, <1>8, <1>11, <2>1, <2>2, <2>3 DEF NewSnodes, Members
    <3>2. QED
      BY <2>2, <3>1, SMT DEF Relayed
  <2>4. CASE q # p
    <3>1. p \in SwarmIdsOf(c)
      BY <1>6, <1>7, <2>1 DEF SwarmIdsOf
    <3>2. q \in NewSwarms(e, c)
      BY <1>4, <1>5, <1>8, <2>2, <2>4, <3>1 DEF NewSwarms
    <3>3. x \in Members(c, SwarmOf(c, m))
      BY <1>6 DEF Members
    <3>4. QED
      BY <2>2, <3>2, <3>3, SMT DEF Relayed
  <2>5. QED
    BY <2>3, <2>4
<1>13. CASE e = y
  <2>1. CASE Members(b, p) # {e}
    <3>1. PICK z \in Nodes : z # e /\ b[z] = p
      BY <1>6, <2>1 DEF Members
    <3>2. p \in SwarmIdsOf(c)
      BY <1>7, <1>10, <1>13, <3>1 DEF SwarmIdsOf
    <3>3. x # e
      BY <1>6, <1>11 DEF Members
    <3>4. b[x] = q
      BY <1>6, <1>10, <1>13, <3>3
    <3>5. q \in SwarmIdsOf(b)
      BY <1>6, <1>7, <3>4 DEF SwarmIdsOf
    <3>6. QED
      BY <1>5, <1>6, <3>2, <3>4, <3>5
  <2>2. CASE Members(b, p) = {e}
    <3>1. s # INVALID_SWARM_ID
      BY <1>6, <1>9, <1>13, <2>2
    <3>2. \A z \in Nodes : c[z] # p
      BY <1>6, <1>9, <1>10, <1>13, <2>2, SMT DEF Members
    <3>3. Ready(e, c) /\ Dissolved(e, c)
      BY <1>7, <1>8, <1>10, <1>13, <3>1, <3>2 DEF Ready, Dissolved, SwarmIdsOf
    <3>4. x \in Members(c, SwarmOf(c, m))
      BY <1>6 DEF Members
    <3>5. QED
      BY <3>3, <3>4, SMT DEF Relayed
  <2>3. QED
    BY <2>1, <2>2
<1>14. QED
  BY <1>12, <1>13

\* What a step that leaves the chain alone leaves alone.
LEMMA SameBlocks ==
    ASSUME chain' = chain
    PROVE  /\ Len(chain)' = Len(chain) /\ Latest' = Latest
           /\ \A h, m : Owners(h, m)' = Owners(h, m)
BY DEF Latest, Owners, Members, SwarmOf, SwarmIdsOf

\* A node that takes an account for its own owns it by the block that it has taken over.
LEMMA ForUs ==
    ASSUME IInv, BlocksKnown, NEW n \in Nodes, NEW m \in Messages, IsPubkeyForUs(n, m)
    PROVE  height[n] # 0 /\ n \in Owners(height[n], m)
<1>1. swarms[n] \in Block
  BY DEF IInv, TypeOK
<1>2. SwarmOf(swarms[n], m) \in SwarmIdsOf(swarms[n])
  BY <1>1, SwarmFound DEF IsPubkeyForUs
<1>3. cur_swarm_id[n] # INVALID_SWARM_ID
  BY <1>2 DEF IsPubkeyForUs, SwarmIdsOf
<1>4. height[n] # 0 /\ cur_swarm_id[n] = chain[height[n]][n] /\ swarms[n] = chain[height[n]]
  BY <1>3 DEF IInv, PeersOfBlock, BlocksKnown
<1>5. QED
  BY <1>4 DEF IsPubkeyForUs, Owners, Members

\* A step that touches nothing of message m.
LEMMA Untouched ==
    ASSUME chain' = chain, height' = height, NEW m, todo'[m] = todo[m],
           \A n \in Nodes : Holds(n, m)' <=> Holds(n, m),
           \A x : x.msg = m => (x \in handlers' <=> x \in handlers),
           \A x : x.msg = m => (x \in net' <=> x \in net),
           Follows(m)
    PROVE  Follows(m)'
<1>1. Len(chain)' = Len(chain) /\ \A h : Owners(h, m)' = Owners(h, m)
  BY SameBlocks
<1>2. \A h : Owners(h, m) \subseteq Nodes
  BY DEF Owners, Members
<1>3. \A n : HandledAt(n, m)' <=> HandledAt(n, m)
  BY DEF HandledAt
<1>4. \A n : ForwardedTo(n, m)' <=> ForwardedTo(n, m)
  BY DEF ForwardedTo
<1>5. \A n : Push(n, m) \in net' <=> Push(n, m) \in net
  BY DEF Push
<1>6. \A n \in Nodes : Has(n, m)' <=> Has(n, m)
  BY <1>3 DEF Has
<1>7. \A n \in Nodes : Served(n, m)' <=> Served(n, m)
  BY <1>5 DEF Served
<1>8. Lost(m)' <=> Lost(m)
  BY <1>3, <1>4 DEF Lost
<1>9. Source(m)' <=> Source(m)
  BY <1>1, <1>2, <1>6, SMT DEF Source
<1>10. OwnersServed(m)'
  BY <1>1, <1>2, <1>7, <1>8, <1>9, SMT DEF Follows, OwnersServed
<1>11. HandlersOwn(m)'
  BY <1>1 DEF Follows, HandlersOwn
<1>12. ForwardsRooted(m)'
  BY <1>1, <1>2, <1>6 DEF Follows, ForwardsRooted
<1>13. FirstBlock(m)'
  <2>1. Unsent(m) => Unsent(m)'
    BY <1>4 DEF Unsent
  <2>2. SentOnce(m) => SentOnce(m)'
    BY <1>1, <1>2, <1>4, <1>5, <1>6, <1>8 DEF SentOnce
  <2>3. QED
    BY <1>1, <2>1, <2>2 DEF Follows, FirstBlock
<1>14. QED
  BY <1>10, <1>11, <1>12, <1>13 DEF Follows

\* The check of an entry node starts a handler of a message that everyone has to store.
LEMMA CheckStoreFollows ==
    ASSUME IInv, BlocksKnown, NEW k \in Messages, Follows(k),
           NEW n \in Nodes, NEW m \in Messages, CheckStore(n, m)
    PROVE  Follows(k)'
<1> PICK y : y = [node |-> n, msg |-> m, at |-> "checked"]
  OBVIOUS
<1>1. /\ chain' = chain /\ height' = height /\ todo' = todo /\ net' = net /\ db' = db
      /\ handlers' = handlers \cup {y}
  BY DEF CheckStore, nodeVars
<1>2. y.node = n /\ y.msg = m /\ y.at = "checked"
  OBVIOUS
<1>3. CASE k # m
  BY <1>1, <1>2, <1>3, Untouched DEF Holds
<1>4. CASE k = m
  <2>1. Len(chain)' = Len(chain) /\ \A h : Owners(h, m)' = Owners(h, m)
    BY <1>1, SameBlocks
  <2>2. todo[m] = Nodes /\ \A x \in handlers : x.msg # m
    BY DEF CheckStore
  <2>3. height[n] # 0 /\ n \in Owners(height[n], m)
    BY ForUs DEF CheckStore
  <2>4. OwnersServed(m)'
    BY <1>1, <2>2, <2>1 DEF OwnersServed, Served, Owners, Members
  <2>5. HandlersOwn(m)'
    BY <1>1, <1>2, <2>1, <2>2, <2>3 DEF HandlersOwn
  <2>6. \A a : Has(a, m) => Has(a, m)'
    BY <1>1 DEF Has, Holds, HandledAt
  <2>7. ForwardsRooted(m)'
    BY <1>1, <1>4, <2>1, <2>6 DEF Follows, ForwardsRooted
  <2>8. \A a : ForwardedTo(a, m)' <=> ForwardedTo(a, m)
    BY <1>1 DEF ForwardedTo
  <2>9. Unsent(m) => Unsent(m)'
    BY <1>1, <1>2, <2>2, <2>8 DEF Unsent
  <2>10. FirstBlock(m)'
    BY <1>1, <1>4, <2>1, <2>2, <2>9 DEF Follows, FirstBlock
  <2>11. QED
    BY <1>4, <2>4, <2>5, <2>7, <2>10 DEF Follows
<1>5. QED
  BY <1>3, <1>4

\* Where no node has missed a block, each has taken over the latest one or the one before.
LEMMA TwoHeights ==
    ASSUME IInv, BlocksKnown, InStep, NEW n \in Nodes
    PROVE  height[n] = Len(chain) \/ height[n] = Len(chain) - 1
<1>1. Len(chain) \in Nat /\ height[n] \in 0 .. Len(chain) /\ height[n] >= Len(chain) - 1
  BY Blocks DEF InStep
<1>2. QED
  BY <1>1, SMT

\* The peers that an owner forwards to are the other owners by its block.
LEMMA PeersAreOwners ==
    ASSUME IInv, BlocksKnown, NEW n \in Nodes, NEW m \in Messages,
           height[n] # 0, n \in Owners(height[n], m)
    PROVE  swarm_peers[n] = Owners(height[n], m) \ {n}
<1>1. height[n] \in 1 .. Len(chain)
  BY Blocks, SMT
<1>2. SwarmOf(chain[height[n]], m) \in SwarmIdsOf(chain[height[n]])
  BY <1>1, Blocks, SwarmFound
<1>3. cur_swarm_id[n] = SwarmOf(chain[height[n]], m)
  BY DEF BlocksKnown, Owners, Members
<1>4. cur_swarm_id[n] # INVALID_SWARM_ID
  BY <1>2, <1>3 DEF SwarmIdsOf
<1>5. QED
  BY <1>3, <1>4 DEF IInv, PeersOfBlock, Owners

\* The entry node forwards m to the other owners by its block and has it waited for.
LEMMA DistributeFollows ==
    ASSUME IInv, BlocksKnown, InStep, NEW k \in Messages, Follows(k),
           NEW x \in handlers, Distribute(x)
    PROVE  Follows(k)'
<1> PICK n : n = x.node
  OBVIOUS
<1> PICK m : m = x.msg
  OBVIOUS
<1> PICK y : y = [x EXCEPT !.at = "store"]
  OBVIOUS
<1> PICK sent : sent = {[type |-> "storage_cc", to |-> p, msg |-> m, sent |-> height[n]] :
                            p \in swarm_peers[n]}
  OBVIOUS
<1>1. /\ chain' = chain /\ height' = height /\ db' = db
      /\ handlers' = (handlers \ {x}) \cup {y} /\ net' = net \cup sent
      /\ todo' = [todo EXCEPT ![m] = {n} \cup swarm_peers[n]]
  BY DEF Distribute, nodeVars
<1>2. n \in Nodes /\ m \in Messages /\ x.at = "checked" /\ todo \in [Messages -> SUBSET Nodes]
  BY DEF IInv, TypeOK, Distribute
<1>3. y.node = n /\ y.msg = m /\ y.at = "store"
  <2>1. x \in [node : Nodes, msg : Messages, at : {"checked", "store"}]
    BY DEF IInv, TypeOK
  <2>2. QED
    BY <2>1
<1>4. \A z \in sent : /\ z.type = "storage_cc" /\ z.msg = m /\ z.sent = height[n]
                      /\ z.to \in swarm_peers[n]
  BY SMT
<1>5. CASE k # m
  <2>1. \A z : z.msg = k => (z \in handlers' <=> z \in handlers)
    BY <1>1, <1>3, <1>5
  <2>2. \A z : z.msg = k => (z \in net' <=> z \in net)
    BY <1>1, <1>4, <1>5
  <2>3. todo'[k] = todo[k]
    BY <1>1, <1>2, <1>5
  <2>4. \A a \in Nodes : Holds(a, k)' <=> Holds(a, k)
    BY <1>1 DEF Holds
  <2>5. QED
    BY <1>1, <2>1, <2>2, <2>3, <2>4, Untouched
<1>6. CASE k = m
  <2>1. Len(chain)' = Len(chain) /\ \A h : Owners(h, m)' = Owners(h, m)
    BY <1>1, SameBlocks
  <2>2. height[n] # 0 /\ n \in Owners(height[n], m)
    BY <1>6 DEF Follows, HandlersOwn
  <2>3. swarm_peers[n] = Owners(height[n], m) \ {n}
    BY <1>2, <2>2, PeersAreOwners
  <2>4. todo'[m] = Owners(height[n], m)
    <3>1. todo'[m] = {n} \cup swarm_peers[n]
      BY <1>1, <1>2
    <3>2. QED
      BY <2>2, <2>3, <3>1, SMT
  <2>5. \A a : HandledAt(a, m)' <=> HandledAt(a, m)
    BY <1>1, <1>3 DEF HandledAt
  <2>6. HandledAt(n, m)
    BY DEF HandledAt
  <2>7. \A a : Has(a, m)' <=> Has(a, m)
    BY <1>1, <2>5 DEF Has, Holds
  <2>8. Has(n, m)
    BY <2>6 DEF Has
  <2>9. height[n] = Len(chain) \/ height[n] = Len(chain) - 1
    BY <1>2, TwoHeights
  <2>10. Len(chain) \in Nat /\ Len(chain) > 0 /\ height[n] \in 0 .. Len(chain)
    BY <1>2, Blocks, SMT
  <2>11. HandlersOwn(m)'
    <3>1. SUFFICES ASSUME NEW z \in handlers', z.msg = m
                   PROVE  height[z.node] # 0 /\ z.node \in Owners(height[z.node], m)
      BY <1>1, <2>1, SMT DEF HandlersOwn
    <3>2. CASE z = y
      BY <1>3, <2>2, <3>2
    <3>3. CASE z \in handlers
      BY <1>6, <3>1, <3>3 DEF Follows, HandlersOwn
    <3>4. QED
      BY <1>1, <3>2, <3>3
  <2>12. CASE height[n] = Len(chain)
    <3>1. OwnersServed(m)'
      BY <2>1, <2>4, <2>12 DEF OwnersServed, Served
    <3>2. ForwardsRooted(m)'
      <4>1. \E a \in Owners(Len(chain), m) : Has(a, m)
        BY <2>2, <2>8, <2>12
      <4>2. SUFFICES ASSUME NEW z \in net', z.type = "storage_cc", z.msg = m
                     PROVE  z.sent # 0
        BY <2>1, <2>7, <4>1 DEF ForwardsRooted
      <4>3. QED
        BY <1>1, <1>4, <1>6, <2>2, <4>2 DEF Follows, ForwardsRooted
    <3>3. QED
      <4>1. FirstBlock(m)'
        <5>1. SUFFICES ASSUME Len(chain) = 1 PROVE FirstBlock(m)'
          BY <2>1 DEF FirstBlock
        <5>2. todo'[m] = Owners(1, m)
          BY <2>4, <2>12, <5>1
        <5>3. CASE Owners(1, m) = Nodes
          BY <2>1, <5>2, <5>3 DEF FirstBlock
        <5>4. CASE Owners(1, m) # Nodes
          <6>1. todo[m] = Nodes
            BY <1>2, <1>6, <5>1, <5>4 DEF Follows, FirstBlock, SentOnce
          <6>2. Unsent(m)
            BY <1>6, <5>1, <5>4, <6>1 DEF Follows, FirstBlock
          <6>3. \A z \in handlers' : z.msg = m => z = y
            BY <1>1, <6>2 DEF Unsent
          <6>4. \A a \in Nodes : ForwardedTo(a, m)' => a \in swarm_peers[n]
            BY <1>1, <1>4, <6>2 DEF Unsent, ForwardedTo
          <6>5. SentOnce(m)'
            <7>1. \A z \in handlers' : z.msg = m =>
                      z.at = "store" /\ z.node \in todo'[m] /\ ~ForwardedTo(z.node, m)'
              BY <1>2, <1>3, <2>2, <2>3, <2>4, <6>3, <6>4
            <7>2. \A a \in Nodes : ForwardedTo(a, m)' => a \in todo'[m]
              BY <2>3, <2>4, <6>4
            <7>3. \E a \in Owners(1, m)' : Has(a, m)'
              BY <2>1, <2>2, <2>7, <2>8, <2>12, <5>1
            <7>4. QED
              BY <7>1, <7>2, <7>3 DEF SentOnce
          <6>6. QED
            BY <2>1, <5>2, <5>4, <6>5 DEF FirstBlock
        <5>5. QED
          BY <5>3, <5>4
      <4>2. QED
        BY <1>6, <2>11, <3>1, <3>2, <4>1 DEF Follows
  <2>13. CASE height[n] = Len(chain) - 1
    <3>1. Len(chain) > 1
      <4>1. \A i \in Nat : i > 0 /\ i - 1 # 0 => i > 1
        BY SMT
      <4>2. QED
        BY <2>2, <2>10, <2>13, <4>1
    <3>2. Source(m)'
      BY <1>1, <2>1, <2>2, <2>7, <2>8, <2>13, <3>1 DEF Source
    <3>3. OwnersServed(m)'
      BY <2>1, <2>4, <2>13, <3>2 DEF OwnersServed, Served
    <3>4. ForwardsRooted(m)'
      <4>1. height[n] # Len(chain)
        BY <2>10, <2>13, SMT
      <4>2. QED
        BY <1>1, <1>4, <1>6, <2>1, <2>2, <2>7, <4>1 DEF Follows, ForwardsRooted
    <3>5. FirstBlock(m)'
      BY <2>1, <3>1, SMT DEF FirstBlock
    <3>6. QED
      BY <1>6, <2>11, <3>3, <3>4, <3>5 DEF Follows
  <2>14. QED
    BY <2>9, <2>12, <2>13
<1>7. QED
  BY <1>5, <1>6

\* The message is on the node, and the node is no longer waited for.
LEMMA ProcessStoreFollows ==
    ASSUME IInv, BlocksKnown, InStep, NEW k \in Messages, Follows(k),
           NEW x \in handlers, ProcessStore(x)
    PROVE  Follows(k)'
<1> PICK n : n = x.node
  OBVIOUS
<1> PICK m : m = x.msg
  OBVIOUS
<1>1. /\ chain' = chain /\ height' = height /\ net' = net
      /\ handlers' = handlers \ {x} /\ todo' = [todo EXCEPT ![m] = @ \ {n}]
  BY DEF ProcessStore, nodeVars
<1>2. n \in Nodes /\ m \in Messages /\ x.at = "store" /\ todo \in [Messages -> SUBSET Nodes]
  BY DEF IInv, TypeOK, ProcessStore
<1>3. \A a \in Nodes, j \in Messages : Holds(a, j)' <=> Holds(a, j) \/ (a = n /\ j = m)
  <2>1. db \in [Nodes -> [Messages -> Nat \cup {NONE}]] /\ Namespace[m] \in Nat
    BY <1>2, SwarmUpdateAssumption DEF IInv, TypeOK
  <2>2. CASE Holds(n, m)
    BY <2>2 DEF ProcessStore, StoreIn, Holds
  <2>3. CASE ~Holds(n, m)
    <3>1. db' = [db EXCEPT ![n][m] = Namespace[m]]
      BY <2>3 DEF ProcessStore, StoreIn
    <3>2. QED
      BY <1>2, <2>1, <3>1, SMT DEF Holds, NONE
  <2>4. QED
    BY <2>2, <2>3
<1>4. CASE k # m
  <2>1. \A z : z.msg = k => (z \in handlers' <=> z \in handlers)
    BY <1>1, <1>4
  <2>2. \A z : z.msg = k => (z \in net' <=> z \in net)
    BY <1>1
  <2>3. todo'[k] = todo[k]
    BY <1>1, <1>2, <1>4
  <2>4. \A a \in Nodes : Holds(a, k)' <=> Holds(a, k)
    BY <1>3, <1>4
  <2>5. QED
    BY <1>1, <2>1, <2>2, <2>3, <2>4, Untouched
<1>5. CASE k = m
  <2>1. Len(chain)' = Len(chain) /\ \A h : Owners(h, m)' = Owners(h, m)
    BY <1>1, SameBlocks
  <2>2. height[n] # 0 /\ n \in Owners(height[n], m)
    BY <1>5 DEF Follows, HandlersOwn
  <2>3. \A a : a # n => (HandledAt(a, m)' <=> HandledAt(a, m))
    BY <1>1 DEF HandledAt
  <2>4. HandledAt(n, m)
    BY DEF HandledAt
  <2>5. \A h : Owners(h, m) \subseteq Nodes
    BY DEF Owners, Members
  <2>6. \A a \in Nodes : Has(a, m) => Has(a, m)'
    BY <1>2, <1>3, <2>3 DEF Has
  <2>7. \A a : ForwardedTo(a, m)' <=> ForwardedTo(a, m)
    BY <1>1 DEF ForwardedTo
  <2>8. todo'[m] = todo[m] \ {n}
    BY <1>1, <1>2
  <2>9. Lost(m) => Lost(m)'
    BY <2>3, <2>4, <2>7, <2>8 DEF Lost
  <2>10. Source(m) => Source(m)'
    BY <1>1, <2>1, <2>5, <2>6 DEF Source
  <2>11. \A a \in Nodes : Served(a, m) => Served(a, m)'
    BY <1>1, <1>2, <1>3, <2>8 DEF Served
  <2>12. OwnersServed(m)'
    BY <1>5, <2>1, <2>5, <2>9, <2>10, <2>11 DEF Follows, OwnersServed
  <2>13. HandlersOwn(m)'
    BY <1>1, <1>5, <2>1 DEF Follows, HandlersOwn
  <2>14. ForwardsRooted(m)'
    BY <1>1, <1>5, <2>1, <2>5, <2>6 DEF Follows, ForwardsRooted
  <2>15. FirstBlock(m)'
    <3>1. SUFFICES ASSUME Len(chain) = 1 PROVE FirstBlock(m)'
      BY <2>1 DEF FirstBlock
    <3>2. Holds(n, m)' /\ todo'[m] # Nodes
      BY <1>2, <1>3, <2>8
    <3>3. CASE Owners(1, m) = Nodes
      BY <1>2, <2>1, <3>2, <3>3 DEF FirstBlock
    <3>4. CASE Owners(1, m) # Nodes
      <4>1. SentOnce(m)
        BY <1>2, <1>5, <3>1, <3>4 DEF Follows, FirstBlock, Unsent
      <4>2. \A z \in handlers' : z.msg = m => z.node # n
        <5>1. \A z \in handlers : z.msg = m => z.at = "store"
          BY <4>1 DEF SentOnce
        <5>2. handlers \subseteq [node : Nodes, msg : Messages, at : {"checked", "store"}]
          BY DEF IInv, TypeOK
        <5>3. QED
          BY <1>1, <1>2, <5>1, <5>2, SMT
      <4>3. ~ForwardedTo(n, m)
        BY <1>2, <4>1 DEF SentOnce
      <4>4. height[n] = 1
        <5>1. height[n] \in 0 .. 1
          BY <1>2, <3>1, Blocks
        <5>2. QED
          BY <2>2, <5>1, SMT
      <4>5. SentOnce(m)'
        <5>1. \A z \in handlers' : z.msg = m =>
                  z.at = "store" /\ z.node \in todo'[m] /\ ~ForwardedTo(z.node, m)'
          BY <1>1, <2>7, <2>8, <4>1, <4>2 DEF SentOnce
        <5>2. \A a \in Nodes : ForwardedTo(a, m)' => a \in todo'[m]
          BY <2>7, <2>8, <4>1, <4>3 DEF SentOnce
        <5>3. \E a \in Owners(1, m)' : Has(a, m)'
          BY <2>1, <2>2, <3>2, <4>4 DEF Has
        <5>4. QED
          BY <5>1, <5>2, <5>3 DEF SentOnce
      <4>6. QED
        BY <2>1, <3>2, <3>4, <4>5 DEF FirstBlock
    <3>5. QED
      BY <3>3, <3>4
  <2>16. QED
    BY <1>5, <2>12, <2>13, <2>14, <2>15 DEF Follows
<1>6. QED
  BY <1>4, <1>5

\* A peer takes a forwarded copy, or refuses it and is then waited for in vain.
LEMMA HandleForwardedFollows ==
    ASSUME IInv, BlocksKnown, InStep, NEW k \in Messages, Follows(k),
           NEW x \in net, HandleForwarded(x)
    PROVE  Follows(k)'
<1> PICK p : p = x.to
  OBVIOUS
<1> PICK m : m = x.msg
  OBVIOUS
<1> PICK y : y = [node |-> p, msg |-> m, at |-> "store"]
  OBVIOUS
<1>1. /\ chain' = chain /\ height' = height /\ net' = net \ {x} /\ db' = db /\ todo' = todo
      /\ x.type = "storage_cc"
      /\ handlers' = IF IsPubkeyForUs(p, m) THEN handlers \cup {y} ELSE handlers
  BY DEF HandleForwarded, nodeVars
<1>2. p \in Nodes /\ m \in Messages /\ todo \in [Messages -> SUBSET Nodes]
  BY <1>1 DEF IInv, TypeOK
<1>3. y.node = p /\ y.msg = m /\ y.at = "store"
  OBVIOUS
<1>4. CASE k # m
  <2>1. \A z : z.msg = k => (z \in handlers' <=> z \in handlers)
    BY <1>1, <1>3, <1>4
  <2>2. \A z : z.msg = k => (z \in net' <=> z \in net)
    BY <1>1, <1>4
  <2>3. \A a \in Nodes : Holds(a, k)' <=> Holds(a, k)
    BY <1>1 DEF Holds
  <2>4. QED
    BY <1>1, <2>1, <2>2, <2>3, Untouched
<1>5. CASE k = m
  <2>1. Len(chain)' = Len(chain) /\ \A h : Owners(h, m)' = Owners(h, m)
    BY <1>1, SameBlocks
  <2>2. \A a : HandledAt(a, m) => HandledAt(a, m)'
    BY <1>1 DEF HandledAt
  <2>3. \A a : HandledAt(a, m)' /\ a # p => HandledAt(a, m)
    BY <1>1, <1>3 DEF HandledAt
  <2>4. ForwardedTo(p, m) /\ \A a : ForwardedTo(a, m)' => ForwardedTo(a, m)
    BY <1>1 DEF ForwardedTo
  <2>5. \A a : Has(a, m) => Has(a, m)'
    BY <1>1, <2>2 DEF Has, Holds
  <2>6. Lost(m) => Lost(m)'
    BY <1>1, <2>3, <2>4 DEF Lost
  <2>7. Source(m) => Source(m)'
    BY <1>1, <2>1, <2>5 DEF Source
  <2>8. \A a : Push(a, m) \in net <=> Push(a, m) \in net'
    BY <1>1, SMT DEF Push
  <2>9. \A a : Served(a, m) => Served(a, m)'
    BY <1>1, <2>8 DEF Served, Holds
  <2>10. OwnersServed(m)'
    BY <1>5, <2>1, <2>6, <2>7, <2>9 DEF Follows, OwnersServed
  <2>11. IsPubkeyForUs(p, m) => height[p] # 0 /\ p \in Owners(height[p], m)
    BY <1>2, ForUs
  <2>12. HandlersOwn(m)'
    BY <1>1, <1>3, <1>5, <2>1, <2>11, SMT DEF Follows, HandlersOwn
  <2>13. ForwardsRooted(m)'
    BY <1>1, <1>5, <2>1, <2>5 DEF Follows, ForwardsRooted
  <2>14. FirstBlock(m)'
    <3>1. SUFFICES ASSUME Len(chain) = 1 PROVE FirstBlock(m)'
      BY <2>1 DEF FirstBlock
    <3>2. CASE Owners(1, m) = Nodes
      BY <1>1, <1>5, <2>1, <3>1, <3>2 DEF Follows, FirstBlock, Holds
    <3>3. CASE Owners(1, m) # Nodes
      <4>1. todo[m] # Nodes
        BY <1>2, <1>5, <2>4, <3>1, <3>3 DEF Follows, FirstBlock, Unsent
      <4>2. SentOnce(m)
        BY <1>5, <3>1, <3>3, <4>1 DEF Follows, FirstBlock
      <4>3. ~ForwardedTo(p, m)'
        <5>1. SUFFICES ASSUME NEW z \in net, z # x, z.type = "storage_cc", z.to = p, z.msg = m
                       PROVE  FALSE
          BY <1>1 DEF ForwardedTo
        <5>2. z.sent # 0 /\ x.sent # 0
          BY <1>1, <1>5, <5>1 DEF Follows, ForwardsRooted
        <5>3. /\ x \in [type : {"storage_cc"}, to : Nodes, msg : Messages, sent : 0 .. Len(chain)]
              /\ z \in [type : {"storage_cc"}, to : Nodes, msg : Messages, sent : 0 .. Len(chain)]
          BY <1>1, <5>1 DEF IInv, TypeOK
        <5>4. z.sent = 1 /\ x.sent = 1
          BY <3>1, <5>2, <5>3, SMT
        <5>5. QED
          BY <5>1, <5>3, <5>4, SMT
      <4>4. SentOnce(m)'
        <5>1. \A z \in handlers' : z.msg = m =>
                  z.at = "store" /\ z.node \in todo'[m] /\ ~ForwardedTo(z.node, m)'
          BY <1>1, <1>2, <1>3, <2>4, <4>2, <4>3 DEF SentOnce
        <5>2. \A a \in Nodes : ForwardedTo(a, m)' => a \in todo'[m]
          BY <1>1, <2>4, <4>2 DEF SentOnce
        <5>3. Lost(m)' \/ \E a \in Owners(1, m)' : Has(a, m)' \/ Push(a, m) \in net'
          BY <2>1, <2>5, <2>6, <2>8, <4>2 DEF SentOnce
        <5>4. QED
          BY <5>1, <5>2, <5>3 DEF SentOnce
      <4>5. QED
        BY <1>1, <2>1, <3>3, <4>1, <4>4 DEF FirstBlock
    <3>4. QED
      BY <3>2, <3>3
  <2>15. QED
    BY <1>5, <2>10, <2>12, <2>13, <2>14 DEF Follows
<1>6. QED
  BY <1>4, <1>5

\* A pushed message is taken; a failure to is not a step that leaves the data intact.
LEMMA ProcessPushBatchFollows ==
    ASSUME IInv, BlocksKnown, NEW k \in Messages, Follows(k),
           NEW x \in net, ProcessPushBatch(x), intact'
    PROVE  Follows(k)'
<1> PICK p : p = x.to
  OBVIOUS
<1> PICK m : m = x.msg
  OBVIOUS
<1>1. /\ chain' = chain /\ height' = height /\ net' = net \ {x} /\ handlers' = handlers
      /\ todo' = todo /\ x.type = "data" /\ StoreIn(p, m, x.ns)
  BY DEF ProcessPushBatch, nodeVars
<1>2. p \in Nodes /\ m \in Messages /\ x.ns = Default /\ x = Push(p, m)
  <2>1. x \in [type : {"data"}, to : Nodes, msg : Messages, ns : {Default}]
    BY <1>1 DEF IInv, TypeOK
  <2>2. QED
    BY <2>1 DEF Push
<1>3. \A a \in Nodes, j \in Messages : Holds(a, j)' <=> Holds(a, j) \/ (a = p /\ j = m)
  <2>1. db \in [Nodes -> [Messages -> Nat \cup {NONE}]] /\ x.ns \in Nat
    BY <1>2, SMT DEF IInv, TypeOK, Default
  <2>2. CASE Holds(p, m)
    BY <1>1, <2>2 DEF StoreIn, Holds
  <2>3. CASE ~Holds(p, m)
    <3>1. PICK v \in Nat : v = x.ns
      BY <2>1
    <3>2. db' = [db EXCEPT ![p][m] = v]
      BY <1>1, <2>3, <3>1 DEF StoreIn
    <3>3. p \in Nodes /\ m \in Messages
      BY <1>2
    <3>4. ASSUME NEW a \in Nodes, NEW j \in Messages
          PROVE  db'[a][j] = IF a = p /\ j = m THEN v ELSE db[a][j]
      BY <2>1, <3>2, <3>3
    <3>5. v # NONE
      BY SMT DEF NONE
    <3>6. QED
      BY <2>3, <3>4, <3>5 DEF Holds
  <2>4. QED
    BY <2>2, <2>3
<1>4. Len(chain)' = Len(chain) /\ \A h : Owners(h, k)' = Owners(h, k)
  BY <1>1, SameBlocks
<1>5. \A h : Owners(h, k) \subseteq Nodes
  BY DEF Owners, Members
<1>6. \A a : HandledAt(a, k)' <=> HandledAt(a, k)
  BY <1>1 DEF HandledAt
<1>7. \A a : ForwardedTo(a, k)' <=> ForwardedTo(a, k)
  BY <1>1 DEF ForwardedTo
<1>8. \A a \in Nodes : Holds(a, k) => Holds(a, k)'
  BY <1>3
<1>9. \A a \in Nodes : Push(a, k) \in net => Push(a, k) \in net' \/ Holds(a, k)'
  <2>1. \A a \in Nodes : Push(a, k) = Push(p, m) => a = p /\ k = m
    BY DEF Push
  <2>2. QED
    BY <1>1, <1>2, <1>3, <2>1
<1>10. \A a \in Nodes : Has(a, k) => Has(a, k)'
  BY <1>6, <1>8 DEF Has
<1>11. \A a \in Nodes : Served(a, k) => Served(a, k)'
  BY <1>1, <1>8, <1>9 DEF Served
<1>12. Lost(k)' <=> Lost(k)
  BY <1>1, <1>6, <1>7 DEF Lost
<1>13. Source(k) => Source(k)'
  BY <1>1, <1>4, <1>5, <1>10 DEF Source
<1>14. OwnersServed(k)'
  BY <1>4, <1>5, <1>11, <1>12, <1>13 DEF Follows, OwnersServed
<1>15. HandlersOwn(k)'
  BY <1>1, <1>4 DEF Follows, HandlersOwn
<1>16. ForwardsRooted(k)'
  BY <1>1, <1>4, <1>5, <1>10 DEF Follows, ForwardsRooted
<1>17. FirstBlock(k)'
  <2>1. Unsent(k) => Unsent(k)'
    BY <1>1, <1>7 DEF Unsent
  <2>2. SentOnce(k) => SentOnce(k)'
    <3>1. SUFFICES ASSUME SentOnce(k) PROVE SentOnce(k)'
      OBVIOUS
    <3>2. Lost(k)' \/ \E a \in Owners(1, k)' : Has(a, k)' \/ Push(a, k) \in net'
      <4>1. CASE Lost(k)
        BY <1>12, <4>1
      <4>2. CASE ~Lost(k)
        <5>1. PICK a \in Owners(1, k) : Has(a, k) \/ Push(a, k) \in net
          BY <3>1, <4>2 DEF SentOnce
        <5>2. Has(a, k)' \/ Push(a, k) \in net'
          BY <1>5, <1>9, <1>10, <5>1 DEF Has
        <5>3. QED
          BY <1>4, <5>2
      <4>3. QED
        BY <4>1, <4>2
    <3>3. QED
      BY <1>1, <1>7, <3>1, <3>2 DEF SentOnce
  <2>3. QED
    BY <1>1, <1>4, <1>8, <2>1, <2>2 DEF Follows, FirstBlock
<1>18. QED
  BY <1>14, <1>15, <1>16, <1>17 DEF Follows

\* A restart at the first block ends handlers whose message is then not acknowledged, or
\* is on an owner.
LEMMA RestartFollows ==
    ASSUME IInv, BlocksKnown, NEW m \in Messages, Follows(m),
           NEW n \in Nodes, Restart(n), Len(chain) = 1
    PROVE  Follows(m)'
<1>1. /\ chain' = chain /\ net' = net /\ todo' = todo /\ db' = db
      /\ handlers' = {x \in handlers : x.node # n}
      /\ \A a \in Nodes : a # n => height'[a] = height[a]
  BY DEF Restart, IInv, TypeOK
<1>2. Len(chain)' = Len(chain) /\ \A h : Owners(h, m)' = Owners(h, m)
  BY <1>1, SameBlocks
<1>3. \A a : HandledAt(a, m)' <=> HandledAt(a, m) /\ a # n
  BY <1>1 DEF HandledAt
<1>4. \A a : ForwardedTo(a, m)' <=> ForwardedTo(a, m)
  BY <1>1 DEF ForwardedTo
<1>5. \A a : Holds(a, m)' <=> Holds(a, m)
  BY <1>1 DEF Holds
<1>6. Lost(m) => Lost(m)'
  BY <1>1, <1>3, <1>4 DEF Lost
<1>7. OwnersServed(m)' /\ ForwardsRooted(m)'
  <2>1. ~(Len(chain) > 1) /\ ~(Len(chain)' > 1)
    BY <1>2, SMT
  <2>2. \A a : Served(a, m) => Served(a, m)'
    BY <1>1, <1>5 DEF Served
  <2>3. OwnersServed(m)'
    BY <1>2, <1>6, <2>1, <2>2 DEF Follows, OwnersServed, Source
  <2>4. ForwardsRooted(m)'
    BY <1>1, <2>1 DEF Follows, ForwardsRooted
  <2>5. QED
    BY <2>3, <2>4
<1>8. HandlersOwn(m)'
  <2>1. \A x \in handlers' : x \in handlers /\ x.node \in Nodes /\ x.node # n
    BY <1>1 DEF IInv, TypeOK
  <2>2. QED
    BY <1>1, <1>2, <2>1, SMT DEF Follows, HandlersOwn
<1>9. FirstBlock(m)'
  <2>1. Unsent(m) => Unsent(m)'
    BY <1>1, <1>4 DEF Unsent
  <2>2. SentOnce(m) => SentOnce(m)'
    <3>1. SUFFICES ASSUME SentOnce(m) PROVE SentOnce(m)'
      OBVIOUS
    <3>2. Lost(m)' \/ \E a \in Owners(1, m)' : Has(a, m)' \/ Push(a, m) \in net'
      <4>1. CASE HandledAt(n, m)
        <5>1. n \in todo[m] /\ ~ForwardedTo(n, m)
          BY <3>1, <4>1 DEF SentOnce, HandledAt
        <5>2. QED
          BY <1>1, <1>3, <1>4, <5>1 DEF Lost
      <4>2. CASE ~HandledAt(n, m)
        <5>1. \A a : Has(a, m) => Has(a, m)'
          BY <1>3, <1>5, <4>2 DEF Has
        <5>2. QED
          BY <1>1, <1>2, <1>6, <3>1, <5>1 DEF SentOnce
      <4>3. QED
        BY <4>1, <4>2
    <3>3. QED
      BY <1>1, <1>4, <3>1, <3>2 DEF SentOnce
  <2>3. QED
    BY <1>1, <1>2, <1>5, <2>1, <2>2 DEF Follows, FirstBlock
<1>10. QED
  BY <1>7, <1>8, <1>9 DEF Follows

\* A node takes over the latest block from the one before, with no handler under way: if it
\* was a source, it pushes the message to every new owner.
LEMMA OnSwarmUpdateFollows ==
    ASSUME IInv, BlocksKnown, NEW m \in Messages, Follows(m),
           NEW e \in Nodes, OnSwarmUpdate(e), intact'
    PROVE  Follows(m)'
<1>1. /\ chain' = chain /\ todo' = todo /\ db' = db /\ handlers' = handlers
      /\ height[e] = Len(chain) - 1 /\ \A x \in handlers : x.node # e
      /\ net' = IF Ready(e, Latest) THEN net \cup Relayed(e, Latest) ELSE net
      /\ \A a \in Nodes : a # e => height'[a] = height[a]
  BY DEF OnSwarmUpdate, IInv, TypeOK
<1>2. Len(chain)' = Len(chain) /\ \A h : Owners(h, m)' = Owners(h, m)
  BY <1>1, SameBlocks
<1>3. \A h : Owners(h, m) \subseteq Nodes
  BY DEF Owners, Members
<1>4. net \subseteq net' /\ \A x \in net' : x \in net \/ x.type = "data"
  BY <1>1, SMT DEF Relayed, Push
<1>5. \A a : ForwardedTo(a, m)' <=> ForwardedTo(a, m)
  BY <1>4 DEF ForwardedTo
<1>6. \A a : HandledAt(a, m)' <=> HandledAt(a, m)
  BY <1>1 DEF HandledAt
<1>7. \A a : Holds(a, m)' <=> Holds(a, m)
  BY <1>1 DEF Holds
<1>8. \A a : Has(a, m)' <=> Has(a, m)
  BY <1>6, <1>7 DEF Has
<1>9. Lost(m)' <=> Lost(m)
  BY <1>1, <1>5, <1>6 DEF Lost
<1>10. \A a : Served(a, m) => Served(a, m)'
  BY <1>1, <1>4, <1>7 DEF Served
<1>11. OwnersServed(m)'
  <2>1. SUFFICES ASSUME NEW x \in Owners(Len(chain), m), Source(m),
                        x \notin Owners(Len(chain) - 1, m), ~Source(m)'
                 PROVE  Served(x, m)'
    BY <1>2, <1>9, <1>10 DEF Follows, OwnersServed
  <2>2. PICK a \in Owners(Len(chain) - 1, m) : height[a] = Len(chain) - 1 /\ Has(a, m)
    BY <2>1 DEF Source
  <2>3. Len(chain) > 1
    BY <2>1 DEF Source
  <2>4. a = e
    <3>1. SUFFICES ASSUME a # e PROVE Source(m)'
      BY <2>1
    <3>2. height'[a] = Len(chain) - 1
      BY <1>1, <1>3, <2>2, <3>1
    <3>3. QED
      BY <1>2, <1>8, <2>2, <2>3, <3>2 DEF Source
  <2>5. Holds(e, m)
    BY <1>1, <2>2, <2>4 DEF Has, HandledAt
  <2>6. e \in Owners(Len(chain) - 1, m)
    BY <2>2, <2>4
  <2>7. Ready(e, Latest) /\ Push(x, m) \in Relayed(e, Latest)
    BY <1>1, <2>1, <2>3, <2>5, <2>6, NewcomersPushed
  <2>8. QED
    BY <1>1, <2>7 DEF Served
<1>12. HandlersOwn(m)'
  <2>1. \A x \in handlers : x.node \in Nodes /\ height'[x.node] = height[x.node]
    BY <1>1 DEF IInv, TypeOK
  <2>2. QED
    BY <1>1, <1>2, <2>1, SMT DEF Follows, HandlersOwn
<1>13. ForwardsRooted(m)'
  BY <1>2, <1>4, <1>8 DEF Follows, ForwardsRooted
<1>14. FirstBlock(m)'
  <2>1. Unsent(m) => Unsent(m)'
    BY <1>1, <1>5 DEF Unsent
  <2>2. SentOnce(m) => SentOnce(m)'
    BY <1>1, <1>2, <1>4, <1>5, <1>8, <1>9 DEF SentOnce
  <2>3. QED
    BY <1>1, <1>2, <1>7, <2>1, <2>2 DEF Follows, FirstBlock
<1>15. QED
  BY <1>11, <1>12, <1>13, <1>14 DEF Follows

\* Where every owner is served, every node has taken over the latest block and nothing is
\* being pushed, a message that is not lost and not still to be stored is on an owner.
LEMMA SomeOwnerHas ==
    ASSUME IInv, BlocksKnown, NEW m \in Messages, Follows(m), Settled,
           \A n \in Nodes : height[n] = Len(chain), todo[m] # Nodes, ~Lost(m)
    PROVE  \E a \in Owners(Len(chain), m) : Has(a, m)
<1>1. Len(chain) \in Nat \ {0}
  BY Blocks
<1>2. \A n : Push(n, m) \notin net
  BY DEF Settled, Push
<1>3. Owners(Len(chain), m) # {}
  <2>1. Len(chain) \in 1 .. Len(chain)
    BY <1>1, SMT
  <2>2. QED
    BY <2>1, Blocks, SwarmFound DEF Owners
<1>4. CASE Len(chain) = 1
  <2>1. CASE Owners(1, m) = Nodes
    BY <1>4, <2>1 DEF Follows, FirstBlock, Has
  <2>2. CASE Owners(1, m) # Nodes
    BY <1>2, <1>4, <2>2 DEF Follows, FirstBlock, SentOnce
  <2>3. QED
    BY <2>1, <2>2
<1>5. CASE Len(chain) # 1
  <2>1. Len(chain) > 1 /\ Len(chain) # Len(chain) - 1
    <3>1. \A i \in Nat \ {0} : i # 1 => i > 1 /\ i # i - 1
      BY SMT
    <3>2. QED
      BY <1>1, <1>5, <3>1
  <2>2. ~Source(m)
    BY <2>1 DEF Source, Owners, Members
  <2>3. PICK y \in Owners(Len(chain), m) : Served(y, m)
    BY <1>3, <2>2 DEF Follows, OwnersServed
  <2>4. CASE Holds(y, m)
    BY <2>4 DEF Has
  <2>5. CASE y \in todo[m] /\ HandledAt(y, m)
    BY <2>5 DEF Has
  <2>6. CASE y \in todo[m] /\ ~HandledAt(y, m)
    <3>1. ForwardedTo(y, m)
      BY <2>6 DEF Lost
    <3>2. PICK x \in net : x.type = "storage_cc" /\ x.msg = m /\ x.sent = Len(chain)
      BY <3>1 DEF ForwardedTo, Settled
    <3>3. QED
      BY <2>1, <3>2 DEF Follows, ForwardsRooted
  <2>7. QED
    BY <1>2, <2>3, <2>4, <2>5, <2>6 DEF Served
<1>6. QED
  BY <1>4, <1>5

\* A new block makes the owners of before the sources for the new owners.
LEMMA NewBlockFollows ==
    ASSUME IInv, BlocksKnown, NEW m \in Messages, Follows(m),
           NEW n \in Nodes, NEW s \in SwarmIds \cup {INVALID_SWARM_ID}, NewBlock(n, s),
           intact', InStep'
    PROVE  Follows(m)'
<1> PICK b : b = [Latest EXCEPT ![n] = s]
  OBVIOUS
<1>1. /\ chain' = Append(chain, b) /\ height' = height /\ db' = db /\ handlers' = handlers
      /\ todo' = todo /\ net' = net /\ Settled
  BY DEF NewBlock, nodeVars
<1>2. Len(chain) \in Nat \ {0} /\ \A a \in Nodes : height[a] \in 0 .. Len(chain)
  BY Blocks
<1>3. Len(chain') = Len(chain) + 1 /\ \A h \in 1 .. Len(chain) : chain'[h] = chain[h]
  <2>1. chain \in Seq(Block) /\ b \in Block
    <3>1. chain \in Seq(Block) /\ Latest \in Block
      BY SMT DEF IInv, TypeOK, Latest
    <3>2. QED
      BY <3>1 DEF Block
  <2>2. QED
    BY <1>1, <2>1, SMT
<1>4. \A h \in 1 .. Len(chain) : Owners(h, m)' = Owners(h, m)
  BY <1>3 DEF Owners, Members, SwarmOf, SwarmIdsOf
<1>5. \A a \in Nodes : height[a] = Len(chain)
  <2>1. \A a \in Nodes : height[a] >= Len(chain) + 1 - 1
    BY <1>1, <1>3, SMT DEF InStep
  <2>2. QED
    BY <1>2, <2>1, SMT
<1>6. /\ Len(chain') > 1 /\ Len(chain') - 1 = Len(chain) /\ Len(chain) \in 1 .. Len(chain)
      /\ Len(chain') # 1
  BY <1>2, <1>3, SMT
<1>7. \A a : HandledAt(a, m)' <=> HandledAt(a, m)
  BY <1>1 DEF HandledAt
<1>8. \A a : ForwardedTo(a, m)' <=> ForwardedTo(a, m)
  BY <1>1 DEF ForwardedTo
<1>9. \A a : Has(a, m)' <=> Has(a, m)
  BY <1>1, <1>7 DEF Has, Holds
<1>10. \A a : Served(a, m)' <=> Served(a, m)
  BY <1>1 DEF Served, Holds
<1>11. Lost(m)' <=> Lost(m)
  BY <1>1, <1>7, <1>8 DEF Lost
<1>12. \A h : Owners(h, m)' \subseteq Nodes /\ Owners(h, m) \subseteq Nodes
  BY DEF Owners, Members
<1>13. OwnersServed(m)'
  <2>1. CASE todo[m] = Nodes
    BY <1>1, <1>12, <2>1 DEF OwnersServed, Served
  <2>2. CASE Lost(m)
    BY <1>11, <2>2 DEF OwnersServed
  <2>3. CASE todo[m] # Nodes /\ ~Lost(m)
    <3>1. PICK a \in Owners(Len(chain), m) : Has(a, m)
      BY <1>1, <1>5, <2>3, SomeOwnerHas
    <3>2. Source(m)'
      <4>1. a \in Owners(Len(chain) - 1, m)'
        BY <1>4, <1>6, <3>1
      <4>2. height'[a] = Len(chain') - 1
        BY <1>1, <1>5, <1>6, <1>12, <3>1
      <4>3. QED
        BY <1>6, <1>9, <3>1, <4>1, <4>2 DEF Source
    <3>3. ~Source(m)
      <4>1. Len(chain) # Len(chain) - 1
        BY <1>2, SMT
      <4>2. QED
        BY <1>5, <1>12, <4>1 DEF Source
    <3>4. \A x \in Owners(Len(chain), m) : Served(x, m)
      BY <2>3, <3>3 DEF Follows, OwnersServed
    <3>5. Owners(Len(chain) - 1, m)' = Owners(Len(chain), m)
      BY <1>4, <1>6
    <3>6. QED
      BY <1>10, <3>2, <3>4, <3>5 DEF OwnersServed
  <2>4. QED
    BY <2>1, <2>2, <2>3
<1>14. HandlersOwn(m)'
  <2>1. \A x \in handlers : height[x.node] \in 1 .. Len(chain)
    BY <1>5, <1>6 DEF IInv, TypeOK
  <2>2. QED
    BY <1>1, <1>4, <2>1 DEF Follows, HandlersOwn
<1>15. ForwardsRooted(m)'
  <2>1. \A x \in net : x.type = "storage_cc" => x.sent = Len(chain)
    BY <1>1 DEF Settled
  <2>2. Len(chain) # 0 /\ Len(chain) # Len(chain')
    BY <1>2, <1>3, SMT
  <2>3. QED
    BY <1>1, <2>1, <2>2 DEF ForwardsRooted
<1>16. FirstBlock(m)'
  BY <1>6 DEF FirstBlock
<1>17. QED
  BY <1>13, <1>14, <1>15, <1>16 DEF Follows

\* The nodes know the swarms of the block that they have taken over, at every step.
LEMMA BlocksStayKnown ==
    ASSUME IInv, IInv', BlocksKnown, Next
    PROVE  BlocksKnown'
<1>1. Len(chain) \in Nat \ {0} /\ Latest = chain[Len(chain)] /\ chain \in Seq(Block)
  BY Blocks DEF IInv, TypeOK
<1>2. /\ height \in [Nodes -> 0 .. Len(chain)] /\ cur_swarm_id \in [Nodes -> Positions]
      /\ swarms \in [Nodes -> Block]
  <2>1. cur_swarm_id \in Block /\ SwarmIds \cup {INVALID_SWARM_ID} \subseteq Positions
    BY SwarmUpdateAssumption, RingAssumption, SMT DEF IInv, TypeOK, Positions, INVALID_SWARM_ID
  <2>2. QED
    BY <2>1 DEF IInv, TypeOK, Block
<1>3. ASSUME NEW n \in Nodes, NEW s \in SwarmIds \cup {INVALID_SWARM_ID}, NewBlock(n, s)
      PROVE  BlocksKnown'
  <2>1. PICK b : b = [Latest EXCEPT ![n] = s]
    OBVIOUS
  <2>2. b \in Block
    <3>1. Latest \in Block
      BY <1>1, SMT
    <3>2. QED
      BY <2>1, <3>1 DEF Block
  <2>3. /\ chain' = Append(chain, b) /\ height' = height
        /\ cur_swarm_id' = cur_swarm_id /\ swarms' = swarms
        /\ Latest[n] # s /\ (s = INVALID_SWARM_ID => Members(Latest, Latest[n]) # {n})
    BY <1>3, <2>1 DEF NewBlock, nodeVars
  <2>4. /\ Len(chain') = Len(chain) + 1 /\ chain'[Len(chain) + 1] = b
        /\ \A h \in 1 .. Len(chain) : chain'[h] = chain[h]
    BY <1>1, <2>2, <2>3, SMT
  <2>5. Latest' = b
    BY <2>4 DEF Latest
  <2>6. OneMove(chain[Len(chain)], b)
    BY <1>1, <2>1, <2>3 DEF OneMove
  <2>7. OneMove(chain[Len(chain) - 1], Latest)'
    <3>1. Len(chain') - 1 = Len(chain) /\ Len(chain) \in 1 .. Len(chain)
      BY <1>1, <2>4, SMT
    <3>2. chain'[Len(chain') - 1] = chain[Len(chain)]
      BY <2>4, <3>1
    <3>3. QED
      BY <2>5, <2>6, <3>2 DEF OneMove, Members
  <2>8. \A h \in 1 .. Len(chain') : SwarmIdsOf(chain'[h]) # {}
    <3>1. SwarmIdsOf(b) # {}
      BY <2>5 DEF IInv, SomeSwarm
    <3>2. \A h \in 1 .. Len(chain') : h \in 1 .. Len(chain) \/ h = Len(chain) + 1
      BY <1>1, <2>4, SMT
    <3>3. QED
      BY <2>4, <3>1, <3>2 DEF BlocksKnown
  <2>9. \A x \in Nodes : height[x] # 0 => chain'[height[x]] = chain[height[x]]
    BY <1>1, <1>2, <2>4, SMT
  <2>10. \A x \in Nodes : cur_swarm_id[x] # INVALID_SWARM_ID => height[x] # 0
    BY DEF IInv, PeersOfBlock
  <2>11. \A x \in Nodes :
            /\ height'[x] # 0 => cur_swarm_id'[x] = chain'[height'[x]][x]
            /\ cur_swarm_id'[x] # INVALID_SWARM_ID => swarms'[x] = chain'[height'[x]]
    BY <2>3, <2>9, <2>10 DEF BlocksKnown
  <2>12. QED
    BY <2>7, <2>8, <2>11 DEF BlocksKnown, SwarmIdsOf
<1>4. ASSUME chain' = chain,
             \A x \in Nodes :
                 /\ height'[x] # 0 => cur_swarm_id'[x] = chain[height'[x]][x]
                 /\ cur_swarm_id'[x] # INVALID_SWARM_ID => swarms'[x] = chain[height'[x]]
      PROVE  BlocksKnown'
  <2>1. Len(chain)' = Len(chain) /\ Latest' = Latest
    BY <1>4, SameBlocks
  <2>2. \A h \in 1 .. Len(chain') : SwarmIdsOf(chain'[h]) # {}
    BY <1>4 DEF BlocksKnown
  <2>3. Len(chain') > 1 => OneMove(chain'[Len(chain') - 1], Latest')
    BY <1>4, <2>1 DEF BlocksKnown
  <2>4. QED
    BY <1>4, <2>2, <2>3 DEF BlocksKnown, SwarmIdsOf, OneMove, Members
<1>5. ASSUME NEW n \in Nodes, OnSwarmUpdate(n) PROVE BlocksKnown'
  <2>1. /\ chain' = chain /\ height' = [height EXCEPT ![n] = Len(chain)]
        /\ cur_swarm_id' = [cur_swarm_id EXCEPT ![n] = Latest[n]]
        /\ Ready(n, Latest) => swarms' = [swarms EXCEPT ![n] = Latest]
        /\ ~Ready(n, Latest) => swarms' = swarms
    BY <1>5 DEF OnSwarmUpdate
  <2>2. ASSUME NEW x \in Nodes
        PROVE  /\ height'[x] # 0 => cur_swarm_id'[x] = chain[height'[x]][x]
               /\ cur_swarm_id'[x] # INVALID_SWARM_ID => swarms'[x] = chain[height'[x]]
    <3>1. CASE x = n
      <4>1. height'[n] = Len(chain) /\ cur_swarm_id'[n] = Latest[n]
        BY <1>2, <2>1
      <4>2. Ready(n, Latest) => swarms'[n] = Latest
        BY <1>2, <2>1
      <4>3. QED
        BY <1>1, <3>1, <4>1, <4>2 DEF Ready
    <3>2. CASE x # n
      <4>1. height'[x] = height[x] /\ cur_swarm_id'[x] = cur_swarm_id[x] /\ swarms'[x] = swarms[x]
        BY <1>2, <2>1, <3>2
      <4>2. QED
        BY <4>1 DEF BlocksKnown
    <3>3. QED
      BY <3>1, <3>2
  <2>3. QED
    BY <1>4, <2>1, <2>2
<1>6. ASSUME NEW n \in Nodes, Restart(n) PROVE BlocksKnown'
  <2>1. /\ chain' = chain /\ height' = [height EXCEPT ![n] = 0]
        /\ cur_swarm_id' = [cur_swarm_id EXCEPT ![n] = INVALID_SWARM_ID]
        /\ swarms' = [swarms EXCEPT ![n] = NoSwarms]
    BY <1>6 DEF Restart
  <2>2. ASSUME NEW x \in Nodes
        PROVE  /\ height'[x] # 0 => cur_swarm_id'[x] = chain[height'[x]][x]
               /\ cur_swarm_id'[x] # INVALID_SWARM_ID => swarms'[x] = chain[height'[x]]
    BY <1>2, <2>1 DEF BlocksKnown
  <2>3. QED
    BY <1>4, <2>1, <2>2
<1>7. ASSUME UNCHANGED <<chain, nodeVars>> PROVE BlocksKnown'
  <2>1. chain' = chain /\ height' = height /\ cur_swarm_id' = cur_swarm_id /\ swarms' = swarms
    BY <1>7 DEF nodeVars
  <2>2. QED
    BY <1>4, <2>1 DEF BlocksKnown
<1>8. QED
  BY <1>3, <1>5, <1>6, <1>7
     DEF Next, CheckStore, Distribute, ProcessStore, HandleForwarded, ProcessPushBatch

\* A step that leaves the data intact and no node behind keeps what holds of each message.
LEMMA FollowsPreserved ==
    ASSUME IInv, BlocksKnown, intact /\ InStep => \A m \in Messages : Follows(m),
           Next, intact', InStep', NEW m \in Messages
    PROVE  Follows(m)'
<1>1. Len(chain) \in Nat \ {0} /\ height \in [Nodes -> 0 .. Len(chain)]
  BY Blocks DEF IInv, TypeOK
<1>2. intact
  BY DEF Next, NewBlock, OnSwarmUpdate, Restart, CheckStore, Distribute, ProcessStore,
         HandleForwarded, ProcessPushBatch
<1>3. InStep => Follows(m)
  BY <1>2
<1>4. ASSUME NEW n \in Nodes, NEW s \in SwarmIds \cup {INVALID_SWARM_ID}, NewBlock(n, s)
      PROVE  Follows(m)'
  <2>1. chain \in Seq(Block) /\ height' = height /\ Len(chain') = Len(chain) + 1
    BY <1>4, SMT DEF NewBlock, nodeVars, IInv, TypeOK
  <2>2. \A a \in Nodes : height[a] >= Len(chain) + 1 - 1
    BY <2>1, SMT DEF InStep
  <2>3. InStep
    BY <1>1, <2>2, SMT DEF InStep
  <2>4. QED
    BY <1>3, <1>4, <2>3, NewBlockFollows
<1>5. ASSUME NEW n \in Nodes, OnSwarmUpdate(n) PROVE Follows(m)'
  <2>1. /\ chain' = chain /\ height[n] = Len(chain) - 1
        /\ height' = [height EXCEPT ![n] = Len(chain)]
    BY <1>5 DEF OnSwarmUpdate
  <2>2. \A a \in Nodes : height'[a] >= Len(chain) - 1
    BY <2>1 DEF InStep
  <2>3. ASSUME NEW a \in Nodes PROVE height[a] >= Len(chain) - 1
    <3>1. CASE a = n
      BY <1>1, <2>1, <3>1, SMT
    <3>2. CASE a # n
      BY <1>1, <2>1, <2>2, <3>2
    <3>3. QED
      BY <3>1, <3>2
  <2>4. InStep
    BY <2>3 DEF InStep
  <2>5. QED
    BY <1>3, <1>5, <2>4, OnSwarmUpdateFollows
<1>6. ASSUME NEW n \in Nodes, Restart(n) PROVE Follows(m)'
  <2>1. chain' = chain /\ height'[n] = 0
    BY <1>1, <1>6 DEF Restart
  <2>2. 0 >= Len(chain) - 1
    BY <2>1 DEF InStep
  <2>3. Len(chain) = 1
    <3>1. \A i \in Nat \ {0} : 0 >= i - 1 => i = 1
      BY SMT
    <3>2. QED
      BY <1>1, <2>2, <3>1
  <2>4. InStep
    <3>1. \A i \in 0 .. 1 : i >= 1 - 1
      BY SMT
    <3>2. \A a \in Nodes : height[a] \in 0 .. 1
      BY <1>1, <2>3
    <3>3. QED
      BY <2>3, <3>1, <3>2 DEF InStep
  <2>5. QED
    BY <1>3, <1>6, <2>3, <2>4, RestartFollows
<1>7. ASSUME UNCHANGED <<chain, nodeVars>> PROVE InStep
  BY <1>7 DEF InStep, nodeVars
<1>8. ASSUME NEW n \in Nodes, NEW j \in Messages, CheckStore(n, j) PROVE Follows(m)'
  BY <1>3, <1>7, <1>8, CheckStoreFollows DEF CheckStore
<1>9. ASSUME NEW x \in handlers, Distribute(x) PROVE Follows(m)'
  BY <1>3, <1>7, <1>9, DistributeFollows DEF Distribute
<1>10. ASSUME NEW x \in handlers, ProcessStore(x) PROVE Follows(m)'
  BY <1>3, <1>7, <1>10, ProcessStoreFollows DEF ProcessStore
<1>11. ASSUME NEW x \in net, HandleForwarded(x) PROVE Follows(m)'
  BY <1>3, <1>7, <1>11, HandleForwardedFollows DEF HandleForwarded
<1>12. ASSUME NEW x \in net, ProcessPushBatch(x) PROVE Follows(m)'
  BY <1>3, <1>7, <1>12, ProcessPushBatchFollows DEF ProcessPushBatch
<1>13. QED
  BY <1>4, <1>5, <1>6, <1>8, <1>9, <1>10, <1>11, <1>12 DEF Next

\* Whatever moves, restarts and stores there are, as long as nothing has happened that may leave
\* data behind: every owner of a message has it, is still to store it, or is sent it by an owner
\* of the block before (on_swarm_update, relay_messages and bootstrap_swarms).
THEOREM FollowInvariant == Spec => []FollowInv
<1>1. Init /\ IInv => FollowInv
  <2>1. SUFFICES ASSUME Init, IInv PROVE FollowInv
    OBVIOUS
  <2>2. PICK b \in Block : chain = <<b>> /\ SwarmIdsOf(b) # {}
    BY <2>1 DEF Init
  <2>3. Len(chain) = 1 /\ chain[1] = b
    BY <2>2
  <2>4. BlocksKnown
    <3>1. ~(Len(chain) > 1) /\ \A h \in 1 .. Len(chain) : h = 1
      BY <2>3, SMT
    <3>2. \A n \in Nodes : height[n] = 0 /\ cur_swarm_id[n] = INVALID_SWARM_ID
      BY <2>1 DEF Init, NoSwarms
    <3>3. QED
      BY <2>2, <2>3, <3>1, <3>2 DEF BlocksKnown
  <2>5. ASSUME NEW m \in Messages PROVE Follows(m)
    <3>1. handlers = {} /\ net = {} /\ todo[m] = Nodes
      BY <2>1 DEF Init
    <3>2. \A n : ~ForwardedTo(n, m)
      BY <3>1 DEF ForwardedTo
    <3>3. FirstBlock(m)
      BY <3>1, <3>2 DEF FirstBlock, Unsent
    <3>4. OwnersServed(m)
      BY <3>1 DEF OwnersServed, Served, Owners, Members
    <3>5. QED
      BY <3>1, <3>3, <3>4 DEF Follows, HandlersOwn, ForwardsRooted
  <2>6. QED
    BY <2>1, <2>4, <2>5 DEF FollowInv
<1>2. FollowInv /\ IInv' /\ [Next]_vars => FollowInv'
  <2>1. SUFFICES ASSUME FollowInv, IInv', [Next]_vars PROVE FollowInv'
    OBVIOUS
  <2>2. CASE Next
    <3>1. BlocksKnown'
      BY <2>1, <2>2, BlocksStayKnown DEF FollowInv
    <3>2. ASSUME intact', InStep', NEW m \in Messages PROVE Follows(m)'
      BY <2>1, <2>2, <3>2, FollowsPreserved DEF FollowInv
    <3>3. QED
      BY <2>1, <3>1, <3>2 DEF FollowInv
  <2>3. CASE UNCHANGED vars
    <3>1. /\ chain' = chain /\ height' = height /\ cur_swarm_id' = cur_swarm_id
          /\ swarms' = swarms /\ db' = db /\ handlers' = handlers
          /\ todo' = todo /\ net' = net /\ intact' = intact
      BY <2>3 DEF vars, nodeVars
    <3>2. BlocksKnown'
      <4>1. BlocksKnown /\ Latest' = Latest
        BY <2>1, <3>1, SameBlocks DEF FollowInv
      <4>2. /\ \A h \in 1 .. Len(chain') : SwarmIdsOf(chain'[h]) # {}
            /\ Len(chain') > 1 => OneMove(chain'[Len(chain') - 1], Latest')
        BY <3>1, <4>1 DEF BlocksKnown
      <4>3. \A n \in Nodes :
               /\ height'[n] # 0 => cur_swarm_id'[n] = chain'[height'[n]][n]
               /\ cur_swarm_id'[n] # INVALID_SWARM_ID => swarms'[n] = chain'[height'[n]]
        BY <3>1, <4>1 DEF BlocksKnown
      <4>4. QED
        BY <4>2, <4>3 DEF BlocksKnown, SwarmIdsOf, OneMove, Members
    <3>3. InStep' => InStep
      BY <3>1 DEF InStep
    <3>4. ASSUME intact', InStep', NEW m \in Messages PROVE Follows(m)'
      <4>1. Follows(m)
        BY <2>1, <3>1, <3>3, <3>4 DEF FollowInv
      <4>2. \A n \in Nodes : Holds(n, m)' <=> Holds(n, m)
        BY <3>1 DEF Holds
      <4>3. QED
        BY <3>1, <4>1, <4>2, Untouched
    <3>5. QED
      BY <2>1, <3>2, <3>4 DEF FollowInv
  <2>4. QED
    BY <2>1, <2>2, <2>3
<1>3. QED
  BY <1>1, <1>2, SwarmInvariant, PTL DEF Spec

\* Every acknowledged message is on all members of the swarm that its account belongs to now,
\* once everything has arrived and unless a block, an update or a restart came at a time that
\* may leave data behind: for any number of nodes, swarms, messages and blocks.
THEOREM DataAlwaysFollows == Spec => []DataFollows
<1>1. FollowInv => DataFollows
  <2>1. SUFFICES ASSUME FollowInv, intact, Quiet, NEW m \in Messages, todo[m] = {},
                        NEW n \in Members(Latest, SwarmOf(Latest, m))
                 PROVE  Holds(n, m)
    BY DEF DataFollows, Acknowledged
  <2>2. Len(chain) \in Nat \ {0} /\ net = {} /\ \A a \in Nodes : height[a] = Len(chain)
    BY <2>1, Blocks DEF FollowInv, Quiet
  <2>3. \A i \in Nat \ {0} : i >= i - 1 /\ i # i - 1
    BY SMT
  <2>4. InStep
    BY <2>2, <2>3 DEF InStep
  <2>5. Follows(m)
    BY <2>1, <2>4 DEF FollowInv
  <2>6. ~Source(m)
    <3>1. \A h : Owners(h, m) \subseteq Nodes
      BY DEF Owners, Members
    <3>2. Len(chain) # Len(chain) - 1
      BY <2>2, <2>3
    <3>3. QED
      BY <2>2, <3>1, <3>2 DEF Source
  <2>7. ~Lost(m)
    BY <2>1 DEF Lost
  <2>8. n \in Owners(Len(chain), m)
    BY <2>1 DEF Owners, Latest
  <2>9. Served(n, m)
    BY <2>5, <2>6, <2>7, <2>8 DEF Follows, OwnersServed
  <2>10. QED
    BY <2>1, <2>2, <2>9 DEF Served
<1>2. QED
  BY <1>1, FollowInvariant, PTL
=============================================================================
