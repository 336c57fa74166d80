----------------------------- MODULE SwarmUpdate -----------------------------
(***************************************************************************)
(* Swarm membership and the data that follows it (Swarm in oxenss/snode/   *)
(* swarm.cpp, on_swarm_update and the relaying functions of oxenss/snode/  *)
(* service_node.cpp).  Each block of the chain assigns the service nodes   *)
(* to swarms.  A node learns of blocks at its own pace, always of the      *)
(* latest one; it derives what changed, takes over the new state, and      *)
(* pushes the messages it holds to nodes that have joined its swarm, to    *)
(* new swarms that now own them, or, when its swarm is gone, to whichever  *)
(* swarm owns them.  Clients store messages meanwhile.                     *)
(*                                                                         *)
(* The handler of a store checks that the account is its own, forwards the *)
(* message to its peers and stores it in three separate steps: sn_mutex_   *)
(* is taken by each and released in between.                               *)
(***************************************************************************)
EXTENDS SwarmSpace, Sequences

CONSTANTS
    Nodes,          \* the service nodes
    SwarmIds,       \* the swarm ids that the chain hands out
    Messages,       \* messages that clients may store, one store each
    Position,       \* pubkey_to_swarm_space of the account of each message
    Namespace,      \* the namespace that each message is stored in
    ForceStart,     \* nodes run with force_start
    MaxEvents       \* bound on blocks and restarts, together

Default == 0    \* namespace_id::Default
NONE == -1      \* not stored; namespaces here are not negative

ASSUME SwarmUpdateAssumption ==
    /\ SwarmIds \subseteq Positions \ {INVALID_SWARM_ID}
    /\ Position \in [Messages -> Positions]
    /\ Namespace \in [Messages -> Nat]
    /\ ForceStart \subseteq Nodes
    /\ MaxEvents \in Nat

VARIABLES
    chain,          \* the blocks: each the swarm of every node
    height,         \* the block each node has taken over (0: none since it started)
    cur_swarm_id,   \* Swarm::cur_swarm_id_ of each node
    swarms,         \* Swarm::all_valid_swarms_ of each node, as the nodes' swarms
    swarm_peers,    \* Swarm::swarm_peers_ of each node
    db,             \* the namespace each node has each message in, or NONE
    handlers,       \* store handlers under way: [node, msg, at]
    todo,           \* the nodes that have still to store a message
    net,            \* forwarded stores and pushed messages on their way
    restarts,       \* how many restarts there have been
    intact          \* history: nothing has happened that may leave data behind

nodeVars == <<height, cur_swarm_id, swarms, swarm_peers>>
vars == <<chain, nodeVars, db, handlers, todo, net, restarts, intact>>

Block == [Nodes -> SwarmIds \cup {INVALID_SWARM_ID}]
Latest == chain[Len(chain)]

Members(b, s) == {n \in Nodes : b[n] = s}
SwarmIdsOf(b) == {b[n] : n \in Nodes} \ {INVALID_SWARM_ID}
SwarmOf(b, m) == GetSwarmByPk(SwarmIdsOf(b), Position[m])

NoSwarms == [n \in Nodes |-> INVALID_SWARM_ID]
Nothing == [m \in Messages |-> NONE]

Init ==
    /\ chain \in {<<b>> : b \in {x \in Block : SwarmIdsOf(x) # {}}}
    /\ height = [n \in Nodes |-> 0]
    /\ cur_swarm_id = NoSwarms
    /\ swarms = [n \in Nodes |-> NoSwarms]
    /\ swarm_peers = [n \in Nodes |-> {}]
    /\ db = [n \in Nodes |-> Nothing]
    /\ handlers = {}
    /\ todo = [m \in Messages |-> Nodes]
    /\ net = {}
    /\ restarts = 0
    /\ intact = TRUE

-----------------------------------------------------------------------------
(***************************************************************************)
(* The chain (oxend): one node at a time joins, leaves or changes swarm,   *)
(* and the last member of a swarm does not just leave.                     *)
(***************************************************************************)
Settled == \A x \in net : x.type = "storage_cc" /\ x.sent = Len(chain)

NewBlock(n, s) ==
    /\ Len(chain) + restarts < MaxEvents
    /\ Latest[n] # s
    /\ s = INVALID_SWARM_ID => Members(Latest, Latest[n]) # {n}
    /\ chain' = Append(chain, [Latest EXCEPT ![n] = s])
    /\ intact' = (intact /\ Settled)
    /\ UNCHANGED <<nodeVars, db, handlers, todo, net, restarts>>

(***************************************************************************)
(* A node takes over the latest block.                                     *)
(***************************************************************************)
Stays(n, b) == cur_swarm_id[n] # INVALID_SWARM_ID /\ b[n] = cur_swarm_id[n]

\* Mutant of NewSnodes: only nodes that were in no swarm count as new.
NewSnodesUnassigned(n, b) ==
    IF Stays(n, b)
    THEN {x \in Members(b, b[n]) \ (swarm_peers[n] \cup {n}) :
              swarms[n][x] = INVALID_SWARM_ID}
    ELSE {}

\* SwarmEvents::new_snodes
NewSnodes(n, b) ==
    IF Stays(n, b) THEN Members(b, b[n]) \ (swarm_peers[n] \cup {n}) ELSE {}

\* SwarmEvents::new_swarms
NewSwarms(n, b) ==
    IF Stays(n, b) THEN SwarmIdsOf(b) \ SwarmIdsOf(swarms[n]) ELSE {}

\* SwarmEvents::dissolved
Dissolved(n, b) ==
    /\ b[n] # INVALID_SWARM_ID
    /\ cur_swarm_id[n] \notin SwarmIdsOf(b) \cup {INVALID_SWARM_ID}

Ready(n, b) == b[n] # INVALID_SWARM_ID \/ n \in ForceStart

Holds(n, m) == db[n][m] # NONE

\* What a push carries: serialize_messages has no field for the namespace, and
\* deserialize_messages leaves the default one.
Push(to, m) == [type |-> "data", to |-> to, msg |-> m, ns |-> Default]

\* relay_messages to new nodes, and bootstrap_swarms for new swarms or for all.
Relayed(n, b) ==
    LET held == {m \in Messages : Holds(n, m)}
    IN  {Push(to, m) : to \in NewSnodes(n, b), m \in held}
        \cup UNION {{Push(to, m) : to \in Members(b, SwarmOf(b, m))} :
                m \in {x \in held : Dissolved(n, b) \/ SwarmOf(b, x) \in NewSwarms(n, b)}}

\* Mutant of PeersAfter: a node that moves keeps the peers of its old swarm.
PeersAfterStaying(n, b) ==
    IF Stays(n, b) \/ cur_swarm_id[n] = INVALID_SWARM_ID
    THEN Members(b, b[n]) \ {n} ELSE swarm_peers[n]

\* update_state returns early for a node without a swarm.
PeersAfter(n, b) ==
    IF b[n] # INVALID_SWARM_ID THEN Members(b, b[n]) \ {n} ELSE swarm_peers[n]

\* on_swarm_update
OnSwarmUpdate(n) ==
    /\ height[n] # Len(chain)
    /\ height' = [height EXCEPT ![n] = Len(chain)]
    /\ cur_swarm_id' = [cur_swarm_id EXCEPT ![n] = Latest[n]]
    /\ IF Ready(n, Latest)
       THEN /\ swarms' = [swarms EXCEPT ![n] = Latest]
            /\ swarm_peers' = [swarm_peers EXCEPT ![n] = PeersAfter(n, Latest)]
            /\ net' = net \cup Relayed(n, Latest)
       ELSE UNCHANGED <<swarms, swarm_peers, net>>
    /\ intact' = (/\ intact
                  /\ height[n] = Len(chain) - 1
                  /\ \A x \in handlers : x.node # n)
    /\ UNCHANGED <<chain, db, handlers, todo, restarts>>

\* The process ends and starts again with its database.
Restart(n) ==
    /\ Len(chain) + restarts < MaxEvents
    /\ restarts' = restarts + 1
    /\ height' = [height EXCEPT ![n] = 0]
    /\ cur_swarm_id' = [cur_swarm_id EXCEPT ![n] = INVALID_SWARM_ID]
    /\ swarms' = [swarms EXCEPT ![n] = NoSwarms]
    /\ swarm_peers' = [swarm_peers EXCEPT ![n] = {}]
    /\ handlers' = {x \in handlers : x.node # n}
    /\ UNCHANGED <<chain, db, todo, net, intact>>

-----------------------------------------------------------------------------
(***************************************************************************)
(* Storing and pushing.                                                    *)
(***************************************************************************)
IsPubkeyForUs(n, m) ==
    /\ SwarmIdsOf(swarms[n]) # {}
    /\ cur_swarm_id[n] = SwarmOf(swarms[n], m)

\* A message that the database has already keeps its row.
StoreIn(n, m, ns) ==
    db' = IF Holds(n, m) THEN db ELSE [db EXCEPT ![n][m] = ns]

\* The entry node's check of the account.
CheckStore(n, m) ==
    /\ todo[m] = Nodes /\ \A x \in handlers : x.msg # m
    /\ IsPubkeyForUs(n, m)
    /\ handlers' = handlers \cup {[node |-> n, msg |-> m, at |-> "checked"]}
    /\ UNCHANGED <<chain, nodeVars, db, todo, net, restarts, intact>>

\* distribute_command with the peers of now.
Distribute(x) ==
    /\ x.at = "checked"
    /\ handlers' = (handlers \ {x}) \cup {[x EXCEPT !.at = "store"]}
    /\ todo' = [todo EXCEPT ![x.msg] = {x.node} \cup swarm_peers[x.node]]
    /\ net' = net \cup {[type |-> "storage_cc", to |-> p, msg |-> x.msg, sent |-> height[x.node]] :
                            p \in swarm_peers[x.node]}
    /\ UNCHANGED <<chain, nodeVars, db, restarts, intact>>

\* process_store, on the entry node or on a peer.
ProcessStore(x) ==
    /\ x.at = "store"
    /\ handlers' = handlers \ {x}
    /\ StoreIn(x.node, x.msg, Namespace[x.msg])
    /\ todo' = [todo EXCEPT ![x.msg] = @ \ {x.node}]
    /\ UNCHANGED <<chain, nodeVars, net, restarts, intact>>

\* A peer checks the account in its own view, and may refuse.
HandleForwarded(x) ==
    /\ x.type = "storage_cc"
    /\ net' = net \ {x}
    /\ handlers' = IF IsPubkeyForUs(x.to, x.msg)
                   THEN handlers \cup {[node |-> x.to, msg |-> x.msg, at |-> "store"]}
                   ELSE handlers
    /\ UNCHANGED <<chain, nodeVars, db, todo, restarts, intact>>

\* process_push_batch takes whatever it is sent; save_bulk swallows a failure.
ProcessPushBatch(x) ==
    /\ x.type = "data"
    /\ net' = net \ {x}
    /\ \/ StoreIn(x.to, x.msg, x.ns) /\ UNCHANGED intact
       \/ UNCHANGED db /\ intact' = FALSE
    /\ UNCHANGED <<chain, nodeVars, handlers, todo, restarts>>

Next ==
    \/ \E n \in Nodes, s \in SwarmIds \cup {INVALID_SWARM_ID} : NewBlock(n, s)
    \/ \E n \in Nodes : OnSwarmUpdate(n) \/ Restart(n)
    \/ \E n \in Nodes, m \in Messages : CheckStore(n, m)
    \/ \E x \in handlers : Distribute(x) \/ ProcessStore(x)
    \/ \E x \in net : HandleForwarded(x) \/ ProcessPushBatch(x)

Spec == Init /\ [][Next]_vars

-----------------------------------------------------------------------------
TypeOK ==
    /\ chain \in Seq(Block) /\ chain # <<>>
    /\ height \in [Nodes -> 0 .. Len(chain)]
    /\ cur_swarm_id \in Block
    /\ swarms \in [Nodes -> Block]
    /\ swarm_peers \in [Nodes -> SUBSET Nodes]
    /\ db \in [Nodes -> [Messages -> Nat \cup {NONE}]]
    /\ handlers \subseteq [node : Nodes, msg : Messages, at : {"checked", "store"}]
    /\ todo \in [Messages -> SUBSET Nodes]
    /\ net \subseteq [type : {"storage_cc"}, to : Nodes, msg : Messages, sent : 0 .. Len(chain)]
                  \cup [type : {"data"}, to : Nodes, msg : Messages, ns : {Default}]
    /\ restarts \in Nat
    /\ intact \in BOOLEAN

\* Nodes of the same swarm that have taken over the same block forward stores to each
\* other: however they got there, by moves, decommissions, skipped blocks or restarts,
\* neither misses the other or has kept a peer of an earlier swarm.
PeersAgree ==
    \A m, n \in Nodes :
        (height[m] = height[n] /\ INVALID_SWARM_ID \notin {cur_swarm_id[m], cur_swarm_id[n]})
            => (m \in swarm_peers[n] <=> cur_swarm_id[m] = cur_swarm_id[n] /\ m # n)

\* The swarm that get_swarm_by_pk finds for any account, in any set of swarms that the
\* chain leads to, is the nearest one, around the top of the uint64_t range too.
NearestSwarm == \A p \in Positions : IsNearest(SwarmIdsOf(Latest), p)

\* A message that every node asked to has stored.
Acknowledged(m) == todo[m] = {}

Quiet ==
    /\ net = {} /\ handlers = {}
    /\ \A n \in Nodes : height[n] = Len(chain)

\* The data follows the swarms: when every node has taken over the blocks one by one without
\* a restart in between, each block came after the pushes of the one before had arrived, and
\* no store straddled an update of its node, then every acknowledged message is on all
\* members of the swarm that its account belongs to now.
DataFollows ==
    (intact /\ Quiet) =>
        \A m \in Messages : Acknowledged(m) =>
            \A n \in Members(Latest, SwarmOf(Latest, m)) : Holds(n, m)
=============================================================================
