----------------------------- MODULE ServiceNode -----------------------------
(***************************************************************************)
(* How one service node follows the chain (oxenss/snode/service_node.cpp): *)
(* the requests of update_swarms to the local oxend and their callbacks,   *)
(* the block notifications that oxend pushes while the node is subscribed, *)
(* the syncing mode with its bootstrap from seed nodes and its one-hour    *)
(* timer, and the state that on_swarm_update takes over from a block.      *)
(*                                                                         *)
(* A block stands for its height, its hash and the lists it carries, so    *)
(* the parts of the node's state that come from a block are recorded as    *)
(* that block; 0 is "none yet".  What an update makes the node push to     *)
(* other nodes is in SwarmUpdate.  The callback of update_swarms clears    *)
(* updating_swarms_ first and waits for sn_mutex_ next, so another request *)
(* can be made, and answered, in between.                                  *)
(***************************************************************************)
EXTENDS Naturals, FiniteSets

CONSTANTS
    MaxBlock,       \* the chain ends here: later blocks carry nothing new
    MaxFaults,      \* bound on failed requests and restarts of oxend, together
    Seeds,          \* the seed nodes that bootstrap_data asks
    SwarmAt,        \* the swarm of this node at each block, or INVALID_SWARM_ID
    HardforkFrom,   \* the first block with STORAGE_SERVER_HARDFORK
    Decommissioned, \* the blocks at which this node is decommissioned
    Complete,       \* the blocks at which oxend knows enough of the other nodes
    ForceStart      \* force_start_

INVALID_SWARM_ID == 0

Blocks == 1 .. MaxBlock

ASSUME ServiceNodeAssumption ==
    /\ MaxBlock \in Nat \ {0} /\ MaxFaults \in Nat
    /\ IsFiniteSet(Seeds) /\ Seeds # {}
    /\ SwarmAt \in [Blocks -> Nat]
    /\ HardforkFrom \in Nat
    /\ Decommissioned \subseteq Blocks /\ Complete \subseteq Blocks
    /\ ForceStart \in BOOLEAN

VARIABLES
    chain,              \* oxend's latest block
    subscribed,         \* whether oxend sends us notify.block
    notified,           \* whether a notify.block is on its way or queued
    faults,             \* how many faults there have been
    updating_swarms,    \* updating_swarms_
    request,            \* the request of update_swarms that is outstanding
    waiting,            \* answers whose callbacks wait for sn_mutex_
    got_first_response, \* got_first_response_
    syncing,            \* syncing_
    timer,              \* whether the one-hour timer is still to fire
    target_height,      \* target_height_
    seeds,              \* the seed nodes that have still to answer
    hardfork,           \* whether hardfork_ is at least STORAGE_SERVER_HARDFORK
    block,              \* block_height_ and block_hash_
    active_sns,         \* the block or seed answer behind OMQ's active nodes
    status,             \* status_
    cur_swarm_id,       \* Swarm::cur_swarm_id_
    all_valid_swarms,   \* the block or seed answer behind Swarm::all_valid_swarms_
    swarm_peers,        \* the block behind Swarm::swarm_peers_
    all_funded_nodes,   \* the block or seed answer behind Swarm::all_funded_nodes_
    active,             \* active_
    shutting_down       \* shutting_down_

oxendVars == <<chain, subscribed, notified, faults>>
updateVars == <<updating_swarms, request, waiting>>
syncVars == <<syncing, timer, target_height, seeds>>
swarmVars == <<cur_swarm_id, all_valid_swarms, swarm_peers, all_funded_nodes>>
nodeVars == <<got_first_response, hardfork, block, active_sns, status, active, shutting_down>>
vars == <<oxendVars, updateVars, syncVars, swarmVars, nodeVars>>

NoRequest == [at |-> "none"]
Requests == {NoRequest}
    \cup [at : {"sent"}, poll : 0 .. MaxBlock]
    \cup [at : {"answered"}, block : Blocks, unchanged : BOOLEAN]

\* poll_block_hash is sent once there is a block to compare with.
Sent == [at |-> "sent", poll |-> IF got_first_response THEN block ELSE 0]

\* on_oxend_connected: the first request, and the subscription of the first oxend_ping.
Init ==
    /\ chain = 1 /\ subscribed = TRUE /\ notified = FALSE /\ faults = 0
    /\ updating_swarms = TRUE /\ request = [at |-> "sent", poll |-> 0] /\ waiting = {}
    /\ syncing = TRUE /\ timer = TRUE /\ target_height = 0 /\ seeds = {}
    /\ cur_swarm_id = INVALID_SWARM_ID
    /\ all_valid_swarms = 0 /\ swarm_peers = 0 /\ all_funded_nodes = 0
    /\ got_first_response = FALSE /\ hardfork = FALSE /\ block = 0 /\ active_sns = 0
    /\ status = "UNKNOWN" /\ active = FALSE /\ shutting_down = FALSE

-----------------------------------------------------------------------------
(***************************************************************************)
(* oxend and the requests to it.                                           *)
(***************************************************************************)
NewBlock ==
    /\ chain' = IF chain < MaxBlock THEN chain + 1 ELSE chain
    /\ notified' = (notified \/ subscribed)
    /\ UNCHANGED <<subscribed, faults, updateVars, syncVars, swarmVars, nodeVars>>

OxendRestarts ==
    /\ subscribed /\ faults < MaxFaults
    /\ subscribed' = FALSE
    /\ faults' = faults + 1
    /\ UNCHANGED <<chain, notified, updateVars, syncVars, swarmVars, nodeVars>>

\* oxend_ping renews the subscription.
OxendPing ==
    /\ ~subscribed
    /\ subscribed' = TRUE
    /\ UNCHANGED <<chain, notified, faults, updateVars, syncVars, swarmVars, nodeVars>>

\* update_swarms: no request while another one is outstanding.
UpdateSwarms ==
    IF updating_swarms THEN UNCHANGED updateVars
    ELSE /\ updating_swarms' = TRUE
         /\ request' = Sent
         /\ UNCHANGED waiting

\* The handler of notify.block.
NotifyBlock ==
    /\ notified
    /\ notified' = FALSE
    /\ UpdateSwarms
    /\ UNCHANGED <<chain, subscribed, faults, syncVars, swarmVars, nodeVars>>

OxendAnswers ==
    /\ request.at = "sent"
    /\ request' = [at |-> "answered", block |-> chain, unchanged |-> request.poll = chain]
    /\ UNCHANGED <<oxendVars, updating_swarms, waiting, syncVars, swarmVars, nodeVars>>

\* Mutant of RequestFails: a failed request leaves updating_swarms_ set.
RequestFailsFlagged ==
    /\ request # NoRequest /\ faults < MaxFaults
    /\ faults' = faults + 1
    /\ request' = NoRequest
    /\ UNCHANGED <<chain, subscribed, notified, updating_swarms, waiting, syncVars, swarmVars,
                   nodeVars>>

\* The callback of a request that timed out or failed.
RequestFails ==
    /\ request # NoRequest /\ faults < MaxFaults
    /\ faults' = faults + 1
    /\ request' = NoRequest
    /\ updating_swarms' = FALSE
    /\ UNCHANGED <<chain, subscribed, notified, waiting, syncVars, swarmVars, nodeVars>>

\* The callback of a request with an answer, up to its wait for sn_mutex_.  Under the lock
\* it ignores an answer that says "unchanged": the first request never gets one.
CallbackStarts ==
    /\ request.at = "answered"
    /\ updating_swarms' = FALSE
    /\ request' = NoRequest
    /\ waiting' = IF request.unchanged THEN waiting ELSE waiting \cup {request.block}
    /\ UNCHANGED <<oxendVars, syncVars, swarmVars, nodeVars>>

-----------------------------------------------------------------------------
(***************************************************************************)
(* The answer is applied.                                                  *)
(***************************************************************************)
\* count_missing_data and the thresholds decide whether to ask the seed nodes.
FirstResponse(b) ==
    /\ got_first_response' = TRUE
    /\ seeds' = IF ~got_first_response /\ b \notin Complete THEN Seeds ELSE seeds

\* Mutant of StillSyncing: a node that has finished syncing looks at the target height too.
StillSyncingAgain(b) ==
    /\ got_first_response \/ b \notin Complete
    /\ IF target_height # 0 THEN b < target_height ELSE syncing

StillSyncing(b) ==
    /\ syncing
    /\ got_first_response \/ b \notin Complete
    /\ target_height # 0 => b < target_height

\* derive_snode_status
DeriveStatus(b) ==
    IF SwarmAt[b] # INVALID_SWARM_ID THEN "ACTIVE"
    ELSE IF b \in Decommissioned THEN "DECOMMISSIONED" ELSE "UNSTAKED"

\* snode_ready, with the values the node has after taking over block b.
ReadyAt(b) ==
    /\ ~shutting_down
    /\ (b >= HardforkFrom /\ SwarmAt[b] # INVALID_SWARM_ID) \/ ForceStart

\* update_state of an active node: an empty list of members ends it early.
UpdateState(b) ==
    /\ all_valid_swarms' = b
    /\ IF SwarmAt[b] = INVALID_SWARM_ID THEN UNCHANGED <<swarm_peers, all_funded_nodes>>
       ELSE swarm_peers' = b /\ all_funded_nodes' = b

\* on_swarm_update
OnSwarmUpdate(b) ==
    /\ hardfork' = (b >= HardforkFrom)
    /\ syncing' = StillSyncing(b)
    /\ IF syncing' \/ b = block
       THEN UNCHANGED <<block, active_sns, status, active, swarmVars>>
       ELSE /\ block' = b
            /\ active_sns' = b
            /\ status' = DeriveStatus(b)
            /\ cur_swarm_id' = SwarmAt[b]
            /\ active' = (active \/ ReadyAt(b))
            /\ IF ReadyAt(b) THEN UpdateState(b)
               ELSE /\ all_funded_nodes' = all_valid_swarms
                    /\ UNCHANGED <<all_valid_swarms, swarm_peers>>

\* The rest of the callback, with sn_mutex_.
ApplyAnswer(b) ==
    /\ b \in waiting
    /\ waiting' = waiting \ {b}
    /\ FirstResponse(b)
    /\ OnSwarmUpdate(b)
    /\ UNCHANGED <<oxendVars, updating_swarms, request, timer, target_height, shutting_down>>

-----------------------------------------------------------------------------
(***************************************************************************)
(* Seed nodes, timers and the end.                                         *)
(***************************************************************************)
MaxOf(a, b) == IF a > b THEN a ELSE b

\* Mutant of OnBootstrapUpdate: the active nodes are taken over from a late answer too.
OnBootstrapUpdateAlways(b) ==
    /\ all_valid_swarms' = b
    /\ target_height' = MaxOf(target_height, b)
    /\ active_sns' = b

\* on_bootstrap_update
OnBootstrapUpdate(b) ==
    /\ all_valid_swarms' = b
    /\ target_height' = MaxOf(target_height, b)
    /\ active_sns' = IF syncing THEN b ELSE active_sns

\* The last of the seed nodes has answered or failed.
BootstrapDone ==
    IF target_height' > 0 THEN UpdateSwarms /\ UNCHANGED syncing
    ELSE syncing' = FALSE /\ UNCHANGED updateVars

\* The callback for seed node s, which may be at any block or fail.
SeedAnswers(s) ==
    /\ s \in seeds
    /\ seeds' = seeds \ {s}
    /\ \/ \E b \in Blocks : OnBootstrapUpdate(b)
       \/ UNCHANGED <<all_valid_swarms, target_height, active_sns>>
    /\ IF seeds' = {} THEN BootstrapDone ELSE UNCHANGED <<syncing, updateVars>>
    /\ UNCHANGED <<oxendVars, timer, cur_swarm_id, swarm_peers, all_funded_nodes,
                   got_first_response, hardfork, block, status, active, shutting_down>>

\* The timer against being stuck in syncing mode.
HourPasses ==
    /\ timer
    /\ timer' = FALSE
    /\ syncing' = FALSE
    /\ UNCHANGED <<oxendVars, updateVars, target_height, seeds, swarmVars, nodeVars>>

Shutdown ==
    /\ ~shutting_down
    /\ shutting_down' = TRUE
    /\ UNCHANGED <<oxendVars, updateVars, syncVars, swarmVars, got_first_response, hardfork, block,
                   active_sns, status, active>>

Next ==
    \/ NewBlock \/ OxendRestarts \/ OxendPing \/ OxendAnswers
    \/ NotifyBlock \/ RequestFails \/ CallbackStarts
    \/ \E b \in Blocks : ApplyAnswer(b)
    \/ \E s \in Seeds : SeedAnswers(s)
    \/ HourPasses \/ Shutdown

\* The chain goes on and oxend answers; OMQ runs queued jobs, callbacks and timers, and
\* ends every request by an answer or a timeout.
Fairness ==
    /\ WF_vars(NewBlock) /\ WF_vars(OxendPing) /\ WF_vars(OxendAnswers)
    /\ WF_vars(NotifyBlock) /\ WF_vars(CallbackStarts)
    /\ \A b \in Blocks : WF_vars(ApplyAnswer(b))
    /\ \A s \in Seeds : WF_vars(SeedAnswers(s))
    /\ WF_vars(HourPasses)

Spec == Init /\ [][Next]_vars /\ Fairness

-----------------------------------------------------------------------------
\* snode_ready
SnodeReady ==
    /\ ~shutting_down
    /\ (hardfork /\ cur_swarm_id # INVALID_SWARM_ID /\ ~syncing) \/ ForceStart

TypeOK ==
    /\ chain \in Blocks /\ subscribed \in BOOLEAN /\ notified \in BOOLEAN
    /\ faults \in 0 .. MaxFaults
    /\ updating_swarms \in BOOLEAN /\ request \in Requests /\ waiting \subseteq Blocks
    /\ got_first_response \in BOOLEAN /\ syncing \in BOOLEAN /\ timer \in BOOLEAN
    /\ {target_height, block, active_sns, all_valid_swarms, swarm_peers, all_funded_nodes}
           \subseteq 0 .. MaxBlock
    /\ seeds \subseteq Seeds
    /\ hardfork \in BOOLEAN /\ active \in BOOLEAN /\ shutting_down \in BOOLEAN
    /\ status \in {"UNKNOWN", "ACTIVE", "DECOMMISSIONED", "UNSTAKED"}
    /\ cur_swarm_id \in Nat

\* Nothing is taken over from a block before syncing ends.  From then on all that a block gives
\* the node is of the same block, but for the peers and the index of nodes of a node that was
\* not ready when it took it over.
NodeInv ==
    /\ syncing => (block = 0 /\ cur_swarm_id = INVALID_SWARM_ID)
    /\ cur_swarm_id # INVALID_SWARM_ID =>
          /\ block \in Blocks /\ active_sns = block
          /\ cur_swarm_id = SwarmAt[block]
          /\ hardfork <=> block >= HardforkFrom
          /\ (~shutting_down /\ (hardfork \/ ForceStart)) =>
                (swarm_peers = block /\ all_funded_nodes = block)

\* In a node that snode_ready lets serve clients, its swarm, its peers, the index of nodes it
\* sends to and the nodes OMQ takes as active are all those of the block it reports, whatever
\* order answers, seed nodes and decommissions came in.  Not so the list of all swarms, by
\* which is_pubkey_for_us tells whose account it is: bootstrap_swarms replaces it by the list
\* of a seed node's block even when that answer comes late.
ViewOfOneBlock ==
    (SnodeReady /\ cur_swarm_id # INVALID_SWARM_ID) =>
        /\ cur_swarm_id = SwarmAt[block]
        /\ swarm_peers = block /\ all_funded_nodes = block /\ active_sns = block

\* A node that has finished syncing never starts again, even when a late seed node raises
\* the target height above its own block.
SyncedForever == [][syncing' => syncing]_vars

\* The node ends up with oxend's latest block, out of syncing mode: lost or squelched
\* notifications, failed requests, a restart of oxend, an older answer that is applied after
\* a newer one and seed nodes that fail or are ahead only delay it.
CatchesUp == <>[](~syncing /\ block = chain)
=============================================================================
