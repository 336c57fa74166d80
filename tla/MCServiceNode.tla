---------------------------- MODULE MCServiceNode ----------------------------
(***************************************************************************)
(* Small instances of ServiceNode for TLC.                                 *)
(***************************************************************************)
EXTENDS ServiceNode

\* The node is in a swarm, is decommissioned, and comes back into another swarm.
MCSwarmAt == <<1, INVALID_SWARM_ID, 2>>
=============================================================================
