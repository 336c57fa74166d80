---------------------------- MODULE MCReachability ----------------------------
(* Two peers, tests that come back within one interval or not. *)
EXTENDS Reachability
=============================================================================
