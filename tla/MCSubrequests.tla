---------------------------- MODULE MCSubrequests ----------------------------
(***************************************************************************)
(* Small instances of Subrequests for TLC.                                 *)
(***************************************************************************)
EXTENDS Subrequests

CONSTANTS main, worker, helper
=============================================================================
