-------------------------- MODULE MCResidentEngine --------------------------
(***************************************************************************)
(* Instances of ResidentEngine for TLC.  One position more than the        *)
(* longest prompt leaves room for a decode step; two tokens tell one       *)
(* generation from another.                                                *)
(***************************************************************************)
EXTENDS ResidentEngine

CONSTANTS c1, c2, t1, t2
=============================================================================
