--------------------------- MODULE MCWeightCache ---------------------------
(***************************************************************************)
(* Instances of WeightCache for TLC.  With chunk size 1 the first file has *)
(* two chunks, the second one, and the third is empty, which is one empty  *)
(* chunk: every boundary of the read and write loops occurs.               *)
(***************************************************************************)
EXTENDS WeightCache

CONSTANTS v1, v2, t1, t2

(* All versions have files of the same lengths: the length check of a read *)
(* cannot tell one from another.                                           *)
MCFileLen == [v \in Version |-> <<2, 1, 0>>]

(* Three bytes a version.  Room for both versions and a third copy; room   *)
(* for a second copy, as long as no orphan is beside the first; and room   *)
(* for one and a half, in a browser that tells no page.                    *)
MCStorage ==
  {[room |-> 10, told |-> TRUE], [room |-> 7, told |-> TRUE], [room |-> 5, told |-> FALSE]}
=============================================================================
