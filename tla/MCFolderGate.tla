---------------------------- MODULE MCFolderGate ----------------------------
(***************************************************************************)
(* Instances of FolderGate for TLC.  Two files are enough for a download   *)
(* that stops between them and for a mixture of two repositories.          *)
(***************************************************************************)
EXTENDS FolderGate

CONSTANTS p1, p2, d1, d2, x, y, z, s1, s2

MCPlanOne == [p \in {p1} |-> <<x, y>>]

(* The pages need different files, and both of them y.                     *)
MCPlanTwo == [p \in {p1, p2} |-> IF p = p1 THEN <<x, y>> ELSE <<y, z>>]

MCBasesOne == [p \in {p1} |-> Source]

(* The second page is always filled from the default repository.           *)
MCBasesTwo == [p \in {p1, p2} |-> IF p = p1 THEN Source ELSE {s1}]

MCSize == [s \in Source |-> [f \in File |-> IF s = s1 THEN 2 ELSE 3]]
=============================================================================
