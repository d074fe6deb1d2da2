------------------------------ MODULE MCForwards ------------------------------
(***************************************************************************)
(* The recorded forwards.  Each model is called more than once: a later    *)
(* call finds the buffers and the weights an earlier one left, and a fault *)
(* in one is what leaves them half-way.                                    *)
(***************************************************************************)
EXTENDS ResidentForward, Forwards

MCForward == LET programs == Programs IN [m \in Model |-> programs[m]]

MCPolicy == LET policies == Policies IN [m \in Model |-> policies[m]]

(* The forwards ask for their weights as the source they read from needs.  *)
ASSUME PreloadAssumption == \A m \in Model : WellPreloaded(m)

(* Nor does the source that does not count uses drop what is still to be   *)
(* read, before anything has failed.                                       *)
ASSUME TurnoverAssumption == \A m \in Model : TurnsOver(m)

(* A model that is asked twice for the same finds what it made, if nothing *)
(* else stands in the way.                                                 *)
ASSUME RepeatAssumption == \A m \in Model : Repeats(m)
=============================================================================
