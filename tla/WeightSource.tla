---------------------------- MODULE WeightSource ----------------------------
(***************************************************************************)
(* What loadWeightsQ8FromUrl promises its caller, with no cache in sight:  *)
(* a load asks the origin for the manifest and resolves with the files     *)
(* published with that manifest.  Only the network can make it fail.       *)
(* WeightCache implements this: persistence changes how long a load takes, *)
(* never what it returns or whether it succeeds.                           *)
(***************************************************************************)
EXTENDS Naturals, Sequences

CONSTANTS
  Loader,        \* the pages
  Version,       \* published checkpoints
  FileLen,       \* FileLen[v][f]: bytes of file f of version v
  NetworkFails,  \* TRUE: a download may fail
  None           \* no version

VARIABLES
  origin,  \* the version the origin serves
  phase,   \* phase[l]: how far page l's load is
  asked,   \* asked[l]: the version whose manifest l fetched
  got      \* got[l]: the files l's load resolved with

vars == <<origin, phase, asked, got>>

File == 1 .. 3

Content(v, f) == [p \in 1 .. FileLen[v][f] |-> <<v, f, p>>]

Nothing == [f \in File |-> <<>>]

Init ==
  /\ origin \in Version
  /\ phase = [l \in Loader |-> "idle"]
  /\ asked = [l \in Loader |-> None]
  /\ got = [l \in Loader |-> Nothing]

Publish(v) ==
  /\ origin' = v
  /\ UNCHANGED <<phase, asked, got>>

Ask(l) ==
  /\ phase[l] = "idle"
  /\ phase' = [phase EXCEPT ![l] = "asking"]
  /\ UNCHANGED <<origin, asked, got>>

Manifest(l) ==
  /\ phase[l] = "asking"
  /\ phase' = [phase EXCEPT ![l] = "loading"]
  /\ asked' = [asked EXCEPT ![l] = origin]
  /\ UNCHANGED <<origin, got>>

Deliver(l) ==
  /\ phase[l] = "loading"
  /\ phase' = [phase EXCEPT ![l] = "done"]
  /\ got' = [got EXCEPT ![l] = [f \in File |-> Content(asked[l], f)]]
  /\ UNCHANGED <<origin, asked>>

Fail(l) ==
  /\ NetworkFails
  /\ phase[l] \in {"asking", "loading"}
  /\ phase' = [phase EXCEPT ![l] = "failed"]
  /\ asked' = [asked EXCEPT ![l] = None]
  /\ UNCHANGED <<origin, got>>

(* The page forgets its load: it is closed, or ready for the next one.     *)
Forget(l) ==
  /\ phase[l] # "idle"
  /\ phase' = [phase EXCEPT ![l] = "idle"]
  /\ asked' = [asked EXCEPT ![l] = None]
  /\ got' = [got EXCEPT ![l] = Nothing]
  /\ UNCHANGED origin

Next ==
  \/ \E v \in Version : Publish(v)
  \/ \E l \in Loader : Ask(l) \/ Manifest(l) \/ Deliver(l) \/ Fail(l) \/ Forget(l)

Safety == Init /\ [][Next]_vars

(* A load in progress ends.                                                *)
Spec == Safety /\ \A l \in Loader : WF_vars(Manifest(l) \/ Deliver(l))
=============================================================================
