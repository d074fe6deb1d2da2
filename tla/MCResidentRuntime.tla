-------------------------- MODULE MCResidentRuntime --------------------------
(***************************************************************************)
(* Bounds for TLC: two calls, and dispatches that meet in one source.      *)
(***************************************************************************)
EXTENDS ResidentRuntime

MCMissing == {<<"kernel", "absent">>}

Asking(code, entry, flaw, caller) == [code |-> code, entry |-> entry, flaw |-> flaw, caller |-> caller]

MCDispatch ==
  { Asking("kernel", "main", "none", "runner"),
    Asking("kernel", "other", "none", "runner"),
    Asking("kernel", "main", "none", "round"),
    Asking("kernel", "absent", "none", "runner"),
    Asking("broken", "main", "none", "runner"),
    Asking("kernel", "main", "binding", "round"),
    Asking("kernel", "main", "type", "runner"),
    Asking("kernel", "main", "grid", "runner") }
=============================================================================
