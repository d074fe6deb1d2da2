------------------------------ MODULE Discipline ------------------------------
(***************************************************************************)
(* The rules a recorded forward follows.  They are stated on its steps     *)
(* alone, as if every request got a buffer of its own and every dispatch   *)
(* ran at once: what each variable then stands for, and what a step may    *)
(* ask of it.  The theorems of ForwardProofs and ReplayProofs are about    *)
(* the forwards that follow them.                                          *)
(***************************************************************************)
EXTENDS Recording

(* What is known of a variable: the step that took its buffer, or 0 if the *)
(* object keeps the buffer beside the pool; its elements; how often it was *)
(* rewritten, and what was written since, if anything was.                 *)
Known == [made : Nat, n : Nat, version : Nat, part : SUBSET Nat, written : BOOLEAN]

Fresh(i, n, part, written) ==
  [made |-> i, n |-> n, version |-> 0, part |-> part, written |-> written]

Kept == Fresh(0, 0, {}, TRUE)

IsPooled(env, x) == x \in DOMAIN env /\ env[x].made # 0

Readable(env, x) ==
  /\ x \in DOMAIN env
  /\ env[x].made = 0 \/ (env[x].written /\ Elements(env[x].n) \subseteq env[x].part)

Alike(env, x, y) == env[x].made = env[y].made

-----------------------------------------------------------------------------
(* The variables after one more step: env says what is known of each, open *)
(* whether there is work to submit.                                        *)

Binding(env, x, known) == [y \in DOMAIN env \cup {x} |-> IF y = x THEN known ELSE env[y]]

WithPart(known, part) == [known EXCEPT !.part = @ \cup part, !.written = TRUE]

Wrote(env, to, part) ==
  [y \in DOMAIN env |-> IF Alike(env, y, to) THEN WithPart(env[y], part) ELSE env[y]]

Anew(known, n, part) ==
  [known EXCEPT !.n = n, !.version = @ + 1, !.part = part, !.written = TRUE]

Rewrote(env, to, n, part) ==
  [y \in DOMAIN env |-> IF Alike(env, y, to) THEN Anew(env[y], n, part) ELSE env[y]]

Without(env, x) == Restrict(env, {y \in DOMAIN env : ~ Alike(env, y, x)})

Keeping(env, keep) ==
  Restrict(env, {y \in DOMAIN env : env[y].made = 0 \/ \E x \in keep : Alike(env, y, x)})

Start == [env |-> <<>>, open |-> FALSE]

After(sketch, step, i) ==
  LET env == sketch.env
      open == sketch.open
  IN CASE step.op = "take" ->
            [env |-> Binding(env, step.to, Fresh(i, step.n, {}, FALSE)), open |-> open]
       [] step.op = "into" ->
            [env |-> Binding(env, step.to, Fresh(i, step.n, Elements(step.n), TRUE)), open |-> TRUE]
       [] step.op = "host"    -> [env |-> Wrote(env, step.to, step.part), open |-> open]
       [] step.op = "write"   -> [env |-> Wrote(env, step.to, step.part), open |-> TRUE]
       [] step.op = "rewrite" -> [env |-> Rewrote(env, step.to, step.n, step.part), open |-> TRUE]
       [] step.op = "name"    -> [env |-> Binding(env, step.to, env[step.from]), open |-> open]
       [] step.op = "fix"     -> [env |-> Binding(env, step.to, Kept), open |-> open]
       [] step.op = "recycle" -> [env |-> Without(env, step.x), open |-> open]
       [] step.op = "await"   -> [env |-> env, open |-> FALSE]
       [] step.op = "flush" /\ (open \/ step.back # {}) ->
            [env |-> Keeping(env, step.keep), open |-> FALSE]
       [] OTHER -> sketch

-----------------------------------------------------------------------------
(* What a step may ask: it reads what has been written whole, it writes a  *)
(* buffer of the pool, the host only one that was never rewritten, and     *)
(* what is kept beside the pool is neither recycled nor kept as if it were *)
(* of the pool.                                                            *)
Allowed(env, step) ==
  CASE step.op = "take"     -> step.n \in Nat
    [] step.op = "into"     -> step.n \in Nat /\ \A x \in step.from : Readable(env, x)
    [] step.op = "host"     -> /\ IsPooled(env, step.to) /\ env[step.to].version = 0
                               /\ step.part \subseteq Nat
    [] step.op = "write"    -> /\ IsPooled(env, step.to) /\ step.part \subseteq Nat
                               /\ \A x \in step.from : Readable(env, x)
    [] step.op = "rewrite"  -> /\ IsPooled(env, step.to) /\ step.part \subseteq Nat
                               /\ step.n \in Nat /\ \A x \in step.from : Readable(env, x)
    [] step.op = "name"     -> IsPooled(env, step.from)
    [] step.op = "fix"      -> step.n \in Nat /\ ~ IsPooled(env, step.to)
    [] step.op = "recycle"  -> IsPooled(env, step.x)
    [] step.op = "announce" -> TRUE
    [] step.op = "flush"    -> /\ \A x \in step.keep : IsPooled(env, x)
                               /\ \A x \in step.back : Readable(env, x)
    [] step.op \in {"await", "readback"} -> \A x \in step.back : Readable(env, x)
    [] OTHER -> FALSE

-----------------------------------------------------------------------------
(* What is known before each step of a program, and after its last.        *)
Sketches(program) ==
  LET known[i \in 1 .. Len(program) + 1] ==
        IF i = 1 THEN Start ELSE After(known[i - 1], program[i - 1], i - 1)
  IN known

(* Every step of the program follows the rules, and the program reads its  *)
(* result in its last step, and only there.                                *)
Disciplined(program) ==
  \A i \in 1 .. Len(program) :
    /\ Allowed(Sketches(program)[i].env, program[i])
    /\ program[i].op = "readback" <=> i = Len(program)
=============================================================================
