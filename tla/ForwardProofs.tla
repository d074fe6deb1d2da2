---------------------------- MODULE ForwardProofs ----------------------------
(***************************************************************************)
(* Theorems about ResidentForward: whatever the shapes, the pool's policy, *)
(* the number of calls and the faults, a forward that follows the rules of *)
(* Discipline owns every buffer it names, gives each of them back, and     *)
(* keeps no more of them than it may.                                      *)
(*                                                                         *)
(* FInv relates what the rules know of a variable (sketch) to the buffer   *)
(* it stands for: two variables share a buffer exactly if they share the   *)
(* step that took it, and what is in use is lent.                          *)
(***************************************************************************)
EXTENDS ResidentForward, FiniteSetTheorems, WellFoundedInduction, TLAPS

(* The invariant *)

Counters ==
  /\ model \in Model /\ calls \in Nat /\ at \in Nat
  /\ status \in {"idle", "running", "done", "failed"}
  /\ status = "running" => calls # 0 /\ at \in 1 .. Len(Program)
  /\ status # "running" => ops = <<>> /\ sketch = Start

Owned ==
  /\ pool \in [free : SUBSET Nat, lent : SUBSET Nat, quarantine : SUBSET Nat]
  /\ Len(size) \in Nat /\ DOMAIN size = 1 .. Len(size)
  /\ Len(device) = Len(size) /\ DOMAIN device = 1 .. Len(size)
  /\ pool.free \cap pool.lent = {} /\ pool.free \cap pool.quarantine = {}
  /\ pool.lent \cap pool.quarantine = {}
  /\ (pool.free \cup pool.lent \cup pool.quarantine) \cap (destroyed \cup fixed) = {}
  /\ pool.free \cup pool.lent \cup pool.quarantine \cup destroyed \cup fixed = DOMAIN size

Tensor == [slot : Nat, of : Nat \X Nat, version : Nat, n : Nat]

Named ==
  /\ \A x \in DOMAIN tensor : tensor[x] \in Tensor /\ tensor[x].slot \in DOMAIN size
  /\ \A x \in DOMAIN tensor :
       tensor[x].slot \in fixed => tensor[x].slot \notin destroyed /\ tensor[x].version = 0
  /\ \A x, y \in DOMAIN tensor :
       tensor[x].slot = tensor[y].slot /\ tensor[x].slot \in fixed => x = y

Env == sketch.env

Agrees(x) ==
  /\ tensor[x].slot \in pool.lent
  /\ tensor[x].of = <<calls, Env[x].made>> /\ Env[x].made < at
  /\ tensor[x].version = Env[x].version /\ tensor[x].n = Env[x].n

Sketched ==
  /\ DOMAIN Env \subseteq DOMAIN tensor
  /\ \A x \in DOMAIN tensor : x \notin DOMAIN Env => tensor[x].slot \in fixed
  /\ \A x \in DOMAIN Env : Env[x] \in Known
  /\ \A x \in DOMAIN Env : Env[x].made = 0 => tensor[x].slot \in fixed
  /\ \A x \in DOMAIN Env : Env[x].made # 0 => Agrees(x)
  /\ \A x, y \in DOMAIN Env :
       Env[x].made # 0 =>
         /\ tensor[x].slot = tensor[y].slot <=> Env[x].made = Env[y].made
         /\ Env[x].made = Env[y].made => Env[x] = Env[y]

Recorded ==
  /\ Len(ops) \in Nat /\ DOMAIN ops = 1 .. Len(ops) /\ (Len(ops) = 0 <=> ops = <<>>)
  /\ sketch.open \in BOOLEAN /\ (sketch.open <=> Len(ops) # 0)
  /\ \A i \in 1 .. Len(ops) :
       /\ ops[i].slot \in pool.lent \cup pool.quarantine
       /\ ops[i].of \in Nat \X Nat /\ ops[i].version \in Nat
       /\ \A t \in ops[i].reads :
            t \in Tensor /\ t.slot \in pool.lent \cup pool.quarantine \cup fixed
       /\ \A x \in DOMAIN Env : ops[i].slot = tensor[x].slot => ops[i].of = tensor[x].of
  /\ \A i, j \in 1 .. Len(ops) : ops[i].slot = ops[j].slot => ops[i].of = ops[j].of

FInv == Counters /\ Owned /\ Named /\ (status = "running" => Sketched /\ Recorded)

-----------------------------------------------------------------------------
(* Induction, as facts about sets of numbers *)

LEMMA LeastNatural ==
  ASSUME NEW T, T \subseteq Nat, T # {} PROVE \E x \in T : \A y \in T : x <= y
<1>1. PICK R : IsWellFoundedOn(R, Nat) /\ R = {p \in Nat \X Nat : p[1] < p[2]}
  <2>1. OpToRel(<, Nat) = {p \in Nat \X Nat : p[1] < p[2]}
    BY DEF OpToRel
  <2>. QED  BY <2>1, NatLessThanWellFounded
<1>2. PICK x \in T : \A y \in T : <<y, x>> \notin R
  BY <1>1, WFMin
<1>3. ASSUME NEW y \in T, y < x PROVE FALSE
  <2>1. <<y, x>> \in R  BY <1>1, <1>3
  <2>. QED  BY <1>2, <2>1
<1>. QED  BY <1>2, <1>3

LEMMA SetInduction ==
  ASSUME NEW S, 0 \in S, \A n \in Nat : n \in S => n + 1 \in S PROVE \A n \in Nat : n \in S
<1>1. SUFFICES ASSUME Nat \ S # {} PROVE FALSE
  OBVIOUS
<1>2. PICK x \in Nat \ S : \A y \in Nat \ S : x <= y
  BY <1>1, LeastNatural
<1>3. x # 0  BY <1>2
<1>4. x - 1 \in Nat /\ x - 1 \in S  BY <1>2, <1>3
<1>. QED  BY <1>2, <1>4

(* The device before each piece of the recorded work is what the recursion *)
(* says.                                                                   *)
LEMMA ReplayExists ==
  \A n \in Nat : \E b : b = [i \in 1 .. n + 1 |-> IF i = 1 THEN device ELSE Applied(b[i - 1], ops[i - 1])]
<1>. DEFINE F(b, n) == [i \in 1 .. n + 1 |-> IF i = 1 THEN device ELSE Applied(b[i - 1], ops[i - 1])]
            S == {n \in Nat : \E b : b = F(b, n)}
<1>1. 0 \in S
  <2>. DEFINE b == [i \in 1 .. 1 |-> device]
  <2>1. b = F(b, 0)  OBVIOUS
  <2>. QED  BY <2>1
<1>2. ASSUME NEW n \in Nat, n \in S PROVE n + 1 \in S
  <2>1. PICK b : b = F(b, n)  BY <1>2
  <2>. DEFINE c == [i \in 1 .. n + 2 |-> IF i = n + 2 THEN Applied(b[n + 1], ops[n + 1]) ELSE b[i]]
  <2>2. c = F(c, n + 1)
    <3>1. DOMAIN c = 1 .. (n + 1) + 1 /\ DOMAIN F(c, n + 1) = 1 .. (n + 1) + 1
      OBVIOUS
    <3>2. ASSUME NEW i \in 1 .. (n + 1) + 1 PROVE c[i] = F(c, n + 1)[i]
      <4>1. CASE i = 1
        <5>1. c[1] = b[1] /\ b[1] = device  BY <2>1
        <5>. QED  BY <4>1, <5>1
      <4>2. CASE i = n + 2
        <5>1. c[i] = Applied(b[n + 1], ops[n + 1]) /\ c[n + 1] = b[n + 1]  BY <4>2
        <5>2. F(c, n + 1)[i] = Applied(c[n + 1], ops[n + 1])  BY <4>2
        <5>. QED  BY <5>1, <5>2
      <4>3. CASE i # 1 /\ i # n + 2
        <5>1. i \in 1 .. n + 1 /\ i - 1 \in 1 .. n + 2 /\ i - 1 # n + 2  BY <4>3
        <5>2. c[i] = b[i] /\ c[i - 1] = b[i - 1]  BY <5>1
        <5>3. b[i] = Applied(b[i - 1], ops[i - 1])  BY <2>1, <4>3, <5>1
        <5>4. F(c, n + 1)[i] = Applied(c[i - 1], ops[i - 1])  BY <4>3
        <5>. QED  BY <5>2, <5>3, <5>4
      <4>. QED  BY <4>1, <4>2, <4>3
    <3>. QED  BY <3>1, <3>2
  <2>. HIDE DEF F, c
  <2>. QED  BY <2>2
<1>. HIDE DEF F
<1>3. \A n \in Nat : n \in S
  <2>. HIDE DEF S
  <2>. QED  BY <1>1, <1>2, SetInduction
<1>. QED  BY <1>3 DEF F

LEMMA Replay ==
  ASSUME Len(ops) \in Nat
  PROVE  /\ Before[1] = device
         /\ \A i \in 1 .. Len(ops) : Before[i + 1] = Applied(Before[i], ops[i])
<1>1. Before = [i \in 1 .. Len(ops) + 1 |-> IF i = 1 THEN device ELSE Applied(Before[i - 1], ops[i - 1])]
  <2>1. \E b : b = [i \in 1 .. Len(ops) + 1 |-> IF i = 1 THEN device ELSE Applied(b[i - 1], ops[i - 1])]
    BY ReplayExists
  <2>. QED  BY <2>1 DEF Before
<1>2. Before[1] = device
  BY <1>1
<1>3. ASSUME NEW i \in 1 .. Len(ops) PROVE Before[i + 1] = Applied(Before[i], ops[i])
  <2>1. i + 1 \in 1 .. Len(ops) + 1 /\ i + 1 # 1 /\ (i + 1) - 1 = i
    OBVIOUS
  <2>. QED  BY <1>1, <2>1
<1>. QED  BY <1>2, <1>3

-----------------------------------------------------------------------------
(* The pool *)

LEMMA SlotForChoice ==
  ASSUME Owned, NEW n
  PROVE  SlotFor(n) \in pool.free \/ SlotFor(n) = Len(size) + 1
<1>1. Fitting(Class(n)) \subseteq pool.free
  BY DEF Fitting
<1>2. ASSUME Fitting(Class(n)) # {} PROVE Min(Fitting(Class(n))) \in pool.free
  <2>1. Fitting(Class(n)) \subseteq Nat  BY <1>1 DEF Owned
  <2>2. \E x \in Fitting(Class(n)) : \A y \in Fitting(Class(n)) : x <= y  BY <1>2, <2>1, LeastNatural
  <2>. QED  BY <1>1, <2>2 DEF Min
<1>. QED  BY <1>2 DEF SlotFor

LEMMA Lending ==
  ASSUME Owned, NEW n, Lend(SlotFor(n), n), device' = Grown(device, SlotFor(n)), UNCHANGED <<fixed, destroyed>>
  PROVE  /\ Owned'
         /\ SlotFor(n) \notin pool.lent \cup pool.quarantine \cup fixed \cup destroyed
         /\ pool'.lent = pool.lent \cup {SlotFor(n)} /\ pool'.quarantine = pool.quarantine
         /\ SlotFor(n) \in DOMAIN size' /\ DOMAIN size \subseteq DOMAIN size'
         /\ \A s \in DOMAIN device : device'[s] = device[s]
         /\ SlotFor(n) \notin DOMAIN device => device'[SlotFor(n)] = Nothing
         /\ DOMAIN device' = DOMAIN device \cup {SlotFor(n)}
<1>. DEFINE s == SlotFor(n)
<1>1. s \in pool.free \/ s = Len(size) + 1
  BY SlotForChoice
<1>. HIDE DEF s
<1>2. CASE s \in pool.free
  <2>1. s \in 1 .. Len(size) /\ ~ (s > Len(size)) /\ ~ (s > Len(device))
    BY <1>2 DEF Owned
  <2>2. size' = size /\ device' = device
    BY <2>1 DEF Lend, Grown, s
  <2>3. /\ pool' \in [free : SUBSET Nat, lent : SUBSET Nat, quarantine : SUBSET Nat]
        /\ pool'.free = pool.free \ {s} /\ pool'.lent = pool.lent \cup {s} /\ pool'.quarantine = pool.quarantine
    <3>1. pool' = [pool EXCEPT !.free = @ \ {s}, !.lent = @ \cup {s}]
      BY DEF Lend, s
    <3>2. pool \in [free : SUBSET Nat, lent : SUBSET Nat, quarantine : SUBSET Nat] /\ s \in Nat
      BY <2>1 DEF Owned
    <3>. QED  BY <3>1, <3>2
  <2>. QED  BY <1>2, <2>1, <2>2, <2>3 DEF Owned, s
<1>3. CASE s = Len(size) + 1
  <2>1. s > Len(size) /\ s > Len(device) /\ s \in Nat /\ s \notin 1 .. Len(size)
    BY <1>3 DEF Owned
  <2>2. size' = Append(size, Class(n)) /\ device' = Append(device, Nothing)
    BY <2>1 DEF Lend, Grown, s
  <2>3. /\ pool' \in [free : SUBSET Nat, lent : SUBSET Nat, quarantine : SUBSET Nat]
        /\ pool'.free = pool.free /\ pool'.lent = pool.lent \cup {s} /\ pool'.quarantine = pool.quarantine
    <3>1. pool' = [pool EXCEPT !.free = @ \ {s}, !.lent = @ \cup {s}]
      BY DEF Lend, s
    <3>2. pool \in [free : SUBSET Nat, lent : SUBSET Nat, quarantine : SUBSET Nat] /\ s \in Nat
      BY <2>1 DEF Owned
    <3>3. s \notin pool.free
      BY <2>1 DEF Owned
    <3>. QED  BY <3>1, <3>2, <3>3
  <2>4. /\ Len(size') = s /\ DOMAIN size' = 1 .. s
        /\ Len(device') = s /\ DOMAIN device' = 1 .. s /\ device'[s] = Nothing
        /\ \A k \in DOMAIN device : device'[k] = device[k]
    BY <1>3, <2>2 DEF Owned
  <2>5. 1 .. s = (1 .. Len(size)) \cup {s}
    BY <1>3 DEF Owned
  <2>6. DOMAIN device' = DOMAIN device \cup {s} /\ DOMAIN size' = DOMAIN size \cup {s}
    BY <2>4, <2>5 DEF Owned
  <2>7. Owned'
    <3>1. /\ fixed' = fixed /\ destroyed' = destroyed /\ s \notin DOMAIN size
          /\ pool.free \cup pool.lent \cup pool.quarantine \cup destroyed \cup fixed = DOMAIN size
      BY <2>1 DEF Owned
    <3>2. /\ pool'.free \cap pool'.lent = {} /\ pool'.free \cap pool'.quarantine = {}
          /\ pool'.lent \cap pool'.quarantine = {}
          /\ (pool'.free \cup pool'.lent \cup pool'.quarantine) \cap (destroyed' \cup fixed') = {}
          /\ pool'.free \cup pool'.lent \cup pool'.quarantine \cup destroyed' \cup fixed' = DOMAIN size'
      BY <2>3, <2>6, <3>1 DEF Owned
    <3>. QED  BY <2>1, <2>3, <2>4, <3>2 DEF Owned
  <2>8. s \notin pool.lent \cup pool.quarantine \cup fixed \cup destroyed
    BY <2>1 DEF Owned
  <2>. QED  BY <2>3, <2>4, <2>6, <2>7, <2>8 DEF s
<1>. QED  BY <1>1, <1>2, <1>3

LEMMA Releasing ==
  ASSUME Owned, NEW keep, keep \subseteq pool.lent, Release(keep), UNCHANGED <<size, fixed>>,
         Len(device') = Len(device), DOMAIN device' = DOMAIN device
  PROVE  /\ Owned'
         /\ pool'.lent = keep /\ pool'.quarantine = {}
         /\ destroyed' \cap (keep \cup fixed) \subseteq destroyed
<1>1. PICK gone : /\ gone = Evicted(Freed(keep))
                  /\ pool' = [free |-> Freed(keep) \ gone, lent |-> keep, quarantine |-> {}]
                  /\ destroyed' = destroyed \cup gone
  BY DEF Release
<1>2. gone \subseteq Freed(keep)
  BY <1>1 DEF Evicted
<1>. QED  BY <1>1, <1>2 DEF Owned, Freed

-----------------------------------------------------------------------------
(* Steps *)

LEMMA ProgramLength == ASSUME Counters PROVE Len(Program) \in Nat \ {0}
<1>. DEFINE L == Len(Forward[model])
<1>1. L \in Nat \ {0} /\ \A k \in 1 .. L : Len(Forward[model][k]) \in Nat \ {0}
  BY ForwardAssumption DEF Counters
<1>2. ((calls - 1) % L) + 1 \in 1 .. L
  <2>1. calls - 1 \in Int  BY DEF Counters
  <2>. QED  BY <1>1, <2>1
<1>. QED  BY <1>1, <1>2 DEF Program

LEMMA Advancing ==
  ASSUME Counters, status = "running", Follows, Step.op # "readback", Advance
  PROVE  Counters' /\ status' = "running" /\ at' = at + 1 /\ calls' = calls
<1>1. /\ at' = at + 1 /\ UNCHANGED <<model, calls, status>> /\ status' = "running"
  BY DEF Advance
<1>2. Len(Program') = Len(Program)
  BY <1>1 DEF Program
<1>3. at # Len(Program)
  BY DEF Follows
<1>. QED  BY <1>1, <1>2, <1>3, ProgramLength DEF Counters

LEMMA Stopping ==
  ASSUME Counters, status' \in {"done", "failed"}, at' = 0, ops' = <<>>, sketch' = Start,
         UNCHANGED <<model, calls>>
  PROVE  Counters' /\ status' # "running"
BY DEF Counters

LEMMA Discarding ==
  ASSUME Discard PROVE Owned' /\ Named'
<1>1. Owned'  BY DEF Discard, Owned
<1>2. Named'  BY DEF Discard, Named
<1>. QED  BY <1>1, <1>2

LEMMA FreshTensor ==
  ASSUME Owned, Named, Sketched, NEW to, NEW n \in Nat, NEW s \in Nat,
         NEW part \in SUBSET Nat, NEW written \in BOOLEAN,
         calls \in Nat, at \in Nat \ {0},
         s \notin pool.lent \cup fixed \cup destroyed,
         s \in DOMAIN size', DOMAIN size \subseteq DOMAIN size',
         pool'.lent = pool.lent \cup {s}, UNCHANGED <<fixed, destroyed, calls>>, at' = at + 1,
         tensor' = Bind(to, Made(s, n)),
         sketch'.env = Binding(Env, to, Fresh(at, n, part, written))
  PROVE  Named' /\ Sketched'
<1>1. /\ DOMAIN tensor' = DOMAIN tensor \cup {to} /\ tensor'[to] = Made(s, n)
      /\ \A x \in DOMAIN tensor : x # to => tensor'[x] = tensor[x]
  BY DEF Bind
<1>2. /\ Made(s, n) \in Tensor /\ Made(s, n).slot = s /\ Made(s, n).of = <<calls, at>>
      /\ Made(s, n).version = 0 /\ Made(s, n).n = n
  BY DEF Made, Tensor
<1>3. /\ DOMAIN Env' = DOMAIN Env \cup {to} /\ Env'[to] = Fresh(at, n, part, written)
      /\ \A x \in DOMAIN Env : x # to => Env'[x] = Env[x]
  BY DEF Env, Binding
<1>4. /\ Fresh(at, n, part, written) \in Known /\ Fresh(at, n, part, written).made = at
      /\ Fresh(at, n, part, written).n = n /\ Fresh(at, n, part, written).version = 0
  BY DEF Fresh, Known
<1>5. Named'
  <2>1. \A x \in DOMAIN tensor' : tensor'[x] \in Tensor /\ tensor'[x].slot \in DOMAIN size'
    BY <1>1, <1>2 DEF Named
  <2>2. \A x \in DOMAIN tensor' : tensor'[x].slot \in fixed' => tensor'[x].slot \notin destroyed' /\ tensor'[x].version = 0
    BY <1>1, <1>2 DEF Named
  <2>3. \A x, y \in DOMAIN tensor' : tensor'[x].slot = tensor'[y].slot /\ tensor'[x].slot \in fixed' => x = y
    BY <1>1, <1>2 DEF Named
  <2>. QED  BY <2>1, <2>2, <2>3 DEF Named
<1>6. \A x \in DOMAIN Env : Env[x].made # 0 => tensor[x].slot # s /\ Env[x].made # at
  BY DEF Sketched, Agrees, Known
<1>7. \A x \in DOMAIN Env : tensor[x].slot # s
  BY <1>6 DEF Sketched
<1>8. \A x \in DOMAIN Env' : Env'[x].made # 0 => Agrees(x)'
  <2>1. Agrees(to)'  BY <1>1, <1>2, <1>3, <1>4 DEF Agrees
  <2>2. ASSUME NEW x \in DOMAIN Env, x # to, Env[x].made # 0 PROVE Agrees(x)'
    <3>1. Agrees(x) /\ Env'[x] = Env[x] /\ tensor'[x] = tensor[x] /\ Env[x].made \in Nat
      BY <1>1, <1>3, <2>2 DEF Sketched, Known
    <3>. QED  BY <3>1 DEF Agrees
  <2>. QED  BY <1>3, <2>1, <2>2
<1>9. \A x, y \in DOMAIN Env' :
       Env'[x].made # 0 =>
         /\ tensor'[x].slot = tensor'[y].slot <=> Env'[x].made = Env'[y].made
         /\ Env'[x].made = Env'[y].made => Env'[x] = Env'[y]
  <2>1. DOMAIN Env \subseteq DOMAIN tensor  BY DEF Sketched
  <2>2. \A x \in DOMAIN Env : Env[x].made # at
    BY <1>6
  <2>. QED  BY <1>1, <1>2, <1>3, <1>4, <1>7, <2>1, <2>2 DEF Sketched
<1>10. /\ DOMAIN Env' \subseteq DOMAIN tensor'
       /\ \A x \in DOMAIN tensor' : x \notin DOMAIN Env' => tensor'[x].slot \in fixed'
       /\ \A x \in DOMAIN Env' : Env'[x] \in Known
       /\ \A x \in DOMAIN Env' : Env'[x].made = 0 => tensor'[x].slot \in fixed'
  BY <1>1, <1>3, <1>4 DEF Sketched
<1>. QED  BY <1>5, <1>8, <1>9, <1>10 DEF Sketched

LEMMA TakeBufferKeeps == ASSUME FInv, Follows, TakeBuffer PROVE FInv'
<1>. DEFINE s == SlotFor(Step.n)
<1>1. /\ Counters /\ Owned /\ Named /\ Sketched /\ Recorded
      /\ status = "running" /\ Step.op = "take" /\ Step.n \in Nat
  BY DEF FInv, TakeBuffer, At, Follows, Allowed
<1>2. /\ Lend(s, Step.n) /\ device' = Grown(device, s) /\ tensor' = Bind(Step.to, Made(s, Step.n))
      /\ Advance /\ UNCHANGED <<fixed, destroyed, ops>>
  BY DEF TakeBuffer
<1>3. sketch' = [env |-> Binding(Env, Step.to, Fresh(at, Step.n, {}, FALSE)), open |-> sketch.open]
  BY <1>1, <1>2 DEF Advance, After, Env
<1>4. Counters' /\ status' = "running" /\ at' = at + 1 /\ calls' = calls
  BY <1>1, <1>2, Advancing
<1>5. /\ Owned' /\ s \notin pool.lent \cup pool.quarantine \cup fixed \cup destroyed
      /\ pool'.lent = pool.lent \cup {s} /\ pool'.quarantine = pool.quarantine
      /\ s \in DOMAIN size' /\ DOMAIN size \subseteq DOMAIN size'
  BY <1>1, <1>2, Lending
<1>6. Named' /\ Sketched'
  <2>1. s \in Nat  BY <1>5 DEF Owned
  <2>2. calls \in Nat /\ at \in Nat \ {0}  BY <1>1 DEF Counters
  <2>. HIDE DEF s
  <2>. QED  BY <1>1, <1>2, <1>3, <1>4, <1>5, <2>1, <2>2, FreshTensor
<1>7. Recorded'
  <2>. HIDE DEF s
  <2>1. /\ DOMAIN Env' = DOMAIN Env \cup {Step.to}
        /\ tensor'[Step.to].slot = s /\ \A x \in DOMAIN tensor : x # Step.to => tensor'[x] = tensor[x]
    BY <1>2, <1>3 DEF Env, Binding, Bind, Made
  <2>2. sketch'.open \in BOOLEAN /\ (sketch'.open <=> Len(ops) # 0)
    BY <1>1, <1>3 DEF Recorded
  <2>3. DOMAIN Env \subseteq DOMAIN tensor  BY <1>1 DEF Sketched
  <2>. QED  BY <1>1, <1>2, <1>5, <2>1, <2>2, <2>3 DEF Recorded
<1>. QED  BY <1>4, <1>5, <1>6, <1>7 DEF FInv

(* What is recorded stays as it is when a dispatch is added, if it agrees  *)
(* with the tensors and with the dispatches before it.                     *)
LEMMA Appending ==
  ASSUME Recorded, NEW op, ops' = Append(ops, op), sketch'.open = TRUE,
         op.slot \in pool'.lent, op.of \in Nat \X Nat, op.version \in Nat,
         \A t \in op.reads : t \in Tensor /\ t.slot \in pool'.lent \cup fixed',
         pool.lent \cup pool.quarantine \subseteq pool'.lent \cup pool'.quarantine,
         fixed' = fixed,
         \A x \in DOMAIN Env' : op.slot = tensor'[x].slot => op.of = tensor'[x].of,
         \A i \in 1 .. Len(ops) : \A x \in DOMAIN Env' :
           ops[i].slot = tensor'[x].slot => ops[i].of = tensor'[x].of,
         \A i \in 1 .. Len(ops) : ops[i].slot = op.slot => ops[i].of = op.of
  PROVE  Recorded'
<1>1. /\ Len(ops') = Len(ops) + 1 /\ DOMAIN ops' = 1 .. Len(ops) + 1 /\ ops'[Len(ops) + 1] = op
      /\ \A i \in 1 .. Len(ops) : ops'[i] = ops[i]
      /\ Len(ops) \in Nat
  BY DEF Recorded
<1>2. \A i \in 1 .. Len(ops) + 1 : i = Len(ops) + 1 \/ i \in 1 .. Len(ops)
  BY <1>1
<1>3. ASSUME NEW i \in 1 .. Len(ops) + 1
      PROVE  /\ ops'[i].slot \in pool'.lent \cup pool'.quarantine
             /\ ops'[i].of \in Nat \X Nat /\ ops'[i].version \in Nat
             /\ \A t \in ops'[i].reads :
                  t \in Tensor /\ t.slot \in pool'.lent \cup pool'.quarantine \cup fixed'
             /\ \A x \in DOMAIN Env' : ops'[i].slot = tensor'[x].slot => ops'[i].of = tensor'[x].of
  <2>1. CASE i = Len(ops) + 1  BY <1>1, <2>1
  <2>2. CASE i \in 1 .. Len(ops)  BY <1>1, <2>2 DEF Recorded
  <2>. QED  BY <1>2, <2>1, <2>2
<1>4. \A i, j \in 1 .. Len(ops) + 1 : ops'[i].slot = ops'[j].slot => ops'[i].of = ops'[j].of
  BY <1>1, <1>2 DEF Recorded
<1>5. sketch'.open \in BOOLEAN /\ (sketch'.open <=> Len(ops') # 0)
  <2>1. Len(ops') # 0  BY <1>1
  <2>. QED  BY <2>1, Zenon
<1>6. Len(ops') = 0 <=> ops' = <<>>
  BY <1>1
<1>7. Len(ops') \in Nat /\ Len(ops') = Len(ops) + 1 /\ DOMAIN ops' = 1 .. Len(ops')
  BY <1>1
<1>8. \A i \in 1 .. Len(ops') :
        /\ ops'[i].slot \in pool'.lent \cup pool'.quarantine
        /\ ops'[i].of \in Nat \X Nat /\ ops'[i].version \in Nat
        /\ \A t \in ops'[i].reads :
             t \in Tensor /\ t.slot \in pool'.lent \cup pool'.quarantine \cup fixed'
        /\ \A x \in DOMAIN Env' : ops'[i].slot = tensor'[x].slot => ops'[i].of = tensor'[x].of
  BY <1>3, <1>7
<1>9. \A i, j \in 1 .. Len(ops') : ops'[i].slot = ops'[j].slot => ops'[i].of = ops'[j].of
  BY <1>4, <1>7
<1>. QED  BY <1>5, <1>6, <1>7, <1>8, <1>9, Zenon DEF Recorded

(* Recording a dispatch into a new buffer.                                 *)
LEMMA RecordIntoKeeps == ASSUME FInv, Follows, RecordInto, status' = "running" PROVE FInv'
<1>. DEFINE s == SlotFor(Step.n)
            t == Made(s, Step.n)
            op == OpOn(t, Elements(Step.n), Step.from)
<1>1. /\ Counters /\ Owned /\ Named /\ Sketched /\ Recorded
      /\ status = "running" /\ Step.op = "into" /\ Step.n \in Nat
      /\ \A x \in Step.from : Readable(Env, x)
  BY DEF FInv, RecordInto, At, Follows, Allowed, Env
<1>2. /\ Lend(s, Step.n) /\ device' = Grown(device, s) /\ tensor' = Bind(Step.to, t)
      /\ ops' = Append(ops, op) /\ Advance /\ UNCHANGED <<fixed, destroyed>>
  BY DEF RecordInto, Unread, Reject
<1>3. sketch' = [env |-> Binding(Env, Step.to, Fresh(at, Step.n, Elements(Step.n), TRUE)), open |-> TRUE]
  BY <1>1, <1>2 DEF Advance, After, Env
<1>4. Counters' /\ status' = "running" /\ at' = at + 1 /\ calls' = calls
  BY <1>1, <1>2, Advancing
<1>5. /\ Owned' /\ s \notin pool.lent \cup pool.quarantine \cup fixed \cup destroyed
      /\ pool'.lent = pool.lent \cup {s} /\ pool'.quarantine = pool.quarantine
      /\ s \in DOMAIN size' /\ DOMAIN size \subseteq DOMAIN size'
  BY <1>1, <1>2, Lending
<1>6. calls \in Nat /\ at \in Nat \ {0} /\ s \in Nat
  BY <1>1, <1>5 DEF Counters, Owned
<1>. HIDE DEF s
<1>7. Named' /\ Sketched'
  <2>1. Elements(Step.n) \in SUBSET Nat  BY <1>1 DEF Elements
  <2>. QED  BY <1>1, <1>2, <1>3, <1>4, <1>5, <1>6, <2>1, FreshTensor
<1>8. Recorded'
  <2>1. /\ DOMAIN Env' = DOMAIN Env \cup {Step.to}
        /\ tensor'[Step.to] = t /\ \A x \in DOMAIN tensor : x # Step.to => tensor'[x] = tensor[x]
    BY <1>2, <1>3 DEF Env, Binding, Bind
  <2>2. /\ op.slot = s /\ op.of = <<calls, at>> /\ op.version = 0 /\ t.slot = s /\ t.of = <<calls, at>>
        /\ op.reads = {tensor[x] : x \in Step.from}
    BY DEF OpOn, Made, Reads
  <2>3. \A u \in op.reads : u \in Tensor /\ u.slot \in pool.lent \cup fixed
    BY <1>1, <2>2 DEF Readable, Sketched, Named, Agrees
  <2>4. ops' = Append(ops, op) /\ sketch'.open = TRUE /\ fixed' = fixed
    BY <1>2, <1>3
  <2>. HIDE DEF op, t
  <2>5. DOMAIN Env \subseteq DOMAIN tensor /\ \A x \in DOMAIN Env : tensor[x].slot # s
    BY <1>1, <1>5 DEF Sketched, Agrees
  <2>6. \A i \in 1 .. Len(ops) : ops[i].slot # s
    BY <1>1, <1>5 DEF Recorded
  <2>7. \A x \in DOMAIN Env' : op.slot = tensor'[x].slot => op.of = tensor'[x].of
    BY <2>1, <2>2, <2>5
  <2>8. \A i \in 1 .. Len(ops) : \A x \in DOMAIN Env' :
          ops[i].slot = tensor'[x].slot => ops[i].of = tensor'[x].of
    BY <1>1, <2>1, <2>2, <2>5, <2>6 DEF Recorded
  <2>9. /\ op.slot \in pool'.lent /\ op.of \in Nat \X Nat /\ op.version \in Nat
        /\ \A u \in op.reads : u \in Tensor /\ u.slot \in pool'.lent \cup fixed'
        /\ pool.lent \cup pool.quarantine \subseteq pool'.lent \cup pool'.quarantine
    BY <1>5, <1>6, <2>2, <2>3, <2>4
  <2>10. \A i \in 1 .. Len(ops) : ops[i].slot = op.slot => ops[i].of = op.of
    BY <2>2, <2>6
  <2>. QED  BY <1>1, <2>4, <2>7, <2>8, <2>9, <2>10, Appending
<1>. QED  BY <1>4, <1>5, <1>7, <1>8 DEF FInv

LEMMA WroteKeeps ==
  ASSUME Sketched, NEW to, NEW part \in SUBSET Nat, at \in Nat,
         sketch'.env = Wrote(Env, to, part), at' = at + 1, UNCHANGED <<tensor, pool, fixed, calls>>
  PROVE  Sketched' /\ DOMAIN Env' = DOMAIN Env
<1>1. DOMAIN Env' = DOMAIN Env
  BY DEF Env, Wrote
<1>. DEFINE Now(k) == IF k.made = Env[to].made
                        THEN WithPart(k, part) ELSE k
<1>2. \A x \in DOMAIN Env : Env'[x] = Now(Env[x])
  BY DEF Env, Wrote, Alike
<1>3. ASSUME NEW x \in DOMAIN Env
      PROVE  /\ Env'[x] \in Known /\ Env'[x].made = Env[x].made
             /\ Env'[x].version = Env[x].version /\ Env'[x].n = Env[x].n
  <2>1. Env[x] \in Known  BY DEF Sketched
  <2>. QED  BY <1>2, <2>1 DEF Known, WithPart
<1>. HIDE DEF Now
<1>4. \A x, y \in DOMAIN Env : Env[x] = Env[y] => Env'[x] = Env'[y]
  BY <1>2
<1>5. tensor' = tensor /\ pool' = pool /\ fixed' = fixed /\ calls' = calls
  OBVIOUS
<1>6. ASSUME NEW x \in DOMAIN Env, Env'[x].made # 0 PROVE Agrees(x)'
  <2>1. Agrees(x)  BY <1>3, <1>6 DEF Sketched
  <2>2. at < at'  OBVIOUS
  <2>3. Env[x].made \in Nat  BY DEF Sketched, Known
  <2>. QED  BY <1>3, <1>5, <2>1, <2>2, <2>3 DEF Agrees
<1>7. ASSUME NEW x \in DOMAIN Env, NEW y \in DOMAIN Env, Env'[x].made # 0
      PROVE  /\ tensor'[x].slot = tensor'[y].slot <=> Env'[x].made = Env'[y].made
             /\ Env'[x].made = Env'[y].made => Env'[x] = Env'[y]
  <2>1. Env'[x].made = Env[x].made /\ Env'[y].made = Env[y].made
    BY <1>3
  <2>2. /\ tensor[x].slot = tensor[y].slot <=> Env[x].made = Env[y].made
        /\ Env[x].made = Env[y].made => Env[x] = Env[y]
    BY <1>7, <2>1 DEF Sketched
  <2>. QED  BY <1>4, <1>5, <2>1, <2>2
<1>8. /\ DOMAIN Env' \subseteq DOMAIN tensor'
      /\ \A x \in DOMAIN tensor' : x \notin DOMAIN Env' => tensor'[x].slot \in fixed'
      /\ \A x \in DOMAIN Env' : Env'[x] \in Known
      /\ \A x \in DOMAIN Env' : Env'[x].made = 0 => tensor'[x].slot \in fixed'
  BY <1>1, <1>3, <1>5 DEF Sketched
<1>. QED  BY <1>1, <1>6, <1>7, <1>8 DEF Sketched

(* Two names of one buffer of the pool stand for one tensor.               *)
LEMMA Aliases ==
  ASSUME Sketched, Named, NEW x, IsPooled(Env, x), NEW y \in DOMAIN Env, tensor[x].slot = tensor[y].slot
  PROVE  IsPooled(Env, y) /\ Env[y] = Env[x] /\ tensor[y] = tensor[x]
<1>1. x \in DOMAIN Env /\ Env[x].made # 0  BY DEF IsPooled
<1>2. Env[x].made = Env[y].made /\ Env[x] = Env[y]  BY <1>1 DEF Sketched
<1>3. Agrees(x) /\ Agrees(y)  BY <1>1, <1>2 DEF Sketched
<1>4. tensor[x] \in Tensor /\ tensor[y] \in Tensor  BY <1>1 DEF Sketched, Named
<1>. QED  BY <1>1, <1>2, <1>3, <1>4 DEF IsPooled, Agrees, Tensor

LEMMA SameLength == ASSUME Owned, NEW op PROVE Len(Applied(device, op)) = Len(device) /\ DOMAIN Applied(device, op) = DOMAIN device
BY DEF Applied, Owned

LEMMA WriteFromHostKeeps == ASSUME FInv, Follows, WriteFromHost PROVE FInv'
<1>1. /\ Counters /\ Owned /\ Named /\ Sketched /\ Recorded
      /\ status = "running" /\ Step.op = "host" /\ Step.part \in SUBSET Nat
  BY DEF FInv, WriteFromHost, At, Follows, Allowed
<1>2. /\ device' = Applied(device, OpOn(tensor[Step.to], Step.part, {}))
      /\ Advance /\ UNCHANGED <<size, pool, fixed, destroyed, tensor, ops>>
  BY DEF WriteFromHost
<1>3. sketch' = [env |-> Wrote(Env, Step.to, Step.part), open |-> sketch.open]
  BY <1>1, <1>2 DEF Advance, After, Env
<1>4. Counters' /\ status' = "running" /\ at' = at + 1 /\ calls' = calls
  BY <1>1, <1>2, Advancing
<1>5. Owned'
  BY <1>1, <1>2, SameLength DEF Owned
<1>6. Named'
  BY <1>1, <1>2 DEF Named
<1>7. Sketched' /\ DOMAIN Env' = DOMAIN Env
  BY <1>1, <1>2, <1>3, <1>4, WroteKeeps DEF Counters
<1>8. Recorded'
  <2>1. sketch'.open = sketch.open  BY <1>3
  <2>. QED  BY <1>1, <1>2, <1>7, <2>1 DEF Recorded
<1>. QED  BY <1>4, <1>5, <1>6, <1>7, <1>8 DEF FInv

LEMMA RecordKeeps == ASSUME FInv, Follows, Record, status' = "running" PROVE FInv'
<1>. DEFINE op == OpOn(tensor[Step.to], Step.part, Step.from)
<1>1. /\ Counters /\ Owned /\ Named /\ Sketched /\ Recorded
      /\ status = "running" /\ Step.op = "write" /\ Step.part \in SUBSET Nat
      /\ IsPooled(Env, Step.to) /\ \A x \in Step.from : Readable(Env, x)
  BY DEF FInv, Record, At, Follows, Allowed, Env
<1>2. ops' = Append(ops, op) /\ Advance /\ UNCHANGED <<size, pool, fixed, destroyed, tensor, device>>
  BY DEF Record, Unread, Reject, memory
<1>3. sketch' = [env |-> Wrote(Env, Step.to, Step.part), open |-> TRUE]
  BY <1>1, <1>2 DEF Advance, After, Env
<1>4. Counters' /\ status' = "running" /\ at' = at + 1 /\ calls' = calls
  BY <1>1, <1>2, Advancing
<1>5. Owned' /\ Named'
  BY <1>1, <1>2 DEF Owned, Named
<1>6. Sketched' /\ DOMAIN Env' = DOMAIN Env
  BY <1>1, <1>2, <1>3, <1>4, WroteKeeps DEF Counters
<1>7. Recorded'
  <2>1. /\ op.slot = tensor[Step.to].slot /\ op.of = tensor[Step.to].of
        /\ op.version = tensor[Step.to].version /\ op.reads = {tensor[x] : x \in Step.from}
    BY DEF OpOn, Reads
  <2>2. Step.to \in DOMAIN Env /\ Agrees(Step.to) /\ tensor[Step.to] \in Tensor
    BY <1>1 DEF IsPooled, Sketched, Named
  <2>3. op.slot \in pool.lent /\ op.of \in Nat \X Nat /\ op.version \in Nat
    BY <2>1, <2>2 DEF Agrees, Tensor
  <2>4. \A u \in op.reads : u \in Tensor /\ u.slot \in pool.lent \cup fixed
    BY <1>1, <2>1 DEF Readable, Sketched, Named, Agrees
  <2>5. \A x \in DOMAIN Env : op.slot = tensor[x].slot => op.of = tensor[x].of
    <3>1. \A x \in DOMAIN Env : tensor[Step.to].slot = tensor[x].slot => tensor[x] = tensor[Step.to]
      BY <1>1, Aliases
    <3>. QED  BY <2>1, <3>1
  <2>6. \A i \in 1 .. Len(ops) : ops[i].slot = op.slot => ops[i].of = op.of
    BY <1>1, <2>1, <2>2 DEF Recorded
  <2>7. \A i \in 1 .. Len(ops) : \A x \in DOMAIN Env : ops[i].slot = tensor[x].slot => ops[i].of = tensor[x].of
    BY <1>1 DEF Recorded
  <2>8. sketch'.open = TRUE  BY <1>3
  <2>. HIDE DEF op
  <2>. QED  BY <1>1, <1>2, <1>6, <2>3, <2>4, <2>5, <2>6, <2>7, <2>8, Appending
<1>. QED  BY <1>4, <1>5, <1>6, <1>7 DEF FInv

LEMMA TensorAgain ==
  ASSUME NEW u \in Tensor, NEW n \in Nat, NEW t, t = Again(u, n)
  PROVE  t \in Tensor /\ t.slot = u.slot /\ t.of = u.of /\ t.version = u.version + 1 /\ t.n = n
<1>1. u = [slot |-> u.slot, of |-> u.of, version |-> u.version, n |-> u.n]
  BY DEF Tensor
<1>2. t = [slot |-> u.slot, of |-> u.of, version |-> u.version + 1, n |-> n]
  BY <1>1 DEF Again
<1>3. u.slot \in Nat /\ u.of \in Nat \X Nat /\ u.version \in Nat
  BY DEF Tensor
<1>. QED  BY <1>2, <1>3 DEF Tensor

LEMMA KnownRecord ==
  ASSUME NEW made \in Nat, NEW n \in Nat, NEW version \in Nat, NEW part \in SUBSET Nat, NEW written \in BOOLEAN
  PROVE  [made |-> made, n |-> n, version |-> version, part |-> part, written |-> written] \in Known
BY DEF Known

LEMMA KnownAgain ==
  ASSUME NEW k \in Known, NEW n \in Nat, NEW part \in SUBSET Nat, NEW w, w = Anew(k, n, part)
  PROVE  /\ w \in Known /\ w.made = k.made /\ w.version = k.version + 1
         /\ w.n = n /\ w.part = part /\ w.written
<1>1. k = [made |-> k.made, n |-> k.n, version |-> k.version, part |-> k.part, written |-> k.written]
  BY DEF Known
<1>2. w = [made |-> k.made, n |-> n, version |-> k.version + 1, part |-> part, written |-> TRUE]
  BY <1>1 DEF Anew
<1>3. k.made \in Nat /\ k.version \in Nat
  BY DEF Known
<1>4. w.made = k.made /\ w.version = k.version + 1 /\ w.n = n /\ w.part = part /\ w.written
  BY <1>2
<1>5. w \in Known
  <2>1. TRUE \in BOOLEAN /\ k.version + 1 \in Nat /\ n \in Nat /\ part \in SUBSET Nat
    BY <1>3
  <2>2. \A b \in BOOLEAN : [made |-> k.made, n |-> n, version |-> k.version + 1, part |-> part, written |-> b] \in Known
    BY <1>3, <2>1, KnownRecord
  <2>3. [made |-> k.made, n |-> n, version |-> k.version + 1, part |-> part, written |-> TRUE] \in Known
    BY <2>2
  <2>. QED  BY <1>2, <2>3
<1>. QED  BY <1>4, <1>5

LEMMA RewroteKeeps ==
  ASSUME Owned, Sketched, Named, NEW to, IsPooled(Env, to), NEW n \in Nat, NEW part \in SUBSET Nat, at \in Nat,
         NEW t, t = Again(tensor[to], n), tensor' = Renewed(t),
         sketch'.env = Rewrote(Env, to, n, part), at' = at + 1,
         size' = size, pool' = pool, fixed' = fixed, destroyed' = destroyed, calls' = calls
  PROVE  /\ Named' /\ Sketched'
         /\ DOMAIN Env' = DOMAIN Env /\ DOMAIN tensor' = DOMAIN tensor
         /\ t \in Tensor /\ t.slot = tensor[to].slot /\ t.of = tensor[to].of
         /\ t.version = tensor[to].version + 1 /\ t.n = n
         /\ \A x \in DOMAIN tensor : tensor'[x].slot = tensor[x].slot
         /\ \A x \in DOMAIN Env : tensor'[x].of = tensor[x].of
<1>. DEFINE Now(k) == IF k.made = Env[to].made
                        THEN Anew(k, n, part) ELSE k
<1>1. DOMAIN Env' = DOMAIN Env /\ \A x \in DOMAIN Env : Env'[x] = Now(Env[x])
  BY DEF Env, Rewrote, Alike
<1>2. /\ to \in DOMAIN Env /\ to \in DOMAIN tensor /\ tensor[to] \in Tensor /\ Agrees(to)
      /\ Env[to] \in Known /\ Env[to].made # 0
  BY DEF IsPooled, Sketched, Named
<1>3. /\ t \in Tensor /\ t.slot = tensor[to].slot /\ t.of = tensor[to].of
      /\ t.version = tensor[to].version + 1 /\ t.n = n
  BY <1>2, TensorAgain
<1>4. ASSUME NEW x \in DOMAIN Env
      PROVE  /\ Env'[x] \in Known /\ Env'[x].made = Env[x].made
             /\ Env[x].made = Env[to].made => Env'[x].version = Env[x].version + 1 /\ Env'[x].n = n
             /\ Env[x].made # Env[to].made => Env'[x] = Env[x]
  <2>1. Env[x] \in Known  BY DEF Sketched
  <2>2. CASE Env[x].made = Env[to].made
    <3>1. Env'[x] = Anew(Env[x], n, part)
      BY <1>1, <2>2
    <3>2. Env'[x] \in Known /\ Env'[x].made = Env[x].made /\ Env'[x].version = Env[x].version + 1 /\ Env'[x].n = n
      BY <2>1, <3>1, KnownAgain
    <3>. QED  BY <2>2, <3>2
  <2>3. CASE Env[x].made # Env[to].made
    BY <1>1, <2>1, <2>3
  <2>. QED  BY <2>2, <2>3
<1>. HIDE DEF Now
<1>5. DOMAIN tensor' = DOMAIN tensor
  BY DEF Renewed
<1>6. \A x \in DOMAIN tensor :
        /\ tensor[x].slot = tensor[to].slot => tensor'[x] = t
        /\ tensor[x].slot # tensor[to].slot => tensor'[x] = tensor[x]
  BY <1>3 DEF Renewed
<1>7. \A x \in DOMAIN tensor : tensor'[x].slot = tensor[x].slot
  BY <1>3, <1>6
<1>8. \A x \in DOMAIN Env :
        /\ Env[x].made = Env[to].made => tensor[x] = tensor[to] /\ Env[x] = Env[to] /\ tensor'[x] = t
        /\ Env[x].made # Env[to].made => tensor'[x] = tensor[x]
  <2>. SUFFICES ASSUME NEW x \in DOMAIN Env
                PROVE  /\ Env[x].made = Env[to].made => tensor[x] = tensor[to] /\ Env[x] = Env[to] /\ tensor'[x] = t
                       /\ Env[x].made # Env[to].made => tensor'[x] = tensor[x]
    OBVIOUS
  <2>1. tensor[to].slot = tensor[x].slot <=> Env[to].made = Env[x].made
    BY <1>2 DEF Sketched
  <2>2. x \in DOMAIN tensor  BY DEF Sketched
  <2>3. tensor[to].slot = tensor[x].slot => Env[x] = Env[to] /\ tensor[x] = tensor[to]
    BY Aliases
  <2>. QED  BY <1>6, <2>1, <2>2, <2>3
<1>9. \A x \in DOMAIN Env : tensor'[x].of = tensor[x].of
  BY <1>3, <1>8
<1>10. Named'
  <2>1. tensor[to].slot \in pool.lent /\ tensor[to].slot \notin fixed
    BY <1>2 DEF Agrees, Owned
  <2>2. \A x \in DOMAIN tensor : tensor'[x] \in Tensor /\ tensor'[x].slot \in DOMAIN size
    BY <1>3, <1>6, <1>7 DEF Named
  <2>3. \A x \in DOMAIN tensor : tensor[x].slot \in fixed => tensor'[x] = tensor[x]
    BY <1>6, <2>1
  <2>4. \A x \in DOMAIN tensor : tensor'[x].slot \in fixed => tensor'[x].slot \notin destroyed /\ tensor'[x].version = 0
    BY <1>7, <2>3 DEF Named
  <2>5. \A x, y \in DOMAIN tensor : tensor'[x].slot = tensor'[y].slot /\ tensor'[x].slot \in fixed => x = y
    BY <1>7 DEF Named
  <2>. QED  BY <1>5, <2>2, <2>4, <2>5 DEF Named
<1>11. ASSUME NEW x \in DOMAIN Env, Env'[x].made # 0 PROVE Agrees(x)'
  <2>1. Agrees(x) /\ Env[x].made < at'
    <3>1. Agrees(x) /\ Env[x].made \in Nat  BY <1>4, <1>11 DEF Sketched, Known
    <3>. QED  BY <3>1 DEF Agrees
  <2>2. CASE Env[x].made = Env[to].made
    <3>1. Env'[x].version = Env[x].version + 1 /\ Env'[x].n = n /\ Env'[x].made = Env[x].made
      BY <1>4, <2>2
    <3>2. tensor[x] = tensor[to] /\ tensor'[x] = t
      BY <1>8, <2>2
    <3>3. t.slot = tensor[x].slot /\ t.of = tensor[x].of /\ t.version = tensor[x].version + 1 /\ t.n = n
      BY <1>3, <3>2
    <3>. QED  BY <2>1, <3>1, <3>2, <3>3 DEF Agrees
  <2>3. CASE Env[x].made # Env[to].made
    <3>1. tensor'[x] = tensor[x] /\ Env'[x] = Env[x]
      BY <1>4, <1>8, <2>3
    <3>. QED  BY <2>1, <3>1 DEF Agrees
  <2>. QED  BY <2>2, <2>3
<1>12. ASSUME NEW x \in DOMAIN Env, NEW y \in DOMAIN Env, Env'[x].made # 0
       PROVE  /\ tensor'[x].slot = tensor'[y].slot <=> Env'[x].made = Env'[y].made
              /\ Env'[x].made = Env'[y].made => Env'[x] = Env'[y]
  <2>1. Env'[x].made = Env[x].made /\ Env'[y].made = Env[y].made
    BY <1>4
  <2>2. tensor'[x].slot = tensor[x].slot /\ tensor'[y].slot = tensor[y].slot
    BY <1>7 DEF Sketched
  <2>3. /\ tensor[x].slot = tensor[y].slot <=> Env[x].made = Env[y].made
        /\ Env[x].made = Env[y].made => Env[x] = Env[y]
    BY <1>12, <2>1 DEF Sketched
  <2>. QED  BY <1>1, <2>1, <2>2, <2>3
<1>13. /\ DOMAIN Env' \subseteq DOMAIN tensor'
       /\ \A x \in DOMAIN tensor' : x \notin DOMAIN Env' => tensor'[x].slot \in fixed'
       /\ \A x \in DOMAIN Env' : Env'[x] \in Known
       /\ \A x \in DOMAIN Env' : Env'[x].made = 0 => tensor'[x].slot \in fixed'
  <2>1. DOMAIN Env \subseteq DOMAIN tensor  BY DEF Sketched
  <2>. QED  BY <1>1, <1>4, <1>5, <1>7, <2>1 DEF Sketched
<1>14. Sketched'
  BY <1>1, <1>11, <1>12, <1>13 DEF Sketched
<1>. QED  BY <1>1, <1>3, <1>5, <1>7, <1>9, <1>10, <1>14

LEMMA RecordAgainKeeps == ASSUME FInv, Follows, RecordAgain, status' = "running" PROVE FInv'
<1>. DEFINE t == Again(tensor[Step.to], Step.n)
            op == OpOn(t, Step.part, Step.from)
<1>1. /\ Counters /\ Owned /\ Named /\ Sketched /\ Recorded
      /\ status = "running" /\ Step.op = "rewrite" /\ Step.part \in SUBSET Nat /\ Step.n \in Nat
      /\ IsPooled(Env, Step.to) /\ \A x \in Step.from : Readable(Env, x)
  BY DEF FInv, RecordAgain, At, Follows, Allowed, Env
<1>2. /\ ops' = Append(ops, op) /\ Advance
      /\ tensor' = Renewed(t)
      /\ size' = size /\ pool' = pool /\ fixed' = fixed /\ destroyed' = destroyed /\ device' = device
  BY DEF RecordAgain, Unread, Reject
<1>3. sketch' = [env |-> Rewrote(Env, Step.to, Step.n, Step.part), open |-> TRUE]
  BY <1>1, <1>2 DEF Advance, After, Env
<1>4. Counters' /\ status' = "running" /\ at' = at + 1 /\ calls' = calls
  BY <1>1, <1>2, Advancing
<1>5. Owned'
  BY <1>1, <1>2 DEF Owned
<1>. HIDE DEF t
<1>6. /\ Named' /\ Sketched'
      /\ DOMAIN Env' = DOMAIN Env /\ DOMAIN tensor' = DOMAIN tensor
      /\ t \in Tensor /\ t.slot = tensor[Step.to].slot /\ t.of = tensor[Step.to].of
      /\ \A x \in DOMAIN tensor : tensor'[x].slot = tensor[x].slot
      /\ \A x \in DOMAIN Env : tensor'[x].of = tensor[x].of
  <2>1. t = Again(tensor[Step.to], Step.n)
    BY DEF t
  <2>2. sketch'.env = Rewrote(Env, Step.to, Step.n, Step.part) /\ at \in Nat
    BY <1>1, <1>3 DEF Counters
  <2>. QED  BY <1>1, <1>2, <1>4, <2>1, <2>2, RewroteKeeps
<1>7. Recorded'
  <2>1. /\ op.slot = tensor[Step.to].slot /\ op.of = tensor[Step.to].of
        /\ op.version = t.version /\ op.reads = {tensor[x] : x \in Step.from}
    BY <1>6 DEF OpOn, Reads
  <2>2. Step.to \in DOMAIN Env /\ Agrees(Step.to) /\ tensor[Step.to] \in Tensor
    BY <1>1 DEF IsPooled, Sketched, Named
  <2>3. op.slot \in pool.lent /\ op.of \in Nat \X Nat /\ op.version \in Nat
    BY <1>6, <2>1, <2>2 DEF Agrees, Tensor
  <2>4. \A u \in op.reads : u \in Tensor /\ u.slot \in pool.lent \cup fixed
    BY <1>1, <2>1 DEF Readable, Sketched, Named, Agrees
  <2>5. \A x \in DOMAIN Env : tensor'[x].slot = tensor[x].slot /\ tensor'[x].of = tensor[x].of
    BY <1>1, <1>6 DEF Sketched
  <2>6. \A x \in DOMAIN Env : op.slot = tensor[x].slot => op.of = tensor[x].of
    <3>1. \A x \in DOMAIN Env : tensor[Step.to].slot = tensor[x].slot => tensor[x] = tensor[Step.to]
      BY <1>1, Aliases
    <3>. QED  BY <2>1, <3>1
  <2>7. \A i \in 1 .. Len(ops) : ops[i].slot = op.slot => ops[i].of = op.of
    BY <1>1, <2>1, <2>2 DEF Recorded
  <2>8. \A i \in 1 .. Len(ops) : \A x \in DOMAIN Env : ops[i].slot = tensor[x].slot => ops[i].of = tensor[x].of
    BY <1>1 DEF Recorded
  <2>9. sketch'.open = TRUE  BY <1>3
  <2>. HIDE DEF op
  <2>10. \A x \in DOMAIN Env' : op.slot = tensor'[x].slot => op.of = tensor'[x].of
    BY <1>6, <2>5, <2>6
  <2>11. \A i \in 1 .. Len(ops) : \A x \in DOMAIN Env' : ops[i].slot = tensor'[x].slot => ops[i].of = tensor'[x].of
    BY <1>6, <2>5, <2>8
  <2>12. /\ op.slot \in pool'.lent /\ \A u \in op.reads : u \in Tensor /\ u.slot \in pool'.lent \cup fixed'
         /\ pool.lent \cup pool.quarantine \subseteq pool'.lent \cup pool'.quarantine
    BY <1>2, <2>3, <2>4
  <2>. QED  BY <1>1, <1>2, <2>3, <2>7, <2>9, <2>10, <2>11, <2>12, Appending
<1>. QED  BY <1>4, <1>5, <1>6, <1>7 DEF FInv

LEMMA NameTensorKeeps == ASSUME FInv, Follows, NameTensor PROVE FInv'
<1>. DEFINE to == Step.to
            from == Step.from
<1>1. /\ Counters /\ Owned /\ Named /\ Sketched /\ Recorded
      /\ status = "running" /\ Step.op = "name" /\ IsPooled(Env, from)
  BY DEF FInv, NameTensor, At, Follows, Allowed, Env
<1>2. /\ tensor' = Bind(to, tensor[from]) /\ Advance
      /\ UNCHANGED <<size, pool, fixed, destroyed, device, ops>>
  BY DEF NameTensor
<1>3. sketch' = [env |-> Binding(Env, to, Env[from]), open |-> sketch.open]
  BY <1>1, <1>2 DEF Advance, After, Env
<1>4. Counters' /\ status' = "running" /\ at' = at + 1 /\ calls' = calls
  BY <1>1, <1>2, Advancing
<1>5. Owned'
  BY <1>1, <1>2 DEF Owned
<1>6. /\ size' = size /\ pool' = pool /\ fixed' = fixed /\ destroyed' = destroyed /\ ops' = ops
      /\ sketch'.open = sketch.open
  BY <1>2, <1>3
<1>. HIDE DEF to, from
<1>7. /\ from \in DOMAIN Env /\ from \in DOMAIN tensor /\ Agrees(from) /\ Env[from].made # 0
      /\ tensor[from] \in Tensor /\ tensor[from].slot \notin fixed
  BY <1>1 DEF IsPooled, Sketched, Named, Agrees, Owned
<1>8. /\ DOMAIN tensor' = DOMAIN tensor \cup {to} /\ tensor'[to] = tensor[from]
      /\ \A x \in DOMAIN tensor : x # to => tensor'[x] = tensor[x]
  BY <1>2 DEF Bind
<1>9. /\ DOMAIN Env' = DOMAIN Env \cup {to} /\ Env'[to] = Env[from]
      /\ \A x \in DOMAIN Env : x # to => Env'[x] = Env[x]
  BY <1>3 DEF Env, Binding
<1>10. Named'
  <2>1. \A x \in DOMAIN tensor' : tensor'[x] \in Tensor /\ tensor'[x].slot \in DOMAIN size'
    BY <1>1, <1>6, <1>7, <1>8 DEF Named
  <2>2. \A x \in DOMAIN tensor' :
          tensor'[x].slot \in fixed' => tensor'[x].slot \notin destroyed' /\ tensor'[x].version = 0
    BY <1>1, <1>6, <1>7, <1>8 DEF Named
  <2>3. \A x, y \in DOMAIN tensor' : tensor'[x].slot = tensor'[y].slot /\ tensor'[x].slot \in fixed' => x = y
    BY <1>1, <1>6, <1>7, <1>8 DEF Named
  <2>. QED  BY <2>1, <2>2, <2>3 DEF Named
<1>11. \A x \in DOMAIN Env' : \E y \in DOMAIN Env : Env'[x] = Env[y] /\ tensor'[x] = tensor[y]
  <2>1. DOMAIN Env \subseteq DOMAIN tensor  BY <1>1 DEF Sketched
  <2>. QED  BY <1>7, <1>8, <1>9, <2>1
<1>12. ASSUME NEW x \in DOMAIN Env', Env'[x].made # 0 PROVE Agrees(x)'
  <2>1. PICK y \in DOMAIN Env : Env'[x] = Env[y] /\ tensor'[x] = tensor[y]  BY <1>11
  <2>2. Agrees(y) /\ Env[y].made \in Nat  BY <1>1, <1>12, <2>1 DEF Sketched, Known
  <2>3. at < at'  BY <1>1, <1>4 DEF Counters
  <2>4. Env[y].made < at' /\ at \in Nat  BY <1>1, <1>4, <2>2, <2>3 DEF Agrees, Counters
  <2>. QED  BY <1>4, <1>6, <2>1, <2>2, <2>4 DEF Agrees
<1>13. ASSUME NEW x \in DOMAIN Env', NEW y \in DOMAIN Env', Env'[x].made # 0
       PROVE  /\ tensor'[x].slot = tensor'[y].slot <=> Env'[x].made = Env'[y].made
              /\ Env'[x].made = Env'[y].made => Env'[x] = Env'[y]
  <2>1. PICK u \in DOMAIN Env : Env'[x] = Env[u] /\ tensor'[x] = tensor[u]  BY <1>11
  <2>2. PICK v \in DOMAIN Env : Env'[y] = Env[v] /\ tensor'[y] = tensor[v]  BY <1>11
  <2>. QED  BY <1>1, <1>13, <2>1, <2>2 DEF Sketched
<1>14. /\ DOMAIN Env' \subseteq DOMAIN tensor'
       /\ \A x \in DOMAIN tensor' : x \notin DOMAIN Env' => tensor'[x].slot \in fixed'
       /\ \A x \in DOMAIN Env' : Env'[x] \in Known
       /\ \A x \in DOMAIN Env' : Env'[x].made = 0 => tensor'[x].slot \in fixed'
  BY <1>1, <1>6, <1>8, <1>9, <1>11 DEF Sketched
<1>15. Sketched'
  BY <1>12, <1>13, <1>14 DEF Sketched
<1>16. Recorded'
  <2>1. \A i \in 1 .. Len(ops) : \A x \in DOMAIN Env' : ops[i].slot = tensor'[x].slot => ops[i].of = tensor'[x].of
    BY <1>1, <1>11 DEF Recorded
  <2>. QED  BY <1>1, <1>6, <2>1 DEF Recorded
<1>. QED  BY <1>4, <1>5, <1>10, <1>15, <1>16 DEF FInv

LEMMA RecycleBufferKeeps == ASSUME FInv, Follows, RecycleBuffer PROVE FInv'
<1>. DEFINE x == Step.x
            s == tensor[x].slot
<1>1. /\ Counters /\ Owned /\ Named /\ Sketched /\ Recorded
      /\ status = "running" /\ Step.op = "recycle" /\ IsPooled(Env, x)
  BY DEF FInv, RecycleBuffer, At, Follows, Allowed, Env
<1>2. /\ pool' = Recycled(s) /\ tensor' = Restrict(tensor, {y \in DOMAIN tensor : tensor[y].slot # s}) /\ Advance
      /\ size' = size /\ fixed' = fixed /\ destroyed' = destroyed /\ device' = device /\ ops' = ops
  BY DEF RecycleBuffer
<1>3. sketch' = [env |-> Without(Env, x), open |-> sketch.open]
  BY <1>1, <1>2 DEF Advance, After, Env
<1>4. Counters' /\ status' = "running" /\ at' = at + 1 /\ calls' = calls
  BY <1>1, <1>2, Advancing
<1>. HIDE DEF x
<1>5. x \in DOMAIN Env /\ x \in DOMAIN tensor /\ s \in pool.lent /\ s \in Nat /\ Env[x].made # 0
  BY <1>1 DEF IsPooled, Sketched, Named, Agrees, Tensor
<1>6. /\ DOMAIN tensor' = {y \in DOMAIN tensor : tensor[y].slot # s}
      /\ \A y \in DOMAIN tensor' : tensor'[y] = tensor[y]
  BY <1>2 DEF Restrict
<1>7. /\ DOMAIN Env' = {y \in DOMAIN Env : Env[y].made # Env[x].made}
      /\ \A y \in DOMAIN Env' : Env'[y] = Env[y]
  BY <1>3 DEF Env, Without, Alike, Restrict
<1>8. \A y \in DOMAIN Env : tensor[y].slot # s <=> Env[y].made # Env[x].made
  BY <1>1, <1>5 DEF Sketched
<1>. HIDE DEF s
<1>9. /\ pool' \in [free : SUBSET Nat, lent : SUBSET Nat, quarantine : SUBSET Nat]
      /\ pool'.free = pool.free /\ pool'.lent = pool.lent \ {s}
      /\ pool'.quarantine = pool.quarantine \cup {s}
  <2>1. pool' = [pool EXCEPT !.lent = @ \ {s}, !.quarantine = @ \cup ({s} \cap pool.lent)]
    BY <1>2 DEF Recycled
  <2>2. pool \in [free : SUBSET Nat, lent : SUBSET Nat, quarantine : SUBSET Nat]
    BY <1>1 DEF Owned
  <2>3. {s} \cap pool.lent = {s}  BY <1>5
  <2>. QED  BY <1>5, <2>1, <2>2, <2>3
<1>10. Owned'
  BY <1>1, <1>2, <1>5, <1>9 DEF Owned
<1>11. Named'
  BY <1>1, <1>2, <1>6 DEF Named
<1>12. ASSUME NEW y \in DOMAIN Env', Env'[y].made # 0 PROVE Agrees(y)'
  <2>1. y \in DOMAIN Env /\ Env'[y] = Env[y] /\ tensor[y].slot # s /\ tensor'[y] = tensor[y]
    BY <1>1, <1>6, <1>7, <1>8 DEF Sketched
  <2>2. Agrees(y) /\ Env[y].made \in Nat  BY <1>1, <1>12, <2>1 DEF Sketched, Known
  <2>3. Env[y].made < at' /\ at \in Nat  BY <1>1, <1>4, <2>2 DEF Agrees, Counters
  <2>. QED  BY <1>4, <1>9, <2>1, <2>2, <2>3 DEF Agrees
<1>13. DOMAIN Env' \subseteq DOMAIN Env /\ DOMAIN Env' \subseteq DOMAIN tensor' /\ DOMAIN tensor' \subseteq DOMAIN tensor
  BY <1>1, <1>6, <1>7, <1>8 DEF Sketched
<1>14. Sketched'
  <2>1. \A y \in DOMAIN tensor' : y \notin DOMAIN Env' => tensor'[y].slot \in fixed'
    BY <1>1, <1>2, <1>6, <1>7, <1>8 DEF Sketched
  <2>2. \A y \in DOMAIN Env' : Env'[y] \in Known /\ (Env'[y].made = 0 => tensor'[y].slot \in fixed')
    BY <1>1, <1>2, <1>6, <1>7, <1>13 DEF Sketched
  <2>3. \A y, z \in DOMAIN Env' :
         Env'[y].made # 0 =>
           /\ tensor'[y].slot = tensor'[z].slot <=> Env'[y].made = Env'[z].made
           /\ Env'[y].made = Env'[z].made => Env'[y] = Env'[z]
    BY <1>1, <1>6, <1>7, <1>13 DEF Sketched
  <2>. QED  BY <1>12, <1>13, <2>1, <2>2, <2>3 DEF Sketched
<1>15. Recorded'
  <2>1. pool'.lent \cup pool'.quarantine = pool.lent \cup pool.quarantine
    BY <1>5, <1>9
  <2>2. sketch'.open = sketch.open  BY <1>3
  <2>3. \A i \in 1 .. Len(ops) : \A y \in DOMAIN Env' : ops[i].slot = tensor'[y].slot => ops[i].of = tensor'[y].of
    BY <1>1, <1>6, <1>13 DEF Recorded
  <2>4. \A i \in 1 .. Len(ops) :
          /\ ops[i].slot \in pool'.lent \cup pool'.quarantine
          /\ \A t \in ops[i].reads : t \in Tensor /\ t.slot \in pool'.lent \cup pool'.quarantine \cup fixed'
    BY <1>1, <1>2, <2>1 DEF Recorded
  <2>. QED  BY <1>1, <1>2, <2>2, <2>3, <2>4 DEF Recorded
<1>. QED  BY <1>4, <1>10, <1>11, <1>14, <1>15 DEF FInv

LEMMA FixBufferKeeps == ASSUME FInv, Follows, FixBuffer PROVE FInv'
<1>. DEFINE x == Step.to
            s == Len(size) + 1
<1>1. /\ Counters /\ Owned /\ Named /\ Sketched /\ Recorded
      /\ status = "running" /\ Step.op = "fix" /\ Step.n \in Nat /\ ~ IsPooled(Env, x)
  BY DEF FInv, FixBuffer, At, Follows, Allowed, Env
<1>2. Advance /\ ops' = ops
  BY DEF FixBuffer
<1>3. sketch' = [env |-> Binding(Env, x, Kept), open |-> sketch.open]
  BY <1>1, <1>2 DEF Advance, After, Env
<1>4. Counters' /\ status' = "running" /\ at' = at + 1 /\ calls' = calls
  BY <1>1, <1>2, Advancing
<1>. HIDE DEF x
<1>5. /\ DOMAIN Env' = DOMAIN Env \cup {x} /\ Env'[x] = Kept /\ Kept \in Known /\ Kept.made = 0
      /\ \A y \in DOMAIN Env : y # x => Env'[y] = Env[y]
  <2>1. Kept \in Known /\ Kept.made = 0
    <3>1. \A b \in BOOLEAN : Fresh(0, 0, {}, b) \in Known /\ Fresh(0, 0, {}, b).made = 0
      BY DEF Fresh, Known
    <3>. QED  BY <3>1 DEF Kept
  <2>. QED  BY <1>3, <2>1 DEF Env, Binding
<1>6. x \in DOMAIN tensor => tensor[x].slot \in fixed
  BY <1>1 DEF Sketched, IsPooled
<1>7. /\ sketch'.open = sketch.open /\ at \in Nat
      /\ \A y \in DOMAIN Env : Env[y].made \in Nat
  BY <1>1, <1>3 DEF Counters, Sketched, Known
<1>8. CASE UNCHANGED memory /\ x \in DOMAIN tensor
  <2>1. /\ size' = size /\ pool' = pool /\ fixed' = fixed /\ destroyed' = destroyed
        /\ tensor' = tensor /\ device' = device
    BY <1>8 DEF memory
  <2>2. Owned' /\ Named'
    BY <1>1, <2>1 DEF Owned, Named
  <2>3. ASSUME NEW y \in DOMAIN Env', Env'[y].made # 0 PROVE Agrees(y)' /\ y \in DOMAIN Env /\ Env'[y] = Env[y]
    <3>1. y # x /\ y \in DOMAIN Env /\ Env'[y] = Env[y]  BY <1>5, <2>3
    <3>2. Agrees(y)  BY <1>1, <2>3, <3>1 DEF Sketched
    <3>3. Env[y].made < at'  BY <1>4, <1>7, <3>1, <3>2 DEF Agrees
    <3>. QED  BY <1>4, <2>1, <3>1, <3>2, <3>3 DEF Agrees
  <2>4. ASSUME NEW y \in DOMAIN Env', NEW z \in DOMAIN Env', Env'[y].made # 0
        PROVE  /\ tensor'[y].slot = tensor'[z].slot <=> Env'[y].made = Env'[z].made
               /\ Env'[y].made = Env'[z].made => Env'[y] = Env'[z]
    <3>1. y \in DOMAIN Env /\ Env'[y] = Env[y] /\ tensor[y].slot \notin fixed
      BY <1>1, <2>3, <2>4 DEF Sketched, Agrees, Owned
    <3>2. CASE z = x
      BY <1>5, <1>6, <1>8, <2>1, <2>4, <3>1, <3>2
    <3>3. CASE z # x
      <4>1. z \in DOMAIN Env /\ Env'[z] = Env[z]  BY <1>5, <3>3
      <4>. QED  BY <1>1, <2>1, <2>4, <3>1, <4>1 DEF Sketched
    <3>. QED  BY <3>2, <3>3
  <2>5. /\ DOMAIN Env' \subseteq DOMAIN tensor'
        /\ \A y \in DOMAIN tensor' : y \notin DOMAIN Env' => tensor'[y].slot \in fixed'
        /\ \A y \in DOMAIN Env' : Env'[y] \in Known
        /\ \A y \in DOMAIN Env' : Env'[y].made = 0 => tensor'[y].slot \in fixed'
    BY <1>1, <1>5, <1>6, <1>8, <2>1 DEF Sketched
  <2>6. Sketched'
    BY <2>3, <2>4, <2>5 DEF Sketched
  <2>7. Recorded'
    <3>1. \A i \in 1 .. Len(ops) : ops[i].slot \notin fixed
      BY <1>1 DEF Recorded, Owned
    <3>2. \A i \in 1 .. Len(ops) : \A y \in DOMAIN Env' : ops[i].slot = tensor[y].slot => ops[i].of = tensor[y].of
      BY <1>1, <1>5, <1>6, <1>8, <3>1 DEF Recorded
    <3>. QED  BY <1>1, <1>2, <1>7, <2>1, <3>2 DEF Recorded
  <2>. QED  BY <1>4, <2>2, <2>6, <2>7 DEF FInv
<1>9. CASE /\ size' = Append(size, Step.n)
           /\ device' = Append(device, [of |-> <<calls, at>>, version |-> 0, part |-> Elements(Step.n)])
           /\ tensor' = Bind(x, Made(s, Step.n))
           /\ fixed' = fixed \cup {s}
           /\ destroyed' = destroyed \cup {tensor[y].slot : y \in {x} \cap DOMAIN tensor}
           /\ pool' = pool
  <2>1. /\ s \in Nat /\ s \notin DOMAIN size /\ Len(size') = s /\ Len(device') = s
        /\ DOMAIN size' = DOMAIN size \cup {s} /\ DOMAIN device' = 1 .. s /\ DOMAIN size' = 1 .. s
    <3>1. Len(size) \in Nat /\ Len(device) = Len(size) /\ DOMAIN size = 1 .. Len(size)
      BY <1>1 DEF Owned
    <3>2. Len(size') = s /\ Len(device') = s /\ DOMAIN device' = 1 .. s /\ DOMAIN size' = 1 .. s
      BY <1>9, <3>1
    <3>. QED  BY <3>1, <3>2
  <2>. HIDE DEF s
  <2>2. {tensor[y].slot : y \in {x} \cap DOMAIN tensor} \subseteq fixed
    BY <1>6
  <2>3. Owned'
    BY <1>1, <1>9, <2>1, <2>2 DEF Owned
  <2>4. /\ DOMAIN tensor' = DOMAIN tensor \cup {x} /\ tensor'[x] = Made(s, Step.n)
        /\ \A y \in DOMAIN tensor : y # x => tensor'[y] = tensor[y]
    BY <1>9 DEF Bind
  <2>5. Made(s, Step.n) \in Tensor /\ Made(s, Step.n).slot = s /\ Made(s, Step.n).version = 0
    BY <1>1, <1>7, <2>1 DEF Made, Tensor, Counters
  <2>6. \A y \in DOMAIN tensor : tensor[y].slot # s
    BY <1>1, <2>1 DEF Named
  <2>7. fixed \subseteq DOMAIN size /\ destroyed \subseteq DOMAIN size
    BY <1>1 DEF Owned
  <2>8. Named'
    <3>1. \A y \in DOMAIN tensor' : tensor'[y] \in Tensor /\ tensor'[y].slot \in DOMAIN size'
      BY <1>1, <2>1, <2>4, <2>5 DEF Named
    <3>2. \A y \in DOMAIN tensor' :
            tensor'[y].slot \in fixed' => tensor'[y].slot \notin destroyed' /\ tensor'[y].version = 0
      <4>. SUFFICES ASSUME NEW y \in DOMAIN tensor', tensor'[y].slot \in fixed'
                    PROVE  tensor'[y].slot \notin destroyed' /\ tensor'[y].version = 0
        OBVIOUS
      <4>1. CASE y = x
        BY <1>9, <2>1, <2>2, <2>4, <2>5, <2>7, <4>1
      <4>2. CASE y # x
        <5>1. y \in DOMAIN tensor /\ tensor'[y] = tensor[y] /\ tensor[y].slot \in fixed
          BY <1>9, <2>4, <2>6, <4>2
        <5>2. x \in DOMAIN tensor => tensor[x].slot # tensor[y].slot
          BY <1>1, <4>2, <5>1 DEF Named
        <5>. QED  BY <1>1, <1>9, <5>1, <5>2 DEF Named
      <4>. QED  BY <4>1, <4>2
    <3>3. \A y, z \in DOMAIN tensor' : tensor'[y].slot = tensor'[z].slot /\ tensor'[y].slot \in fixed' => y = z
      BY <1>1, <1>9, <2>4, <2>5, <2>6 DEF Named
    <3>. QED  BY <3>1, <3>2, <3>3 DEF Named
  <2>9. ASSUME NEW y \in DOMAIN Env', Env'[y].made # 0
        PROVE  Agrees(y)' /\ y # x /\ y \in DOMAIN Env /\ Env'[y] = Env[y] /\ tensor'[y] = tensor[y] /\ y \in DOMAIN tensor
    <3>1. y # x /\ y \in DOMAIN Env /\ Env'[y] = Env[y]  BY <1>5, <2>9
    <3>2. Agrees(y) /\ y \in DOMAIN tensor  BY <1>1, <2>9, <3>1 DEF Sketched
    <3>3. Env[y].made < at'  BY <1>4, <1>7, <3>1, <3>2 DEF Agrees
    <3>4. tensor'[y] = tensor[y]  BY <2>4, <3>1, <3>2
    <3>. QED  BY <1>4, <1>9, <3>1, <3>2, <3>3, <3>4 DEF Agrees
  <2>10. ASSUME NEW y \in DOMAIN Env', NEW z \in DOMAIN Env', Env'[y].made # 0
         PROVE  /\ tensor'[y].slot = tensor'[z].slot <=> Env'[y].made = Env'[z].made
                /\ Env'[y].made = Env'[z].made => Env'[y] = Env'[z]
    <3>1. y \in DOMAIN Env /\ Env'[y] = Env[y] /\ tensor'[y] = tensor[y] /\ tensor[y].slot # s
      BY <2>6, <2>9, <2>10
    <3>2. CASE z = x
      BY <1>5, <2>4, <2>5, <2>10, <3>1, <3>2
    <3>3. CASE z # x
      <4>1. z \in DOMAIN Env /\ Env'[z] = Env[z] /\ tensor'[z] = tensor[z]  BY <1>1, <1>5, <2>4, <3>3 DEF Sketched
      <4>. QED  BY <1>1, <2>10, <3>1, <4>1 DEF Sketched
    <3>. QED  BY <3>2, <3>3
  <2>11. Sketched'
    <3>1. /\ DOMAIN Env' \subseteq DOMAIN tensor'
          /\ \A y \in DOMAIN tensor' : y \notin DOMAIN Env' => tensor'[y].slot \in fixed'
          /\ \A y \in DOMAIN Env' : Env'[y] \in Known
      BY <1>1, <1>5, <1>9, <2>4 DEF Sketched
    <3>2. \A y \in DOMAIN Env' : Env'[y].made = 0 => tensor'[y].slot \in fixed'
      BY <1>1, <1>5, <1>9, <2>4, <2>5 DEF Sketched
    <3>. QED  BY <2>9, <2>10, <3>1, <3>2 DEF Sketched
  <2>12. Recorded'
    <3>1. \A i \in 1 .. Len(ops) : ops[i].slot # s
      BY <1>1, <2>1 DEF Recorded, Owned
    <3>2. \A i \in 1 .. Len(ops) : \A y \in DOMAIN Env' : ops[i].slot = tensor'[y].slot => ops[i].of = tensor'[y].of
      BY <1>1, <1>5, <2>4, <2>5, <3>1 DEF Recorded, Sketched
    <3>3. fixed \subseteq fixed'  BY <1>9
    <3>4. ops' = ops /\ sketch'.open = sketch.open /\ pool' = pool  BY <1>2, <1>7, <1>9
    <3>5. \A i \in 1 .. Len(ops) : \A t \in ops[i].reads :
            t \in Tensor /\ t.slot \in pool.lent \cup pool.quarantine \cup fixed'
      BY <1>1, <3>3 DEF Recorded
    <3>6. /\ Len(ops') \in Nat /\ DOMAIN ops' = 1 .. Len(ops') /\ (Len(ops') = 0 <=> ops' = <<>>)
          /\ sketch'.open \in BOOLEAN /\ (sketch'.open <=> Len(ops') # 0)
      BY <1>1, <3>4 DEF Recorded
    <3>7. \A i \in 1 .. Len(ops') :
            /\ ops'[i].slot \in pool'.lent \cup pool'.quarantine
            /\ ops'[i].of \in Nat \X Nat /\ ops'[i].version \in Nat
      BY <1>1, <3>4 DEF Recorded
    <3>8. \A i, j \in 1 .. Len(ops') : ops'[i].slot = ops'[j].slot => ops'[i].of = ops'[j].of
      BY <1>1, <3>4 DEF Recorded
    <3>9. \A i \in 1 .. Len(ops') :
            /\ \A t \in ops'[i].reads :
                 t \in Tensor /\ t.slot \in pool'.lent \cup pool'.quarantine \cup fixed'
            /\ \A y \in DOMAIN Env' : ops'[i].slot = tensor'[y].slot => ops'[i].of = tensor'[y].of
      BY <3>2, <3>4, <3>5
    <3>. QED  BY <3>6, <3>7, <3>8, <3>9 DEF Recorded
  <2>. QED  BY <1>4, <2>3, <2>8, <2>11, <2>12 DEF FInv
<1>. QED  BY <1>8, <1>9 DEF FixBuffer, x

LEMMA PreloadKeeps == ASSUME FInv, Follows, Preload, status' = "running" PROVE FInv'
<1>1. /\ Counters /\ Owned /\ Named /\ Sketched /\ Recorded
      /\ status = "running" /\ Step.op = "announce"
  BY DEF FInv, Preload, At
<1>2. Advance /\ UNCHANGED <<memory, ops>>
  BY DEF Preload, Unread, Reject
<1>3. sketch' = sketch
  BY <1>1, <1>2 DEF Advance, After
<1>4. Counters' /\ status' = "running" /\ at' = at + 1 /\ calls' = calls
  BY <1>1, <1>2, Advancing
<1>5. /\ size' = size /\ pool' = pool /\ fixed' = fixed /\ destroyed' = destroyed
      /\ tensor' = tensor /\ device' = device /\ ops' = ops /\ Env' = Env
  BY <1>2, <1>3 DEF memory, Env
<1>6. Owned' /\ Named'
  BY <1>1, <1>5 DEF Owned, Named
<1>7. Sketched'
  <2>1. ASSUME NEW y \in DOMAIN Env, Env[y].made # 0 PROVE Agrees(y)'
    <3>1. Agrees(y) /\ Env[y].made \in Nat  BY <1>1, <2>1 DEF Sketched, Known
    <3>2. Env[y].made < at' /\ at \in Nat  BY <1>1, <1>4, <3>1 DEF Agrees, Counters
    <3>. QED  BY <1>4, <1>5, <3>1, <3>2 DEF Agrees
  <2>. QED  BY <1>1, <1>5, <2>1 DEF Sketched
<1>8. Recorded'
  BY <1>1, <1>3, <1>5 DEF Recorded
<1>. QED  BY <1>4, <1>6, <1>7, <1>8 DEF FInv

-----------------------------------------------------------------------------
(* What the submissions do *)

LEMMA SubmittedDomain ==
  ASSUME Len(ops) \in Nat, Owned
  PROVE  DOMAIN Submitted = DOMAIN device /\ Len(Submitted) = Len(device)
<1>. DEFINE S == {n \in Nat : n <= Len(ops) => DOMAIN Before[n + 1] = DOMAIN device}
<1>1. 0 \in S
  BY Replay
<1>2. ASSUME NEW n \in Nat, n \in S PROVE n + 1 \in S
  <2>. SUFFICES ASSUME n + 1 <= Len(ops) PROVE DOMAIN Before[(n + 1) + 1] = DOMAIN device
    OBVIOUS
  <2>1. Before[(n + 1) + 1] = Applied(Before[n + 1], ops[n + 1])
    BY Replay
  <2>2. DOMAIN Before[n + 1] = DOMAIN device
    BY <1>2
  <2>. QED  BY <2>1, <2>2 DEF Applied
<1>3. \A n \in Nat : n \in S
  <2>. HIDE DEF S
  <2>. QED  BY <1>1, <1>2, SetInduction
<1>4. DOMAIN Submitted = DOMAIN device
  BY <1>3 DEF Submitted
<1>. HIDE DEF S
<1>. QED  BY <1>4 DEF Owned

(* After a submission nothing is recorded.                                 *)
LEMMA NothingRecorded ==
  ASSUME ops' = <<>>, sketch'.open = FALSE PROVE Recorded'
<1>1. Len(ops') = 0 /\ DOMAIN ops' = 1 .. 0
  OBVIOUS
<1>2. sketch'.open \in BOOLEAN /\ (sketch'.open <=> Len(ops') # 0)
  BY <1>1, Zenon
<1>. QED  BY <1>1, <1>2 DEF Recorded

LEMMA SubmitKeeps == ASSUME FInv, Follows, Submit PROVE FInv'
<1>. DEFINE keep == {tensor[x].slot : x \in Step.keep}
            Stays == /\ device' = Submitted /\ ops' = <<>> /\ Release(keep)
                     /\ size' = size /\ fixed' = fixed
<1>1. /\ Counters /\ Owned /\ Named /\ Sketched /\ Recorded
      /\ status = "running" /\ Step.op = "flush" /\ \A x \in Step.keep : IsPooled(Env, x)
  BY DEF FInv, Submit, At, Follows, Allowed, Env
<1>2. Counters' /\ status' = "running" /\ at' = at + 1 /\ calls' = calls /\ Advance
  BY <1>1, Advancing DEF Submit
<1>3. CASE ops = <<>> /\ Step.back = {}
  <2>1. /\ size' = size /\ pool' = pool /\ fixed' = fixed /\ destroyed' = destroyed
        /\ tensor' = tensor /\ device' = device /\ ops' = ops
    BY <1>3 DEF Submit, memory
  <2>2. ~ sketch.open
    BY <1>1, <1>3 DEF Recorded
  <2>3. sketch' = sketch
    BY <1>1, <1>2, <1>3, <2>2 DEF Advance, After
  <2>4. Owned' /\ Named'
    BY <1>1, <2>1 DEF Owned, Named
  <2>5. Env' = Env
    BY <2>3 DEF Env
  <2>6. Sketched'
    <3>1. ASSUME NEW y \in DOMAIN Env, Env[y].made # 0 PROVE Agrees(y)'
      <4>1. Agrees(y) /\ Env[y].made \in Nat  BY <1>1, <3>1 DEF Sketched, Known
      <4>2. Env[y].made < at' /\ at \in Nat  BY <1>1, <1>2, <4>1 DEF Agrees, Counters
      <4>. QED  BY <1>2, <2>1, <2>5, <4>1, <4>2 DEF Agrees
    <3>. QED  BY <1>1, <2>1, <2>5, <3>1 DEF Sketched
  <2>7. Recorded'
    BY <1>1, <2>1, <2>3, <2>5 DEF Recorded
  <2>. QED  BY <1>2, <2>4, <2>6, <2>7 DEF FInv
<1>4. CASE Stays /\ ~ (ops = <<>> /\ Step.back = {})
  <2>1. sketch.open \/ Step.back # {}
    BY <1>1, <1>4 DEF Recorded
  <2>2. sketch' = [env |-> Keeping(Env, Step.keep), open |-> FALSE]
    BY <1>1, <1>2, <2>1 DEF Advance, After, Env
  <2>3. \A x \in Step.keep : x \in DOMAIN Env /\ Env[x].made # 0 /\ Agrees(x) /\ tensor[x].slot \in pool.lent
    BY <1>1 DEF IsPooled, Sketched, Agrees
  <2>4. keep \subseteq pool.lent
    BY <2>3
  <2>5. DOMAIN device' = DOMAIN device /\ Len(device') = Len(device)
    BY <1>1, <1>4, SubmittedDomain DEF Recorded
  <2>6. tensor' = Restrict(tensor, {x \in DOMAIN tensor : tensor[x].slot \in keep \cup fixed})
    BY <1>4 DEF Release
  <2>7. /\ DOMAIN tensor' = {x \in DOMAIN tensor : tensor[x].slot \in keep \cup fixed}
        /\ \A x \in DOMAIN tensor' : tensor'[x] = tensor[x]
    BY <2>6 DEF Restrict
  <2>8. \A y \in DOMAIN Env : Env[y].made # 0 =>
           (tensor[y].slot \in keep <=> \E x \in Step.keep : Alike(Env, y, x))
    BY <1>1, <2>3 DEF Sketched, Alike
  <2>. HIDE DEF keep
  <2>9. /\ Owned' /\ pool'.lent = keep /\ pool'.quarantine = {}
        /\ destroyed' \cap (keep \cup fixed) \subseteq destroyed
    BY <1>1, <1>4, <2>4, <2>5, Releasing
  <2>10. /\ DOMAIN Env' = {y \in DOMAIN Env : Env[y].made = 0 \/ \E x \in Step.keep : Alike(Env, y, x)}
         /\ \A y \in DOMAIN Env' : Env'[y] = Env[y]
    BY <2>2 DEF Env, Keeping, Restrict
  <2>11. Named'
    BY <1>1, <1>4, <2>7, <2>9 DEF Named
  <2>12. ASSUME NEW y \in DOMAIN Env', Env'[y].made # 0
         PROVE  Agrees(y)' /\ y \in DOMAIN tensor'
    <3>1. y \in DOMAIN Env /\ Env'[y] = Env[y] /\ tensor[y].slot \in keep /\ y \in DOMAIN tensor
      BY <1>1, <2>8, <2>10, <2>12 DEF Sketched
    <3>2. tensor'[y] = tensor[y] /\ y \in DOMAIN tensor'  BY <2>7, <3>1
    <3>3. Agrees(y) /\ Env[y].made \in Nat  BY <1>1, <2>12, <3>1 DEF Sketched, Known
    <3>4. Env[y].made < at' /\ at \in Nat  BY <1>1, <1>2, <3>3 DEF Agrees, Counters
    <3>. QED  BY <1>2, <2>9, <3>1, <3>2, <3>3, <3>4 DEF Agrees
  <2>13. Sketched'
    <3>1. \A y \in DOMAIN Env' : Env'[y].made = 0 => tensor[y].slot \in fixed /\ y \in DOMAIN tensor'
      BY <1>1, <2>7, <2>10 DEF Sketched
    <3>2. DOMAIN Env' \subseteq DOMAIN tensor'
      BY <2>12, <3>1
    <3>3. \A y \in DOMAIN tensor' : y \notin DOMAIN Env' => tensor'[y].slot \in fixed'
      BY <1>1, <1>4, <2>7, <2>8, <2>10 DEF Sketched
    <3>4. \A y \in DOMAIN Env' : Env'[y] \in Known /\ (Env'[y].made = 0 => tensor'[y].slot \in fixed')
      BY <1>1, <1>4, <2>7, <2>10, <3>1 DEF Sketched
    <3>5. \A y, z \in DOMAIN Env' :
           Env'[y].made # 0 =>
             /\ tensor'[y].slot = tensor'[z].slot <=> Env'[y].made = Env'[z].made
             /\ Env'[y].made = Env'[z].made => Env'[y] = Env'[z]
      BY <1>1, <2>7, <2>10, <3>2 DEF Sketched
    <3>. QED  BY <2>12, <3>2, <3>3, <3>4, <3>5 DEF Sketched
  <2>14. Recorded'
    BY <1>4, <2>2, NothingRecorded
  <2>. QED  BY <1>2, <2>9, <2>11, <2>13, <2>14 DEF FInv
<1>. QED
  <2>1. ~ (ops = <<>> /\ Step.back = {}) => device' = Submitted /\ ops' = <<>> /\ UNCHANGED <<size, fixed>>
    BY DEF Submit
  <2>2. ~ (ops = <<>> /\ Step.back = {}) => Release(keep)
    BY Zenon DEF Submit
  <2>. QED  BY <1>3, <1>4, <2>1, <2>2

LEMMA SubmitOneKeeps == ASSUME FInv, Follows, SubmitOne PROVE FInv'
<1>1. /\ Counters /\ Owned /\ Named /\ Sketched /\ Recorded
      /\ status = "running" /\ Step.op = "await"
  BY DEF FInv, SubmitOne, At
<1>2. Counters' /\ status' = "running" /\ at' = at + 1 /\ calls' = calls /\ Advance
  BY <1>1, Advancing DEF SubmitOne
<1>3. /\ size' = size /\ pool' = pool /\ fixed' = fixed /\ destroyed' = destroyed
      /\ tensor' = tensor /\ device' = Submitted /\ ops' = <<>>
  BY DEF SubmitOne
<1>4. sketch' = [env |-> Env, open |-> FALSE]
  BY <1>1, <1>2 DEF Advance, After, Env
<1>5. Env' = Env /\ sketch'.open = FALSE
  BY <1>4 DEF Env
<1>6. Owned' /\ Named'
  <2>1. DOMAIN device' = DOMAIN device /\ Len(device') = Len(device)
    BY <1>1, <1>3, SubmittedDomain DEF Recorded
  <2>. QED  BY <1>1, <1>3, <2>1 DEF Owned, Named
<1>7. Sketched'
  <2>1. ASSUME NEW y \in DOMAIN Env, Env[y].made # 0 PROVE Agrees(y)'
    <3>1. Agrees(y) /\ Env[y].made \in Nat  BY <1>1, <2>1 DEF Sketched, Known
    <3>2. Env[y].made < at' /\ at \in Nat  BY <1>1, <1>2, <3>1 DEF Agrees, Counters
    <3>. QED  BY <1>2, <1>3, <1>5, <3>1, <3>2 DEF Agrees
  <2>. QED  BY <1>1, <1>3, <1>5, <2>1 DEF Sketched
<1>8. Recorded'
  BY <1>3, <1>5, NothingRecorded
<1>. QED  BY <1>2, <1>6, <1>7, <1>8 DEF FInv

(* The result is read; what the pool of a call held is destroyed with it,  *)
(* and the pool of an object gets everything back.                         *)
LEMMA FinishKeeps == ASSUME FInv, Finish PROVE FInv'
<1>1. /\ Counters /\ Owned /\ Named /\ Sketched /\ Recorded
  BY DEF FInv, Finish, At
<1>2. Counters' /\ status' # "running"
  BY <1>1, Stopping DEF Finish
<1>3. CASE Discard
  BY <1>2, <1>3, Discarding DEF FInv
<1>4. CASE device' = Submitted /\ Release({}) /\ UNCHANGED <<size, fixed>>
  <2>1. DOMAIN device' = DOMAIN device /\ Len(device') = Len(device)
    BY <1>1, <1>4, SubmittedDomain DEF Recorded
  <2>2. Owned' /\ destroyed' \cap ({} \cup fixed) \subseteq destroyed
    BY <1>1, <1>4, <2>1, Releasing
  <2>3. tensor' = Restrict(tensor, {x \in DOMAIN tensor : tensor[x].slot \in {} \cup fixed})
    BY <1>4 DEF Release
  <2>4. /\ DOMAIN tensor' \subseteq DOMAIN tensor
        /\ \A x \in DOMAIN tensor' : tensor'[x] = tensor[x]
    BY <2>3 DEF Restrict
  <2>5. Named'
    BY <1>1, <1>4, <2>2, <2>4 DEF Named
  <2>. QED  BY <1>2, <2>2, <2>5 DEF FInv
<1>. QED  BY <1>3, <1>4 DEF Finish

LEMMA RejectKeeps ==
  ASSUME FInv, NEW uploaded, Reject(uploaded), Owned', Named' PROVE FInv'
<1>1. Counters' /\ status' # "running"
  BY Stopping DEF FInv, Reject
<1>. QED  BY <1>1 DEF FInv

LEMMA AbandonKeeps ==
  ASSUME FInv, NEW d, DOMAIN d = DOMAIN device, Len(d) = Len(device),
         NEW uploaded, Reject(uploaded), Abandon(d)
  PROVE  FInv'
<1>1. CASE Discard
  BY <1>1, Discarding, RejectKeeps
<1>2. CASE device' = d /\ UNCHANGED <<size, pool, fixed, destroyed, tensor>>
  <2>1. Owned' /\ Named'
    BY <1>2 DEF FInv, Owned, Named
  <2>. QED  BY <2>1, RejectKeeps
<1>. QED  BY <1>1, <1>2 DEF Abandon

LEMMA UnreadKeeps == ASSUME FInv, Unread PROVE FInv'
BY AbandonKeeps DEF Unread

LEMMA LostDomain == ASSUME Owned PROVE DOMAIN Lost = DOMAIN device /\ Len(Lost) = Len(device)
BY DEF Lost, Owned

LEMMA SubmitFailsKeeps == ASSUME FInv, SubmitFails PROVE FInv'
BY LostDomain, AbandonKeeps DEF SubmitFails, FInv

LEMMA PreloadFailsKeeps == ASSUME FInv, PreloadFails PROVE FInv'
BY AbandonKeeps DEF PreloadFails

LEMMA RecordFailsKeeps == ASSUME FInv, RecordFails PROVE FInv'
<1>1. PICK uploaded : Reject(uploaded)
  BY DEF RecordFails
<1>0. Owned /\ Named
  BY DEF FInv
<1>2. CASE Discard
  BY <1>1, <1>2, Discarding, RejectKeeps
<1>3. CASE /\ Lend(SlotFor(Step.n), Step.n) /\ device' = Grown(device, SlotFor(Step.n))
           /\ UNCHANGED <<fixed, destroyed, tensor>>
  <2>1. Owned' /\ DOMAIN size \subseteq DOMAIN size'
    BY <1>0, <1>3, Lending
  <2>2. Named'
    BY <1>0, <1>3, <2>1 DEF Named
  <2>. QED  BY <1>1, <2>1, <2>2, RejectKeeps
<1>. QED  BY <1>2, <1>3 DEF RecordFails

LEMMA CallKeeps == ASSUME FInv, Call PROVE FInv'
<1>1. /\ Counters /\ Owned /\ Named /\ status # "running" /\ ops = <<>> /\ sketch = Start
      /\ calls \in Nat
  BY DEF FInv, Call, Counters
<1>2. /\ calls' = calls + 1 /\ at' = 1 /\ status' = "running" /\ model' = model
      /\ tensor' = Restrict(tensor, {x \in DOMAIN tensor : tensor[x].slot \in fixed})
      /\ size' = size /\ pool' = pool /\ fixed' = fixed /\ destroyed' = destroyed /\ device' = device
      /\ ops' = <<>> /\ sketch' = Start
  BY <1>1 DEF Call
<1>3. Counters'
  <2>1. model' \in Model /\ calls' \in Nat /\ calls' # 0 /\ at' \in Nat
    BY <1>1, <1>2 DEF Counters
  <2>2. Len(Forward[model']) \in Nat \ {0} /\ \A k \in 1 .. Len(Forward[model']) : Len(Forward[model'][k]) \in Nat \ {0}
    BY <2>1, ForwardAssumption
  <2>. DEFINE k == ((calls' - 1) % Len(Forward[model'])) + 1
  <2>3. k \in 1 .. Len(Forward[model'])
    BY <2>1, <2>2
  <2>4. Program' = Forward[model'][k]
    BY DEF Program
  <2>. HIDE DEF k
  <2>5. at' \in 1 .. Len(Program')
    BY <1>2, <2>2, <2>3, <2>4
  <2>. QED  BY <1>2, <2>1, <2>5 DEF Counters
<1>4. Owned'
  BY <1>1, <1>2 DEF Owned
<1>5. /\ DOMAIN tensor' = {x \in DOMAIN tensor : tensor[x].slot \in fixed}
      /\ \A x \in DOMAIN tensor' : tensor'[x] = tensor[x]
  BY <1>2 DEF Restrict
<1>6. Named'
  <2>1. UNCHANGED <<size, fixed, destroyed>> /\ Named  BY <1>1, <1>2
  <2>2. \A x \in DOMAIN tensor' : x \in DOMAIN tensor /\ tensor'[x] = tensor[x]  BY <1>5
  <2>. QED  BY <2>1, <2>2 DEF Named
<1>7. Env' = <<>> /\ sketch'.open = FALSE
  BY <1>2 DEF Env, Start
<1>8. Sketched'
  <2>1. DOMAIN Env' = {}
    BY <1>7
  <2>. QED  BY <1>2, <1>5, <2>1 DEF Sketched
<1>9. Recorded'
  BY <1>2, <1>7, NothingRecorded
<1>. QED  BY <1>3, <1>4, <1>6, <1>8, <1>9 DEF FInv

(* Whatever leaves all but the weights as it is.                           *)
LEMMA StayingKeeps ==
  ASSUME FInv, UNCHANGED <<model, calls, at, status, memory, ops, sketch>> PROVE FInv'
<1>1. /\ model' = model /\ calls' = calls /\ at' = at /\ status' = status /\ ops' = ops /\ sketch' = sketch
      /\ size' = size /\ pool' = pool /\ fixed' = fixed /\ destroyed' = destroyed
      /\ tensor' = tensor /\ device' = device
  BY DEF memory
<1>2. Counters'
  BY <1>1 DEF FInv, Counters, Program
<1>3. Owned' /\ Named'
  BY <1>1 DEF FInv, Owned, Named
<1>4. status = "running" => Sketched'
  BY <1>1 DEF FInv, Sketched, Agrees, Env
<1>5. status = "running" => Recorded'
  BY <1>1 DEF FInv, Recorded, Env
<1>. QED  BY <1>1, <1>2, <1>3, <1>4, <1>5 DEF FInv

-----------------------------------------------------------------------------
LEMMA FInvInit == ASSUME Init PROVE FInv
<1>1. Counters
  BY DEF Init, Counters
<1>2. Owned
  BY DEF Init, Owned
<1>3. Named
  BY DEF Init, Named
<1>. QED  BY <1>1, <1>2, <1>3 DEF Init, FInv

LEMMA FInvNext == ASSUME FInv, Follows, [Next]_vars PROVE FInv'
<1>1. CASE Call  BY <1>1, CallKeeps
<1>2. CASE TakeBuffer  BY <1>2, TakeBufferKeeps
<1>3. CASE WriteFromHost  BY <1>3, WriteFromHostKeeps
<1>4. CASE FixBuffer  BY <1>4, FixBufferKeeps
<1>5. CASE RecordInto
  <2>1. status' = "running" \/ Unread  BY <1>5 DEF RecordInto, Advance, At
  <2>. QED  BY <1>5, <2>1, RecordIntoKeeps, UnreadKeeps
<1>6. CASE Record
  <2>1. status' = "running" \/ Unread  BY <1>6 DEF Record, Advance, At
  <2>. QED  BY <1>6, <2>1, RecordKeeps, UnreadKeeps
<1>7. CASE RecordAgain
  <2>1. status' = "running" \/ Unread  BY <1>7 DEF RecordAgain, Advance, At
  <2>. QED  BY <1>7, <2>1, RecordAgainKeeps, UnreadKeeps
<1>8. CASE NameTensor  BY <1>8, NameTensorKeeps
<1>9. CASE RecycleBuffer  BY <1>9, RecycleBufferKeeps
<1>10. CASE Preload
  <2>1. status' = "running" \/ Unread  BY <1>10 DEF Preload, Advance, At
  <2>. QED  BY <1>10, <2>1, PreloadKeeps, UnreadKeeps
<1>11. CASE Submit  BY <1>11, SubmitKeeps
<1>12. CASE SubmitOne  BY <1>12, SubmitOneKeeps
<1>13. CASE Finish  BY <1>13, FinishKeeps
<1>14. CASE RecordFails  BY <1>14, RecordFailsKeeps
<1>15. CASE PreloadFails  BY <1>15, PreloadFailsKeeps
<1>16. CASE SubmitFails  BY <1>16, SubmitFailsKeeps
<1>17. CASE ReleaseWeights  BY <1>17, StayingKeeps DEF ReleaseWeights
<1>18. CASE Over  BY <1>18, StayingKeeps DEF Over, vars
<1>19. CASE UNCHANGED vars  BY <1>19, StayingKeeps DEF vars
<1>. QED  BY <1>1, <1>2, <1>3, <1>4, <1>5, <1>6, <1>7, <1>8, <1>9, <1>10, <1>11, <1>12, <1>13,
             <1>14, <1>15, <1>16, <1>17, <1>18, <1>19 DEF Next

LEMMA FInvAlways == Spec /\ []Follows => []FInv
<1>1. Init => FInv  BY FInvInit
<1>2. FInv /\ Follows /\ [Next]_vars => FInv'  BY FInvNext
<1>. QED  BY <1>1, <1>2, PTL DEF Spec

(* Whatever call failed before, every buffer the pool ever made is free,   *)
(* lent, in quarantine or destroyed, and only one of these.                *)
THEOREM PoolKept == Spec /\ []Follows => []PoolPartition
<1>1. FInv => PoolPartition
  <2>. SUFFICES ASSUME FInv PROVE PoolPartition
    OBVIOUS
  <2>. DEFINE halves == <<pool.free, pool.lent, pool.quarantine, destroyed>>
  <2>1. /\ halves[1] = pool.free /\ halves[2] = pool.lent
        /\ halves[3] = pool.quarantine /\ halves[4] = destroyed
        /\ DOMAIN halves = {1, 2, 3, 4}
    OBVIOUS
  <2>2. Range(halves) = {pool.free, pool.lent, pool.quarantine, destroyed}
    BY <2>1 DEF Range
  <2>. HIDE DEF halves
  <2>3. \A i, j \in 1 .. 4 : i # j => halves[i] \cap halves[j] \subseteq fixed
    <3>. SUFFICES ASSUME NEW i \in 1 .. 4, NEW j \in 1 .. 4, i # j PROVE halves[i] \cap halves[j] = {}
      OBVIOUS
    <3>1. i \in {1, 2, 3, 4} /\ j \in {1, 2, 3, 4}
      OBVIOUS
    <3>. QED  BY <2>1, <3>1 DEF FInv, Owned
  <2>4. DOMAIN size \ fixed \subseteq UNION Range(halves)
    BY <2>2 DEF FInv, Owned
  <2>. QED  BY <2>3, <2>4 DEF PoolPartition, halves
<1>. QED  BY <1>1, FInvAlways, PTL

(* Whatever buffer a step names was not recycled, was kept by every flush  *)
(* since it was taken and was not evicted.                                 *)
THEOREM EveryUseIsLive == Spec /\ []Follows => []ReadsLive
<1>1. FInv /\ Follows => ReadsLive
  <2>. SUFFICES ASSUME FInv, Follows, status = "running", NEW x \in Uses(Step) PROVE Live(x)
    BY DEF ReadsLive
  <2>1. Owned /\ Named /\ Sketched /\ Allowed(Env, Step)
    BY DEF FInv, Follows, Env
  <2>2. x \in DOMAIN Env
    BY <2>1 DEF Uses, Allowed, IsPooled, Readable
  <2>3. x \in DOMAIN tensor
    BY <2>1, <2>2 DEF Sketched
  <2>4. CASE Env[x].made = 0
    BY <2>1, <2>2, <2>3, <2>4 DEF Sketched, Named, Live
  <2>5. CASE Env[x].made # 0
    <3>1. tensor[x].slot \in pool.lent
      BY <2>1, <2>2, <2>5 DEF Sketched, Agrees
    <3>. QED  BY <2>1, <2>3, <3>1 DEF Owned, Live
  <2>. QED  BY <2>4, <2>5
<1>. QED  BY <1>1, FInvAlways, PTL

(* Within one submission no buffer holds two tensors.                      *)
THEOREM OneTensor == Spec /\ []Follows => []OneTensorPerBatch
<1>1. FInv => OneTensorPerBatch
  BY DEF FInv, OneTensorPerBatch, Submits, Recorded
<1>. QED  BY <1>1, FInvAlways, PTL

-----------------------------------------------------------------------------
(* Sums over finite sets *)

SumOf(f, S) == MapThenSumSet(LAMBDA s : f[s], S)

(* The element a sum takes first.                                          *)
Pick(s) == CHOOSE x \in s : TRUE

(* g is the recursion of the sum, over the subsets of U.                   *)
IsSum(f, U, g) == g = [s \in SUBSET U |-> IF s = {} THEN 0 ELSE f[Pick(s)] + g[s \ {Pick(s)}]]

LEMMA Picking ==
  ASSUME NEW U, IsFiniteSet(U), NEW s \in SUBSET U
  PROVE  /\ IsFiniteSet(s) /\ Cardinality(s) \in Nat /\ (Cardinality(s) = 0 <=> s = {})
         /\ s # {} => /\ Pick(s) \in s /\ s \ {Pick(s)} \in SUBSET U
                      /\ Cardinality(s \ {Pick(s)}) = Cardinality(s) - 1
<1>1. IsFiniteSet(s)  BY FS_Subset
<1>2. s # {} => Pick(s) \in s  BY DEF Pick
<1>. QED  BY <1>1, <1>2, FS_CardinalityType, FS_EmptySet, FS_RemoveElement

LEMMA SumExists ==
  ASSUME NEW f, NEW U, IsFiniteSet(U) PROVE \E g : IsSum(f, U, g)
<1>. DEFINE Small(k) == {s \in SUBSET U : Cardinality(s) <= k}
            Body(g, s) == IF s = {} THEN 0 ELSE f[Pick(s)] + g[s \ {Pick(s)}]
            S == {k \in Nat : \E g : g = [s \in Small(k) |-> Body(g, s)]}
<1>1. 0 \in S
  <2>. DEFINE g == [s \in Small(0) |-> 0]
  <2>1. \A s \in Small(0) : Body(g, s) = 0  BY Picking
  <2>2. g = [s \in Small(0) |-> Body(g, s)]
    <3>. HIDE DEF Body, Small
    <3>. QED  BY <2>1
  <2>. HIDE DEF g, Small, Body
  <2>. QED  BY <2>2
<1>2. ASSUME NEW k \in Nat, k \in S PROVE k + 1 \in S
  <2>1. PICK g : g = [s \in Small(k) |-> Body(g, s)]  BY <1>2
  <2>. DEFINE h == [s \in Small(k + 1) |-> Body(g, s)]
  <2>2. ASSUME NEW s \in Small(k + 1) PROVE Body(g, s) = Body(h, s)
    <3>1. CASE s = {}  BY <3>1
    <3>2. CASE s # {}
      <4>. DEFINE r == s \ {Pick(s)}
      <4>1. r \in Small(k) /\ r \in Small(k + 1)  BY <3>2, Picking
      <4>2. h[r] = Body(g, r)  BY <4>1
      <4>3. g[r] = Body(g, r)
        <5>. HIDE DEF Body, Small, r
        <5>. QED  BY <2>1, <4>1
      <4>4. g[r] = h[r]  BY <4>2, <4>3
      <4>. QED  BY <3>2, <4>4
    <3>. QED  BY <3>1, <3>2
  <2>3. h = [s \in Small(k + 1) |-> Body(h, s)]
    <3>. HIDE DEF Body, Small
    <3>. QED  BY <2>2
  <2>. HIDE DEF h, Body, Small
  <2>. QED  BY <2>3
<1>3. Cardinality(U) \in S
  <2>. HIDE DEF S
  <2>. QED  BY <1>1, <1>2, SetInduction, FS_CardinalityType
<1>4. Small(Cardinality(U)) = SUBSET U  BY FS_Subset
<1>5. PICK g : g = [s \in Small(Cardinality(U)) |-> Body(g, s)]  BY <1>3
<1>6. IsSum(f, U, g)
  <2>. HIDE DEF Small
  <2>. QED  BY <1>4, <1>5 DEF IsSum
<1>. QED  BY <1>6

LEMMA SumAgrees ==
  ASSUME NEW f, NEW U, IsFiniteSet(U), NEW V, V \subseteq U, NEW g, IsSum(f, U, g),
         NEW h, IsSum(f, V, h)
  PROVE  \A s \in SUBSET V : g[s] = h[s]
<1>. DEFINE S == {k \in Nat : \A s \in SUBSET V : Cardinality(s) = k => g[s] = h[s]}
<1>0. IsFiniteSet(V)  BY FS_Subset
<1>1. ASSUME NEW s \in SUBSET V
      PROVE  /\ s = {} => g[s] = 0 /\ h[s] = 0
             /\ s # {} => /\ g[s] = f[Pick(s)] + g[s \ {Pick(s)}]
                          /\ h[s] = f[Pick(s)] + h[s \ {Pick(s)}]
  BY DEF IsSum
<1>2. 0 \in S
  BY <1>0, <1>1, Picking
<1>3. ASSUME NEW k \in Nat, k \in S PROVE k + 1 \in S
  <2>. SUFFICES ASSUME NEW s \in SUBSET V, Cardinality(s) = k + 1 PROVE g[s] = h[s]
    OBVIOUS
  <2>1. s # {} /\ s \ {Pick(s)} \in SUBSET V /\ Cardinality(s \ {Pick(s)}) = k
    BY <1>0, Picking
  <2>2. g[s \ {Pick(s)}] = h[s \ {Pick(s)}]  BY <1>3, <2>1
  <2>. QED  BY <1>1, <2>1, <2>2
<1>4. \A k \in Nat : k \in S
  <2>. HIDE DEF S
  <2>. QED  BY <1>2, <1>3, SetInduction
<1>. QED  BY <1>0, <1>4, Picking

(* A sum is its first element and the sum of the others.                   *)
LEMMA SumStep ==
  ASSUME NEW f, NEW S, IsFiniteSet(S)
  PROVE  /\ S = {} => SumOf(f, S) = 0
         /\ S # {} => SumOf(f, S) = f[Pick(S)] + SumOf(f, S \ {Pick(S)})
<1>. DEFINE Rec(U) == CHOOSE g : g = [s \in SUBSET U |-> IF s = {} THEN 0 ELSE f[Pick(s)] + g[s \ {Pick(s)}]]
<1>1. ASSUME NEW U, IsFiniteSet(U) PROVE SumOf(f, U) = Rec(U)[U] /\ IsSum(f, U, Rec(U))
  <2>1. SumOf(f, U) = Rec(U)[U]
    BY DEF SumOf, MapThenSumSet, MapThenFoldSet, Pick
  <2>2. \E g : IsSum(f, U, g)  BY <1>1, SumExists
  <2>3. IsSum(f, U, Rec(U))  BY <2>2 DEF IsSum
  <2>. QED  BY <2>1, <2>3
<1>2. SumOf(f, S) = Rec(S)[S] /\ IsSum(f, S, Rec(S))  BY <1>1
<1>. HIDE DEF Rec
<1>5. /\ S = {} => Rec(S)[S] = 0
      /\ S # {} => Rec(S)[S] = f[Pick(S)] + Rec(S)[S \ {Pick(S)}]
  <2>1. S \in SUBSET S  OBVIOUS
  <2>. QED  BY <1>2, <2>1 DEF IsSum
<1>3. CASE S = {}
  BY <1>2, <1>3, <1>5
<1>4. CASE S # {}
  <2>. DEFINE T == S \ {Pick(S)}
  <2>1. T \subseteq S /\ IsFiniteSet(T)  BY FS_Subset
  <2>2. SumOf(f, T) = Rec(T)[T] /\ IsSum(f, T, Rec(T))  BY <1>1, <2>1
  <2>3. Rec(S)[S] = f[Pick(S)] + Rec(S)[T]  BY <1>4, <1>5
  <2>4. Rec(S)[T] = Rec(T)[T]
    <3>1. T \in SUBSET T  OBVIOUS
    <3>. HIDE DEF T
    <3>2. ASSUME NEW g, IsSum(f, S, g), NEW h, IsSum(f, T, h)
          PROVE  \A s \in SUBSET T : g[s] = h[s]
      BY <2>1, <3>2, SumAgrees
    <3>3. \A s \in SUBSET T : Rec(S)[s] = Rec(T)[s]  BY <1>2, <2>2, <3>2
    <3>. QED  BY <3>1, <3>3
  <2>. QED  BY <1>2, <1>4, <2>2, <2>3, <2>4
<1>. QED  BY <1>3, <1>4

LEMMA SumIsNat ==
  ASSUME NEW f, NEW S, IsFiniteSet(S), \A x \in S : f[x] \in Nat PROVE SumOf(f, S) \in Nat
<1>. DEFINE K == {k \in Nat : \A s \in SUBSET S : Cardinality(s) = k => SumOf(f, s) \in Nat}
<1>1. 0 \in K
  <2>1. SumOf(f, {}) = 0  BY FS_EmptySet, SumStep
  <2>2. \A s \in SUBSET S : Cardinality(s) = 0 => s = {}  BY Picking
  <2>. QED  BY <2>1, <2>2
<1>2. ASSUME NEW k \in Nat, k \in K PROVE k + 1 \in K
  <2>. SUFFICES ASSUME NEW s \in SUBSET S, Cardinality(s) = k + 1 PROVE SumOf(f, s) \in Nat
    OBVIOUS
  <2>1. IsFiniteSet(s) /\ s # {} /\ Pick(s) \in s /\ s \ {Pick(s)} \in SUBSET S /\ Cardinality(s \ {Pick(s)}) = k
    BY Picking
  <2>2. SumOf(f, s \ {Pick(s)}) \in Nat  BY <1>2, <2>1
  <2>. QED  BY <2>1, <2>2, SumStep
<1>3. \A k \in Nat : k \in K
  <2>. HIDE DEF K
  <2>. QED  BY <1>1, <1>2, SetInduction
<1>. QED  BY <1>3, Picking

(* Whichever element is taken first, the sum is the same.                  *)
LEMMA SumRemove ==
  ASSUME NEW f, NEW S, IsFiniteSet(S), \A x \in S : f[x] \in Nat, NEW x \in S
  PROVE  SumOf(f, S) = f[x] + SumOf(f, S \ {x})
<1>. DEFINE K == {k \in Nat : \A s \in SUBSET S : Cardinality(s) = k =>
                                \A y \in s : SumOf(f, s) = f[y] + SumOf(f, s \ {y})}
<1>1. 0 \in K  BY Picking
<1>2. ASSUME NEW k \in Nat, k \in K PROVE k + 1 \in K
  <2>. SUFFICES ASSUME NEW s \in SUBSET S, Cardinality(s) = k + 1, NEW y \in s
       PROVE  SumOf(f, s) = f[y] + SumOf(f, s \ {y})
    OBVIOUS
  <2>. DEFINE p == Pick(s)
  <2>1. IsFiniteSet(s) /\ s # {} /\ p \in s /\ s \ {p} \in SUBSET S /\ Cardinality(s \ {p}) = k
    BY Picking
  <2>2. SumOf(f, s) = f[p] + SumOf(f, s \ {p})  BY <2>1, SumStep
  <2>. HIDE DEF p
  <2>3. CASE y = p  BY <2>2, <2>3
  <2>4. CASE y # p
    <3>. DEFINE r == s \ {p, y}
    <3>1. SumOf(f, s \ {p}) = f[y] + SumOf(f, (s \ {p}) \ {y})  BY <1>2, <2>1, <2>4
    <3>2. s \ {y} \in SUBSET S /\ Cardinality(s \ {y}) = k  BY <2>1, FS_RemoveElement
    <3>3. SumOf(f, s \ {y}) = f[p] + SumOf(f, (s \ {y}) \ {p})  BY <1>2, <2>1, <2>4, <3>2
    <3>4. (s \ {p}) \ {y} = r /\ (s \ {y}) \ {p} = r  OBVIOUS
    <3>5. IsFiniteSet(r) /\ r \in SUBSET S  BY <2>1, FS_Subset
    <3>6. SumOf(f, r) \in Nat  BY <3>5, SumIsNat
    <3>7. f[p] \in Nat /\ f[y] \in Nat  BY <2>1
    <3>. HIDE DEF r
    <3>. QED  BY <2>2, <3>1, <3>3, <3>4, <3>6, <3>7
  <2>. QED  BY <2>3, <2>4
<1>3. \A k \in Nat : k \in K
  <2>. HIDE DEF K
  <2>. QED  BY <1>1, <1>2, SetInduction
<1>. QED  BY <1>3, FS_CardinalityType

(* A sum over fewer elements is not larger.                                *)
LEMMA SumGrows ==
  ASSUME NEW f, NEW B, IsFiniteSet(B), \A x \in B : f[x] \in Nat, NEW A \in SUBSET B
  PROVE  SumOf(f, A) <= SumOf(f, B)
<1>. DEFINE K == {k \in Nat : \A s \in SUBSET B : A \subseteq s /\ Cardinality(s) = k => SumOf(f, A) <= SumOf(f, s)}
<1>0. \A s \in SUBSET B : IsFiniteSet(s) /\ SumOf(f, s) \in Nat
  BY FS_Subset, SumIsNat
<1>1. 0 \in K
  <2>1. \A s \in SUBSET B : A \subseteq s /\ Cardinality(s) = 0 => A = s  BY Picking
  <2>. QED  BY <1>0, <2>1
<1>2. ASSUME NEW k \in Nat, k \in K PROVE k + 1 \in K
  <2>. SUFFICES ASSUME NEW s \in SUBSET B, A \subseteq s, Cardinality(s) = k + 1 PROVE SumOf(f, A) <= SumOf(f, s)
    OBVIOUS
  <2>1. CASE A = s  BY <1>0, <2>1
  <2>2. CASE A # s
    <3>1. PICK x \in s : x \notin A  BY <2>2
    <3>0. Cardinality(s \ {x}) = Cardinality(s) - 1  BY <1>0, FS_RemoveElement
    <3>2. s \ {x} \in SUBSET B /\ A \subseteq s \ {x} /\ Cardinality(s \ {x}) = k
      BY <3>0, <3>1
    <3>3. SumOf(f, A) <= SumOf(f, s \ {x})  BY <1>2, <3>2
    <3>4. SumOf(f, s) = f[x] + SumOf(f, s \ {x})  BY <1>0, SumRemove
    <3>5. f[x] \in Nat /\ SumOf(f, s \ {x}) \in Nat /\ SumOf(f, A) \in Nat  BY <1>0, <3>2
    <3>. QED  BY <3>3, <3>4, <3>5
  <2>. QED  BY <2>1, <2>2
<1>3. \A k \in Nat : k \in K
  <2>. HIDE DEF K
  <2>. QED  BY <1>1, <1>2, SetInduction
<1>. QED  BY <1>3, FS_CardinalityType

-----------------------------------------------------------------------------
(* After a call *)

(* Rooms are numbers, and what is free after a call fits the budget.       *)
SInv ==
  /\ \A s \in DOMAIN size : size[s] \in Nat
  /\ status = "done" =>
       pool.lent = {} /\ pool.quarantine = {} /\ Bytes(pool.free) <= policy.budget

LEMMA PolicyKnown == ASSUME Counters PROVE policy \in Pooling
BY ForwardAssumption DEF Counters, policy

LEMMA ClassIsNat ==
  ASSUME Counters, status = "running", Step.op \in {"take", "into"}, Step.n \in Nat
  PROVE  Class(Step.n) \in Nat
<1>1. policy \in Pooling  BY PolicyKnown
<1>2. CASE policy.class = "best"  BY <1>2 DEF Class
<1>3. CASE policy.class = "grain"
  <2>1. policy.grain \in Nat \ {0}  BY <1>1 DEF Pooling
  <2>. DEFINE q == (Step.n + policy.grain - 1) \div policy.grain
  <2>2. Step.n + policy.grain - 1 \in Nat  BY <2>1
  <2>3. q \in Nat  BY <2>1, <2>2
  <2>4. Class(Step.n) = policy.grain * q  BY <1>3 DEF Class
  <2>. HIDE DEF q
  <2>. QED  BY <2>1, <2>3, <2>4
<1>4. CASE policy.class = "power"
  <2>1. at \in 1 .. Len(Program) /\ model \in Model  BY DEF Counters
  <2>2. Requests(Program) \subseteq 0 .. 256
    <3>. DEFINE k == ((calls - 1) % Len(Forward[model])) + 1
    <3>1. Len(Forward[model]) \in Nat \ {0}  BY <2>1, ForwardAssumption
    <3>2. k \in 1 .. Len(Forward[model])
      <4>1. calls - 1 \in Int  BY DEF Counters
      <4>. QED  BY <3>1, <4>1
    <3>3. Program = Forward[model][k] /\ Policy[model].class = "power"
      BY <1>4 DEF Program, policy
    <3>. HIDE DEF k
    <3>. QED  BY <2>1, <3>2, <3>3, ForwardAssumption
  <2>3. Step.n \in 0 .. 256  BY <2>1, <2>2 DEF Requests, Step
  <2>. DEFINE P == {p \in Powers : p >= Step.n}
  <2>4. P \subseteq Nat /\ 256 \in P  BY <2>3 DEF Powers
  <2>5. \E x \in P : \A y \in P : x <= y
    <3>. HIDE DEF P
    <3>. QED  BY <2>4, LeastNatural
  <2>6. Min(P) \in Nat
    <3>. HIDE DEF P
    <3>. QED  BY <2>4, <2>5 DEF Min
  <2>7. Class(Step.n) = Min(P)  BY <1>4 DEF Class
  <2>. QED  BY <2>6, <2>7
<1>. QED  BY <1>1, <1>2, <1>3, <1>4 DEF Pooling

LEMMA BytesIsSum == ASSUME NEW S PROVE Bytes(S) = SumOf(size, S)
BY DEF Bytes, SumOf

(* Of some buffers there is one after which none is evicted.               *)
LEMMA GreatestSlot ==
  ASSUME NEW n \in Nat, NEW K, K \subseteq 1 .. n, K # {}, \A s \in K : size[s] \in Nat
  PROVE  \E m \in K : \A t \in K : size[t] < size[m] \/ (size[t] = size[m] /\ t <= m)
<1>. DEFINE Greatest(A, m) == \A t \in A : size[t] < size[m] \/ (size[t] = size[m] /\ t <= m)
            S == {i \in Nat : \A A \in SUBSET K : A \subseteq 1 .. i /\ A # {} => \E m \in A : Greatest(A, m)}
<1>1. 0 \in S
  <2>1. \A A : A \subseteq 1 .. 0 => A = {}  OBVIOUS
  <2>. QED  BY <2>1
<1>2. ASSUME NEW i \in Nat, i \in S PROVE i + 1 \in S
  <2>. SUFFICES ASSUME NEW A \in SUBSET K, A \subseteq 1 .. i + 1, A # {} PROVE \E m \in A : Greatest(A, m)
    OBVIOUS
  <2>. DEFINE B == A \ {i + 1}
  <2>1. B \in SUBSET K /\ B \subseteq 1 .. i  OBVIOUS
  <2>2. CASE B = {}
    <3>1. i + 1 \in A /\ \A t \in A : t = i + 1  BY <2>2
    <3>. QED  BY <3>1
  <2>3. CASE B # {} /\ i + 1 \notin A
    <3>1. A = B  BY <2>3
    <3>. QED  BY <1>2, <2>1, <2>3, <3>1
  <2>4. CASE B # {} /\ i + 1 \in A
    <3>1. PICK m \in B : Greatest(B, m)  BY <1>2, <2>1, <2>4
    <3>2. \A t \in A : t \in Nat /\ size[t] \in Nat /\ (t \in B \/ t = i + 1)  OBVIOUS
    <3>3. CASE size[m] <= size[i + 1]
      <4>1. Greatest(A, i + 1)
        <5>1. ASSUME NEW t \in B PROVE size[t] < size[i + 1] \/ (size[t] = size[i + 1] /\ t <= i + 1)
          <6>1. size[t] \in Nat /\ size[m] \in Nat /\ size[i + 1] \in Nat /\ t \in 1 .. i /\ m \in B
            BY <2>1, <2>4, <3>2
          <6>2. size[t] < size[m] \/ size[t] = size[m]  BY <3>1
          <6>. QED  BY <3>3, <6>1, <6>2
        <5>. QED  BY <3>2, <5>1
      <4>. QED  BY <2>4, <4>1
    <3>4. CASE ~ (size[m] <= size[i + 1])
      <4>1. Greatest(A, m)
        <5>1. size[i + 1] < size[m]  BY <2>4, <3>2, <3>4
        <5>. QED  BY <3>1, <3>2, <5>1
      <4>. QED  BY <4>1
    <3>. QED  BY <3>3, <3>4
  <2>. QED  BY <2>2, <2>3, <2>4
<1>3. n \in S
  <2>. HIDE DEF S
  <2>. QED  BY <1>1, <1>2, SetInduction
<1>. QED  BY <1>3

(* What is left after the eviction fits the budget.                        *)
LEMMA WithinBudget ==
  ASSUME NEW free, free \subseteq 1 .. Len(size), Len(size) \in Nat, policy.budget \in Nat,
         \A s \in free : size[s] \in Nat
  PROVE  Bytes(free \ Evicted(free)) <= policy.budget
<1>. DEFINE K == free \ Evicted(free)
            Upto(s) == {t \in free : size[t] < size[s] \/ (size[t] = size[s] /\ t <= s)}
<1>1. CASE K = {}
  <2>1. Bytes(K) = 0  BY <1>1, BytesIsSum, SumStep, FS_EmptySet
  <2>. QED  BY <2>1
<1>2. CASE K # {}
  <2>1. PICK m \in K : \A t \in K : size[t] < size[m] \/ (size[t] = size[m] /\ t <= m)
    <3>1. K \subseteq 1 .. Len(size) /\ \A s \in K : size[s] \in Nat  OBVIOUS
    <3>. HIDE DEF K
    <3>. QED  BY <1>2, <3>1, GreatestSlot
  <2>2. K \in SUBSET Upto(m)  BY <2>1
  <2>3. ~ (Bytes(Upto(m)) > policy.budget)
    <3>1. m \in free /\ m \notin Evicted(free)  OBVIOUS
    <3>. QED  BY <3>1 DEF Evicted
  <2>4. IsFiniteSet(Upto(m)) /\ \A s \in Upto(m) : size[s] \in Nat
    <3>1. IsFiniteSet(1 .. Len(size))  BY FS_Interval
    <3>2. Upto(m) \in SUBSET (1 .. Len(size))  OBVIOUS
    <3>. QED  BY <3>1, <3>2, FS_Subset
  <2>. HIDE DEF K, Upto
  <2>5. SumOf(size, K) <= SumOf(size, Upto(m)) /\ SumOf(size, Upto(m)) \in Nat
    BY <2>2, <2>4, SumGrows, SumIsNat
  <2>6. IsFiniteSet(K) /\ \A s \in K : size[s] \in Nat  BY <2>2, <2>4, FS_Subset
  <2>7. SumOf(size, K) \in Nat  BY <2>6, SumIsNat
  <2>. QED  BY <2>3, <2>5, <2>7, BytesIsSum DEF K
<1>. QED  BY <1>1, <1>2

LEMMA Rooms ==
  ASSUME FInv, Follows, SInv, [Next]_vars PROVE \A s \in DOMAIN size' : size'[s] \in Nat
<1>1. \/ size' = size \/ size' = <<>>
      \/ /\ status = "running" /\ Step.op \in {"take", "into"} /\ size' = Append(size, Class(Step.n))
      \/ /\ status = "running" /\ Step.op = "fix" /\ size' = Append(size, Step.n)
  BY DEF Next, Call, TakeBuffer, WriteFromHost, FixBuffer, RecordInto, Record, RecordAgain, NameTensor,
     RecycleBuffer, Preload, Submit, SubmitOne, Finish, RecordFails, PreloadFails, SubmitFails,
     ReleaseWeights, Over, Unread, Abandon, Discard, Lend, At, memory, vars
<1>2. CASE size' = size  BY <1>2 DEF SInv
<1>3. CASE size' = <<>>  BY <1>3
<1>4. ASSUME NEW n \in Nat, size' = Append(size, n) PROVE \A s \in DOMAIN size' : size'[s] \in Nat
  <2>1. Len(size) \in Nat /\ DOMAIN size = 1 .. Len(size)  BY DEF FInv, Owned
  <2>. QED  BY <1>4, <2>1 DEF SInv
<1>5. CASE status = "running" /\ Step.op \in {"take", "into"} /\ size' = Append(size, Class(Step.n))
  <2>1. Step.n \in Nat  BY <1>5 DEF Follows, Allowed
  <2>2. Class(Step.n) \in Nat  BY <1>5, <2>1, ClassIsNat DEF FInv
  <2>. QED  BY <1>4, <1>5, <2>2
<1>6. CASE status = "running" /\ Step.op = "fix" /\ size' = Append(size, Step.n)
  <2>1. Step.n \in Nat  BY <1>6 DEF Follows, Allowed
  <2>. QED  BY <1>4, <1>6, <2>1
<1>. QED  BY <1>1, <1>2, <1>3, <1>5, <1>6

LEMMA BytesNext == Bytes(pool.free)' = SumOf(size', pool'.free)
BY DEF Bytes, SumOf, MapThenSumSet, MapThenFoldSet

LEMMA FinishSettles ==
  ASSUME FInv, SInv, Finish
  PROVE  pool'.lent = {} /\ pool'.quarantine = {} /\ Bytes(pool.free)' <= policy'.budget
<1>1. policy' = policy /\ policy.budget \in Nat
  <2>1. model' = model  BY DEF Finish
  <2>2. policy \in Pooling  BY PolicyKnown DEF FInv
  <2>. QED  BY <2>1, <2>2 DEF policy, Pooling
<1>2. CASE Discard
  <2>1. pool'.lent = {} /\ pool'.quarantine = {} /\ pool'.free = {}  BY <1>2 DEF Discard
  <2>2. Bytes(pool.free)' = 0
    <3>1. Bytes(pool.free)' = SumOf(size', pool'.free)  BY BytesNext
    <3>. QED  BY <2>1, <3>1, SumStep, FS_EmptySet
  <2>. QED  BY <1>1, <2>1, <2>2
<1>3. CASE Release({}) /\ UNCHANGED <<size, fixed>>
  <2>. DEFINE free == Freed({})
  <2>1. pool' = [free |-> free \ Evicted(free), lent |-> {}, quarantine |-> {}] /\ size' = size
    BY <1>3 DEF Release
  <2>2. free \subseteq 1 .. Len(size) /\ Len(size) \in Nat /\ \A s \in free : size[s] \in Nat
    BY DEF FInv, Owned, SInv, Freed
  <2>. HIDE DEF free
  <2>3. Bytes(free \ Evicted(free)) <= policy.budget  BY <1>1, <2>2, WithinBudget
  <2>4. Bytes(pool.free)' = Bytes(free \ Evicted(free))
    <3>1. Bytes(pool.free)' = SumOf(size', pool'.free)  BY BytesNext
    <3>2. pool'.free = free \ Evicted(free)  BY <2>1
    <3>. QED  BY <2>1, <3>1, <3>2, BytesIsSum
  <2>. QED  BY <1>1, <2>1, <2>3, <2>4
<1>. QED  BY <1>2, <1>3 DEF Finish

LEMMA SInvNext == ASSUME FInv, Follows, SInv, [Next]_vars PROVE SInv'
<1>1. \A s \in DOMAIN size' : size'[s] \in Nat  BY Rooms
<1>2. CASE Finish  BY <1>1, <1>2, FinishSettles DEF SInv
<1>3. CASE status' # "done"  BY <1>1, <1>3 DEF SInv
<1>4. CASE UNCHANGED <<model, status, size, pool>>
  <2>1. Bytes(pool.free)' = Bytes(pool.free) /\ policy' = policy
    BY <1>4, BytesNext, BytesIsSum DEF policy
  <2>. QED  BY <1>1, <1>4, <2>1 DEF SInv
<1>5. Finish \/ status' # "done" \/ UNCHANGED <<model, status, size, pool>>
  BY DEF Next, Call, TakeBuffer, WriteFromHost, FixBuffer, RecordInto, Record, RecordAgain, NameTensor,
     RecycleBuffer, Preload, Submit, SubmitOne, RecordFails, PreloadFails, SubmitFails,
     ReleaseWeights, Over, Unread, Reject, Advance, At, memory, vars
<1>. QED  BY <1>2, <1>3, <1>4, <1>5

(* After a call that resolves nothing is lent and nothing is in            *)
(* quarantine, and what the pool keeps (evictionPlan) fits its budget,     *)
(* whatever sizes the buffers have and in whatever order they came back.   *)
THEOREM PoolSettles == Spec /\ []Follows => []Settled
<1>1. Init => FInv /\ SInv
  <2>1. Init => SInv
    <3>1. Init => size = <<>> /\ status = "idle"  BY DEF Init
    <3>. QED  BY <3>1 DEF SInv
  <2>. QED  BY <2>1, FInvInit
<1>2. FInv /\ Follows /\ SInv /\ [Next]_vars => FInv' /\ SInv'
  BY FInvNext, SInvNext
<1>3. SInv => Settled  BY DEF SInv, Settled
<1>. QED  BY <1>1, <1>2, <1>3, PTL DEF Spec

-----------------------------------------------------------------------------
(* The rules are about the programs alone *)

LEMMA SketchesExist ==
  ASSUME NEW p
  PROVE  \A n \in Nat : \E b : b = [i \in 1 .. n + 1 |-> IF i = 1 THEN Start ELSE After(b[i - 1], p[i - 1], i - 1)]
<1>. DEFINE F(b, n) == [i \in 1 .. n + 1 |-> IF i = 1 THEN Start ELSE After(b[i - 1], p[i - 1], i - 1)]
            S == {n \in Nat : \E b : b = F(b, n)}
<1>1. 0 \in S
  <2>. DEFINE b == [i \in 1 .. 1 |-> Start]
  <2>1. b = F(b, 0)  OBVIOUS
  <2>. QED  BY <2>1
<1>2. ASSUME NEW n \in Nat, n \in S PROVE n + 1 \in S
  <2>1. PICK b : b = F(b, n)  BY <1>2
  <2>. DEFINE c == [i \in 1 .. n + 2 |-> IF i = n + 2 THEN After(b[n + 1], p[n + 1], n + 1) ELSE b[i]]
  <2>2. c = F(c, n + 1)
    <3>1. DOMAIN c = 1 .. (n + 1) + 1 /\ DOMAIN F(c, n + 1) = 1 .. (n + 1) + 1
      OBVIOUS
    <3>2. ASSUME NEW i \in 1 .. (n + 1) + 1 PROVE c[i] = F(c, n + 1)[i]
      <4>1. CASE i = 1
        <5>1. c[1] = b[1] /\ b[1] = Start  BY <2>1
        <5>. QED  BY <4>1, <5>1
      <4>2. CASE i = n + 2
        <5>1. c[i] = After(b[n + 1], p[n + 1], n + 1) /\ c[n + 1] = b[n + 1]  BY <4>2
        <5>2. F(c, n + 1)[i] = After(c[n + 1], p[n + 1], n + 1)  BY <4>2
        <5>. QED  BY <5>1, <5>2
      <4>3. CASE i # 1 /\ i # n + 2
        <5>1. i \in 1 .. n + 1 /\ i - 1 \in 1 .. n + 2 /\ i - 1 # n + 2  BY <4>3
        <5>2. c[i] = b[i] /\ c[i - 1] = b[i - 1]  BY <5>1
        <5>3. b[i] = After(b[i - 1], p[i - 1], i - 1)  BY <2>1, <4>3, <5>1
        <5>4. F(c, n + 1)[i] = After(c[i - 1], p[i - 1], i - 1)  BY <4>3
        <5>. QED  BY <5>2, <5>3, <5>4
      <4>. QED  BY <4>1, <4>2, <4>3
    <3>. QED  BY <3>1, <3>2
  <2>. HIDE DEF F, c
  <2>. QED  BY <2>2
<1>. HIDE DEF F
<1>3. \A n \in Nat : n \in S
  <2>. HIDE DEF S
  <2>. QED  BY <1>1, <1>2, SetInduction
<1>. QED  BY <1>3 DEF F

LEMMA SketchBySteps ==
  ASSUME NEW p, Len(p) \in Nat
  PROVE  /\ Sketches(p)[1] = Start
         /\ \A i \in 1 .. Len(p) : Sketches(p)[i + 1] = After(Sketches(p)[i], p[i], i)
<1>. DEFINE n == Len(p)
            F(b) == [i \in 1 .. n + 1 |-> IF i = 1 THEN Start ELSE After(b[i - 1], p[i - 1], i - 1)]
<1>1. Sketches(p) = CHOOSE b : b = F(b)
  BY DEF Sketches
<1>2. \E b : b = F(b)
  BY SketchesExist
<1>3. Sketches(p) = F(Sketches(p))
  <2>. HIDE DEF F
  <2>. QED  BY <1>1, <1>2
<1>. HIDE DEF n
<1>4. n \in Nat  BY DEF n
<1>5. Sketches(p)[1] = Start
  BY <1>3, <1>4
<1>6. ASSUME NEW i \in 1 .. n PROVE Sketches(p)[i + 1] = After(Sketches(p)[i], p[i], i)
  <2>1. i + 1 \in 1 .. n + 1 /\ i + 1 # 1 /\ (i + 1) - 1 = i  BY <1>4
  <2>2. Sketches(p)[i + 1] = F(Sketches(p))[i + 1]  BY <1>3
  <2>. QED  BY <2>1, <2>2
<1>. QED  BY <1>5, <1>6 DEF n

Orderly == \A m \in Model : \A k \in 1 .. Len(Forward[m]) : Disciplined(Forward[m][k])

(* What is known at the next step depends on the program alone.            *)
Tracked == status = "running" => sketch = Sketches(Program)[at]

LEMMA OrderlyFollows == ASSUME Orderly, Counters, Tracked PROVE Follows
<1>. SUFFICES ASSUME status = "running"
     PROVE  Allowed(sketch.env, Step) /\ (Step.op = "readback" <=> at = Len(Program))
  BY DEF Follows
<1>. DEFINE k == ((calls - 1) % Len(Forward[model])) + 1
<1>1. k \in 1 .. Len(Forward[model])
  <2>1. Len(Forward[model]) \in Nat \ {0}  BY ForwardAssumption DEF Counters
  <2>2. calls - 1 \in Int  BY DEF Counters
  <2>. QED  BY <2>1, <2>2
<1>2. Program = Forward[model][k] /\ model \in Model  BY DEF Program, Counters
<1>. HIDE DEF k
<1>3. Disciplined(Program)  BY <1>1, <1>2 DEF Orderly
<1>4. at \in 1 .. Len(Program)  BY DEF Counters
<1>. QED  BY <1>3, <1>4 DEF Disciplined, Tracked, Step

LEMMA TrackedNext == ASSUME FInv, FInv', Tracked, [Next]_vars PROVE Tracked'
<1>1. CASE status' # "running"  BY <1>1 DEF Tracked
<1>2. CASE Call
  <2>1. at' = 1 /\ sketch' = Start  BY <1>2 DEF Call, FInv, Counters
  <2>2. model' \in Model /\ calls' - 1 \in Int  BY DEF FInv, Counters
  <2>3. /\ Len(Forward[model']) \in Nat \ {0}
        /\ \A k \in 1 .. Len(Forward[model']) : Len(Forward[model'][k]) \in Nat \ {0}
    BY <2>2, ForwardAssumption
  <2>4. Len(Program') \in Nat
    <3>1. ((calls' - 1) % Len(Forward[model'])) + 1 \in 1 .. Len(Forward[model'])
      BY <2>2, <2>3
    <3>. QED  BY <2>3, <3>1 DEF Program
  <2>5. Sketches(Program')[1] = Start  BY <2>4, SketchBySteps
  <2>. QED  BY <2>1, <2>5 DEF Tracked
<1>3. CASE Advance /\ status = "running"
  <2>1. /\ Program' = Program /\ at' = at + 1 /\ status' = "running"
        /\ sketch' = After(sketch, Program[at], at)
    BY <1>3 DEF Advance, Program, Step
  <2>2. at \in 1 .. Len(Program) /\ Len(Program) \in Nat
    BY <1>3, ProgramLength DEF FInv, Counters
  <2>3. Sketches(Program)[at + 1] = After(Sketches(Program)[at], Program[at], at)
    BY <2>2, SketchBySteps
  <2>. QED  BY <1>3, <2>1, <2>3 DEF Tracked
<1>4. CASE UNCHANGED <<model, calls, at, status, sketch>>
  BY <1>4 DEF Tracked, Program
<1>5. ASSUME Next, ~ Call PROVE \/ Advance /\ status = "running"
                                \/ status' # "running" \/ UNCHANGED <<model, calls, at, status, sketch>>
  BY <1>5 DEF Next, TakeBuffer, WriteFromHost, FixBuffer, RecordInto, Record, RecordAgain, NameTensor,
     RecycleBuffer, Preload, Submit, SubmitOne, Finish, RecordFails, PreloadFails, SubmitFails,
     ReleaseWeights, Over, Unread, Reject, At, vars
<1>6. CASE UNCHANGED vars  BY <1>4, <1>6 DEF vars
<1>. QED  BY <1>1, <1>2, <1>3, <1>4, <1>5, <1>6

(* The rules are about the programs alone: if each program follows them,   *)
(* so does every behaviour, whatever fails and whatever shape comes next.  *)
THEOREM RulesSuffice == ASSUME Orderly PROVE Spec => []Follows
<1>1. Init => FInv /\ Tracked
  BY FInvInit DEF Init, Tracked
<1>2. FInv /\ Tracked => Follows
  BY OrderlyFollows DEF FInv
<1>3. FInv /\ Tracked /\ [Next]_vars => FInv' /\ Tracked'
  BY <1>2, FInvNext, TrackedNext
<1>. QED  BY <1>1, <1>2, <1>3, PTL DEF Spec
=============================================================================
