---------------------------- MODULE ReplayProofs ----------------------------
(***************************************************************************)
(* What the recorded work reads when it runs.  ForwardProofs shows that a  *)
(* forward owns the buffers it names; here, that whatever order the        *)
(* buffers were reused, rewritten and uploaded in, each dispatch finds in  *)
(* them what it was recorded to read, and all of it.                       *)
(***************************************************************************)
EXTENDS ForwardProofs

(* The invariant *)

(* The device holds the tensor t, in this version.                         *)
Matches(d, t) == d[t.slot].of = t.of /\ d[t.slot].version = t.version

(* The work o before its i-th piece writes to the buffer of t nothing but  *)
(* t, and nothing later than t.                                            *)
Precedes(o, i, t) ==
  \A k \in 1 .. i - 1 : o[k].slot = t.slot => o[k].of = t.of /\ o[k].version <= t.version

(* Piece k writes the tensor t.                                            *)
Writes(o, k, t) == o[k].slot = t.slot /\ o[k].version = t.version

Found(o, d, i, t) == Matches(d, t) \/ \E k \in 1 .. i - 1 : Writes(o, k, t)

Covered(o, d, i, t, e) ==
  \/ Matches(d, t) /\ e \in d[t.slot].part
  \/ \E k \in 1 .. i - 1 : Writes(o, k, t) /\ e \in o[k].part

Older(p, q) == p[1] < q[1] \/ (p[1] = q[1] /\ p[2] < q[2])

Horizon == IF status = "running" THEN <<calls, at>> ELSE <<calls + 1, 0>>

Dated(p, h) == p \in Nat \X Nat /\ Older(p, h)

DeviceDated == \A s \in DOMAIN device : Dated(device[s].of, Horizon) /\ device[s].version \in Nat

FixedWhole ==
  \A x \in DOMAIN tensor :
    tensor[x].slot \in fixed =>
      Matches(device, tensor[x]) /\ Elements(tensor[x].n) \subseteq device[tensor[x].slot].part

Ordered ==
  /\ \A i \in 1 .. Len(ops) :
       /\ Dated(ops[i].of, Horizon)
       /\ device[ops[i].slot].of = ops[i].of => device[ops[i].slot].version <= ops[i].version
  /\ \A i, j \in 1 .. Len(ops) :
       i < j /\ ops[i].slot = ops[j].slot => ops[i].version <= ops[j].version

(* What a piece of work was recorded to read is there when it runs, and    *)
(* is no later than what the variables of its buffer stand for.            *)
Heard ==
  \A i \in 1 .. Len(ops) : \A t \in ops[i].reads :
    /\ Precedes(ops, i, t) /\ Found(ops, device, i, t)
    /\ \A e \in Elements(t.n) : Covered(ops, device, i, t, e)
    /\ \A x \in DOMAIN Env :
         Env[x].made # 0 /\ tensor[x].slot = t.slot => t.of = tensor[x].of /\ t.version <= tensor[x].version

(* What a variable stands for will be there when the recorded work has run. *)
Current(x) ==
  LET t == tensor[x]
      end == Len(ops) + 1
  IN /\ Precedes(ops, end, t)
     /\ device[t.slot].of = t.of => device[t.slot].version <= t.version
     /\ Env[x].written => Found(ops, device, end, t)
     /\ \A e \in Env[x].part : Covered(ops, device, end, t, e)

AllCurrent == \A x \in DOMAIN Env : Env[x].made # 0 => Current(x)

CInv ==
  /\ DeviceDated /\ FixedWhole
  /\ status = "running" => Ordered /\ Heard /\ AllCurrent

-----------------------------------------------------------------------------
(* The device as the recorded work runs *)

(* What buffer s holds when the pieces before i have run: c.               *)
Result(c, i, s) ==
  /\ (\A k \in 1 .. i - 1 : ops[k].slot # s) => c = device[s]
  /\ \A k \in 1 .. i - 1 :
       ops[k].slot = s =>
         /\ c.of = ops[k].of /\ ops[k].version <= c.version
         /\ ops[k].version = c.version => ops[k].part \subseteq c.part
  /\ (\E k \in 1 .. i - 1 : ops[k].slot = s) =>
       \E k \in 1 .. i - 1 : ops[k].slot = s /\ ops[k].version = c.version
  /\ device[s].of = c.of /\ device[s].version = c.version => device[s].part \subseteq c.part

LEMMA ResultNext ==
  ASSUME Recorded, Ordered, DeviceDated, NEW i \in 1 .. Len(ops), NEW s \in DOMAIN device,
         NEW b, DOMAIN b = DOMAIN device, Result(b[s], i, s)
  PROVE  Result(Applied(b, ops[i])[s], i + 1, s)
<1>. DEFINE op == ops[i]
            had == b[s]
            now == Applied(b, op)[s]
<1>1. Len(ops) \in Nat /\ (i + 1) - 1 = i /\ i \in Nat
  BY DEF Recorded
<1>2. \A k \in 1 .. i : k \in 1 .. i - 1 \/ k = i
  BY <1>1
<1>3. \A k \in 1 .. i : k \in 1 .. Len(ops) /\ ops[k].version \in Nat
  BY <1>1 DEF Recorded
<1>4. \A k \in 1 .. i - 1 : k \in 1 .. i
  BY <1>1
<1>5. CASE op.slot # s
  <2>1. now = had
    BY <1>5 DEF Applied
  <2>2. /\ (\A k \in 1 .. i : ops[k].slot # s) => now = device[s]
        /\ \A k \in 1 .. i :
             ops[k].slot = s =>
               /\ now.of = ops[k].of /\ ops[k].version <= now.version
               /\ ops[k].version = now.version => ops[k].part \subseteq now.part
        /\ (\E k \in 1 .. i : ops[k].slot = s) =>
             \E k \in 1 .. i : ops[k].slot = s /\ ops[k].version = now.version
        /\ device[s].of = now.of /\ device[s].version = now.version => device[s].part \subseteq now.part
    BY <1>2, <1>4, <1>5, <2>1 DEF Result
  <2>. QED  BY <1>1, <2>2 DEF Result
<1>6. CASE op.slot = s
  <2>1. /\ now.of = op.of /\ now.version = op.version
        /\ had.of = op.of /\ had.version = op.version => now.part = had.part \cup op.part
        /\ ~ (had.of = op.of /\ had.version = op.version) => now.part = op.part
    BY <1>6 DEF Applied
  <2>2. \A k \in 1 .. i - 1 : ops[k].slot = s => ops[k].of = op.of /\ ops[k].version <= op.version
    <3>1. \A k \in 1 .. i - 1 : k < i  BY <1>1
    <3>. QED  BY <1>3, <1>4, <1>6, <3>1 DEF Recorded, Ordered
  <2>3. ASSUME NEW k \in 1 .. i - 1, ops[k].slot = s, ops[k].version = op.version
        PROVE  had.of = op.of /\ had.version = op.version
    <3>1. PICK j \in 1 .. i - 1 : ops[j].slot = s /\ ops[j].version = had.version
      BY <2>3 DEF Result
    <3>2. ops[k].version <= had.version /\ had.of = ops[k].of
      BY <2>3 DEF Result
    <3>3. had.version <= op.version /\ had.version \in Nat /\ op.version \in Nat
      BY <1>1, <1>3, <1>4, <2>2, <3>1
    <3>. QED  BY <2>2, <2>3, <3>2, <3>3
  <2>4. ASSUME device[s].of = op.of, device[s].version = op.version
        PROVE  had.of = op.of /\ had.version = op.version
    <3>1. CASE \A k \in 1 .. i - 1 : ops[k].slot # s
      BY <2>4, <3>1 DEF Result
    <3>2. CASE \E k \in 1 .. i - 1 : ops[k].slot = s
      <4>1. PICK k \in 1 .. i - 1 : ops[k].slot = s  BY <3>2
      <4>2. ops[k].of = op.of /\ ops[k].version <= op.version /\ ops[k].version \in Nat /\ op.version \in Nat
        BY <1>1, <1>3, <1>4, <2>2, <4>1
      <4>3. op.version <= ops[k].version
        BY <1>3, <1>4, <2>4, <4>1, <4>2 DEF Ordered
      <4>. QED  BY <2>3, <4>1, <4>2, <4>3
    <3>. QED  BY <3>1, <3>2
  <2>5. \A k \in 1 .. i :
          ops[k].slot = s =>
            /\ now.of = ops[k].of /\ ops[k].version <= now.version
            /\ ops[k].version = now.version => ops[k].part \subseteq now.part
    <3>. SUFFICES ASSUME NEW k \in 1 .. i, ops[k].slot = s
                  PROVE  /\ now.of = ops[k].of /\ ops[k].version <= now.version
                         /\ ops[k].version = now.version => ops[k].part \subseteq now.part
      OBVIOUS
    <3>. HIDE DEF now
    <3>1. CASE k = i
      <4>1. op.version \in Nat  BY <1>1, <1>3
      <4>. QED  BY <2>1, <3>1, <4>1
    <3>2. CASE k \in 1 .. i - 1
      <4>1. now.of = ops[k].of /\ ops[k].version <= now.version
        BY <2>1, <2>2, <3>2
      <4>2. ASSUME ops[k].version = now.version PROVE ops[k].part \subseteq now.part
        <5>1. had.of = op.of /\ had.version = op.version  BY <2>1, <2>3, <3>2, <4>2
        <5>2. ops[k].part \subseteq had.part  BY <2>1, <3>2, <4>2, <5>1 DEF Result
        <5>. QED  BY <2>1, <5>1, <5>2
      <4>. QED  BY <4>1, <4>2
    <3>. QED  BY <1>2, <3>1, <3>2
  <2>6. device[s].of = now.of /\ device[s].version = now.version => device[s].part \subseteq now.part
    <3>. SUFFICES ASSUME device[s].of = op.of, device[s].version = op.version
                  PROVE  device[s].part \subseteq now.part
      BY <2>1
    <3>1. had.of = op.of /\ had.version = op.version  BY <2>4
    <3>2. device[s].part \subseteq had.part  BY <3>1 DEF Result
    <3>. QED  BY <2>1, <3>1, <3>2
  <2>7. \E k \in 1 .. i : ops[k].slot = s /\ ops[k].version = now.version
    BY <1>1, <1>6, <2>1
  <2>8. ~ (\A k \in 1 .. i : ops[k].slot # s)
    BY <1>1, <1>6
  <2>. QED  BY <1>1, <2>5, <2>6, <2>7, <2>8 DEF Result
<1>. QED  BY <1>5, <1>6

LEMMA ResultAlways ==
  ASSUME Owned, Recorded, Ordered, DeviceDated
  PROVE  \A i \in 1 .. Len(ops) + 1 : \A s \in DOMAIN device : Result(Before[i][s], i, s)
<1>. DEFINE S == {n \in Nat : n <= Len(ops) =>
                    /\ DOMAIN Before[n + 1] = DOMAIN device
                    /\ \A s \in DOMAIN device : Result(Before[n + 1][s], n + 1, s)}
<1>1. Len(ops) \in Nat
  BY DEF Recorded
<1>2. 0 \in S
  <2>1. Before[1] = device  BY <1>1, Replay
  <2>2. \A k \in 1 .. (0 + 1) - 1 : FALSE  OBVIOUS
  <2>. QED  BY <2>1, <2>2 DEF Result
<1>3. ASSUME NEW n \in Nat, n \in S PROVE n + 1 \in S
  <2>. SUFFICES ASSUME n + 1 <= Len(ops)
                PROVE  /\ DOMAIN Before[(n + 1) + 1] = DOMAIN device
                       /\ \A s \in DOMAIN device : Result(Before[(n + 1) + 1][s], (n + 1) + 1, s)
    OBVIOUS
  <2>1. n + 1 \in 1 .. Len(ops)  BY <1>1
  <2>2. Before[(n + 1) + 1] = Applied(Before[n + 1], ops[n + 1])
    BY <1>1, <2>1, Replay
  <2>3. DOMAIN Before[n + 1] = DOMAIN device /\ \A s \in DOMAIN device : Result(Before[n + 1][s], n + 1, s)
    BY <1>1, <1>3
  <2>4. DOMAIN Before[(n + 1) + 1] = DOMAIN device
    BY <2>2, <2>3 DEF Applied
  <2>. QED  BY <2>1, <2>2, <2>3, <2>4, ResultNext
<1>4. \A n \in Nat : n \in S
  <2>. HIDE DEF S
  <2>. QED  BY <1>2, <1>3, SetInduction
<1>5. \A i \in 1 .. Len(ops) + 1 : i - 1 \in Nat /\ i - 1 <= Len(ops) /\ (i - 1) + 1 = i
  BY <1>1
<1>. QED  BY <1>4, <1>5

LEMMA FoundThere ==
  ASSUME Owned, Recorded, Ordered, DeviceDated, NEW i \in 1 .. Len(ops) + 1,
         NEW t \in Tensor, t.slot \in DOMAIN device,
         Precedes(ops, i, t), Found(ops, device, i, t)
  PROVE  Matches(Before[i], t)
<1>. DEFINE s == t.slot
            c == Before[i][s]
<1>1. Result(c, i, s)
  BY ResultAlways
<1>2. \A k \in 1 .. i - 1 : k \in 1 .. Len(ops) /\ ops[k].version \in Nat
  BY DEF Recorded
<1>3. t.version \in Nat
  BY DEF Tensor
<1>. HIDE DEF c
<1>4. CASE \A k \in 1 .. i - 1 : ops[k].slot # s
  <2>1. c = device[s]  BY <1>1, <1>4 DEF Result
  <2>2. Matches(device, t)  BY <1>4 DEF Found, Writes
  <2>. QED  BY <2>1, <2>2 DEF Matches, c
<1>5. CASE \E k \in 1 .. i - 1 : ops[k].slot = s
  <2>1. PICK j \in 1 .. i - 1 : ops[j].slot = s /\ ops[j].version = c.version
    BY <1>1, <1>5 DEF Result
  <2>2. c.of = ops[j].of /\ ops[j].of = t.of /\ c.version <= t.version /\ c.version \in Nat
    BY <1>1, <1>2, <2>1 DEF Result, Precedes
  <2>3. t.version <= c.version
    <3>1. CASE \E k \in 1 .. i - 1 : Writes(ops, k, t)
      <4>1. PICK k \in 1 .. i - 1 : Writes(ops, k, t)  BY <3>1
      <4>. QED  BY <1>1, <4>1 DEF Writes, Result
    <3>2. CASE Matches(device, t)
      <4>1. device[s].of = ops[j].of /\ device[s].version = t.version  BY <2>2, <3>2 DEF Matches
      <4>. QED  BY <1>2, <2>1, <4>1 DEF Ordered
    <3>. QED  BY <3>1, <3>2 DEF Found
  <2>4. c.version = t.version
    BY <1>3, <2>2, <2>3
  <2>. QED  BY <2>2, <2>4 DEF Matches, c
<1>. QED  BY <1>4, <1>5

LEMMA CoveredThere ==
  ASSUME Owned, Recorded, Ordered, DeviceDated, NEW i \in 1 .. Len(ops) + 1,
         NEW t \in Tensor, t.slot \in DOMAIN device,
         Precedes(ops, i, t), NEW e, Covered(ops, device, i, t, e)
  PROVE  Matches(Before[i], t) /\ e \in Before[i][t.slot].part
<1>. DEFINE s == t.slot
            c == Before[i][s]
<1>1. Result(c, i, s)
  BY ResultAlways
<1>2. Matches(Before[i], t)
  <2>1. Found(ops, device, i, t)  BY DEF Covered, Found
  <2>. QED  BY <2>1, FoundThere
<1>3. c.of = t.of /\ c.version = t.version
  BY <1>2 DEF Matches
<1>. HIDE DEF c
<1>4. CASE Matches(device, t) /\ e \in device[s].part
  <2>1. device[s].part \subseteq c.part  BY <1>1, <1>3, <1>4 DEF Result, Matches
  <2>. QED  BY <1>2, <1>4, <2>1 DEF c
<1>5. CASE \E k \in 1 .. i - 1 : Writes(ops, k, t) /\ e \in ops[k].part
  <2>1. PICK k \in 1 .. i - 1 : Writes(ops, k, t) /\ e \in ops[k].part  BY <1>5
  <2>2. ops[k].part \subseteq c.part  BY <1>1, <1>3, <2>1 DEF Result, Writes
  <2>. QED  BY <1>2, <2>1, <2>2 DEF c
<1>. QED  BY <1>4, <1>5 DEF Covered

(* A buffer nothing is recorded to write stays as it is.                   *)
LEMMA UntouchedThere ==
  ASSUME Owned, Recorded, Ordered, DeviceDated, NEW s \in DOMAIN device,
         \A k \in 1 .. Len(ops) : ops[k].slot # s
  PROVE  Submitted[s] = device[s]
<1>1. Len(ops) \in Nat  BY DEF Recorded
<1>2. Len(ops) + 1 \in 1 .. Len(ops) + 1 /\ (Len(ops) + 1) - 1 = Len(ops)  BY <1>1
<1>3. Result(Before[Len(ops) + 1][s], Len(ops) + 1, s)  BY <1>2, ResultAlways
<1>. QED  BY <1>2, <1>3 DEF Result, Submitted

LEMMA NotFixed ==
  ASSUME Owned, Recorded, NEW k \in 1 .. Len(ops)
  PROVE  ops[k].slot \notin fixed /\ ops[k].slot \in DOMAIN device
BY DEF Owned, Recorded

(* A variable that may be read will be there, whole, when the recorded     *)
(* work has run.                                                           *)
LEMMA ReadableThere ==
  ASSUME Owned, Named, Sketched, Recorded, FixedWhole, AllCurrent, NEW x, Readable(Env, x)
  PROVE  /\ tensor[x] \in Tensor /\ tensor[x].slot \in DOMAIN device
         /\ tensor[x].slot \in pool.lent \cup fixed
         /\ Precedes(ops, Len(ops) + 1, tensor[x])
         /\ Found(ops, device, Len(ops) + 1, tensor[x])
         /\ \A e \in Elements(tensor[x].n) : Covered(ops, device, Len(ops) + 1, tensor[x], e)
<1>. DEFINE t == tensor[x]
            end == Len(ops) + 1
<1>1. x \in DOMAIN Env /\ x \in DOMAIN tensor /\ t \in Tensor /\ t.slot \in DOMAIN device
  BY DEF Readable, Sketched, Named, Owned
<1>2. end - 1 = Len(ops)
  BY DEF Recorded
<1>3. CASE Env[x].made = 0
  <2>1. t.slot \in fixed  BY <1>1, <1>3 DEF Sketched
  <2>2. Matches(device, t) /\ Elements(t.n) \subseteq device[t.slot].part
    BY <1>1, <2>1 DEF FixedWhole
  <2>3. \A k \in 1 .. Len(ops) : ops[k].slot # t.slot
    BY <2>1, NotFixed
  <2>4. Precedes(ops, end, t)
    BY <1>2, <2>3 DEF Precedes
  <2>. HIDE DEF t, end
  <2>5. Found(ops, device, end, t) /\ \A e \in Elements(t.n) : Covered(ops, device, end, t, e)
    BY <2>2 DEF Found, Covered
  <2>. QED  BY <1>1, <2>1, <2>4, <2>5 DEF t, end
<1>4. CASE Env[x].made # 0
  <2>1. Env[x].written /\ Elements(Env[x].n) \subseteq Env[x].part
    BY <1>4 DEF Readable
  <2>2. Current(x)
    BY <1>1, <1>4 DEF AllCurrent
  <2>3. t.n = Env[x].n /\ t.slot \in pool.lent
    BY <1>1, <1>4 DEF Sketched, Agrees
  <2>. QED  BY <1>1, <2>1, <2>2, <2>3 DEF Current
<1>. QED  BY <1>3, <1>4

LEMMA ReadsRight ==
  ASSUME FInv, CInv, Follows, status = "running"
  PROVE  /\ \A i \in 1 .. Len(ops) : \A t \in ops[i].reads :
              Matches(Before[i], t) /\ Elements(t.n) \subseteq Before[i][t.slot].part
         /\ \A x : Readable(Env, x) =>
              /\ Matches(Before[Len(ops) + 1], tensor[x])
              /\ Elements(tensor[x].n) \subseteq Before[Len(ops) + 1][tensor[x].slot].part
<1>1. Owned /\ Named /\ Sketched /\ Recorded /\ DeviceDated /\ FixedWhole /\ Ordered /\ Heard /\ AllCurrent
  BY DEF FInv, CInv
<1>2. Len(ops) + 1 \in 1 .. Len(ops) + 1 /\ \A i \in 1 .. Len(ops) : i \in 1 .. Len(ops) + 1
  BY <1>1 DEF Recorded
<1>3. ASSUME NEW i \in 1 .. Len(ops), NEW t \in ops[i].reads
      PROVE  Matches(Before[i], t) /\ Elements(t.n) \subseteq Before[i][t.slot].part
  <2>1. t \in Tensor /\ t.slot \in DOMAIN device
    BY <1>1 DEF Recorded, Owned
  <2>2. /\ Precedes(ops, i, t) /\ Found(ops, device, i, t)
        /\ \A e \in Elements(t.n) : Covered(ops, device, i, t, e)
    BY <1>1 DEF Heard
  <2>. QED  BY <1>1, <1>2, <2>1, <2>2, FoundThere, CoveredThere
<1>4. ASSUME NEW x, Readable(Env, x)
      PROVE  /\ Matches(Before[Len(ops) + 1], tensor[x])
             /\ Elements(tensor[x].n) \subseteq Before[Len(ops) + 1][tensor[x].slot].part
  <2>. DEFINE t == tensor[x]
              end == Len(ops) + 1
  <2>1. /\ t \in Tensor /\ t.slot \in DOMAIN device
        /\ Precedes(ops, end, t) /\ Found(ops, device, end, t)
        /\ \A e \in Elements(t.n) : Covered(ops, device, end, t, e)
    BY <1>1, <1>4, ReadableThere
  <2>2. end \in 1 .. Len(ops) + 1  BY <1>2
  <2>3. Matches(Before[end], t)
    <3>. HIDE DEF t, end
    <3>. QED  BY <1>1, <2>1, <2>2, FoundThere
  <2>4. \A e \in Elements(t.n) : e \in Before[end][t.slot].part
    <3>. HIDE DEF t, end
    <3>. QED  BY <1>1, <2>1, <2>2, CoveredThere
  <2>. QED  BY <2>3, <2>4
<1>. QED  BY <1>3, <1>4

-----------------------------------------------------------------------------
(* Steps *)

Later ==
  \/ status = "running" /\ status' = "running" /\ calls' = calls /\ at' = at + 1
  \/ status' # "running" /\ calls' = calls
  \/ status # "running" /\ calls' = calls + 1
  \/ status' = status /\ calls' = calls /\ at' = at

LEMMA Aging ==
  ASSUME Counters, Counters', Later, NEW p, Dated(p, Horizon) PROVE Dated(p, Horizon')
BY DEF Counters, Later, Dated, Older, Horizon

(* A step that records nothing and leaves the buffers in use as they are.  *)
(* A variable of the next state is one of this state, or stands for a      *)
(* buffer taken just now.                                                  *)
Untouched(x) ==
  \/ \E y \in DOMAIN Env : Env'[x] = Env[y] /\ tensor'[x] = tensor[y]
  \/ /\ tensor'[x].slot \notin pool.lent \cup pool.quarantine \cup fixed
     /\ device'[tensor'[x].slot].of # tensor'[x].of
     /\ ~ Env'[x].written /\ Env'[x].part = {}

LEMMA OpSlots ==
  ASSUME Owned, Recorded
  PROVE  /\ \A i \in 1 .. Len(ops) : ops[i].slot \in DOMAIN device
         /\ \A i \in 1 .. Len(ops) : \A t \in ops[i].reads : t.slot \in DOMAIN device
BY DEF Owned, Recorded

LEMMA ContentStays ==
  ASSUME Counters, Counters', Later, Owned, Named, Sketched, Recorded, Ordered, Heard, AllCurrent,
         ops' = ops, \A s \in DOMAIN device : device'[s] = device[s],
         \A x \in DOMAIN Env' : Env'[x].made # 0 => Untouched(x)
  PROVE  Ordered' /\ Heard' /\ AllCurrent'
<1>. DEFINE end == Len(ops) + 1
<1>1. \A i \in 1 .. Len(ops) : ops[i].slot \in DOMAIN device /\ \A t \in ops[i].reads : t.slot \in DOMAIN device
  BY OpSlots
<1>2. \A t : t.slot \in DOMAIN device => (Matches(device', t) <=> Matches(device, t)) /\ device'[t.slot] = device[t.slot]
  BY DEF Matches
<1>3. Ordered'
  BY <1>1, Aging DEF Ordered
<1>4. ASSUME NEW i \in Nat, NEW t, t.slot \in DOMAIN device
      PROVE  /\ Found(ops, device, i, t) => Found(ops, device', i, t)
             /\ \A e : Covered(ops, device, i, t, e) => Covered(ops, device', i, t, e)
  BY <1>2, <1>4 DEF Found, Covered
<1>5. ASSUME NEW x \in DOMAIN Env', Env'[x].made # 0,
             NEW y \in DOMAIN Env, Env'[x] = Env[y], tensor'[x] = tensor[y]
      PROVE  Current(x)'
  <2>. DEFINE t == tensor[y]
  <2>1. Current(y) /\ t.slot \in DOMAIN device
    BY <1>5 DEF AllCurrent, Sketched, Agrees, Owned
  <2>2. device'[t.slot] = device[t.slot] /\ end \in Nat
    BY <2>1 DEF Recorded
  <2>3. /\ Precedes(ops, end, t)
        /\ device[t.slot].of = t.of => device[t.slot].version <= t.version
        /\ Env[y].written => Found(ops, device, end, t)
        /\ \A e \in Env[y].part : Covered(ops, device, end, t, e)
    BY <2>1 DEF Current
  <2>. HIDE DEF t, end
  <2>4. /\ Env[y].written => Found(ops, device', end, t)
        /\ \A e \in Env[y].part : Covered(ops, device', end, t, e)
    BY <1>4, <2>1, <2>2, <2>3
  <2>5. tensor'[x] = t /\ Len(ops') + 1 = end
    BY <1>5 DEF t, end
  <2>. QED  BY <1>5, <2>2, <2>3, <2>4, <2>5 DEF Current
<1>6. ASSUME NEW x \in DOMAIN Env',
             tensor'[x].slot \notin pool.lent \cup pool.quarantine \cup fixed,
             device'[tensor'[x].slot].of # tensor'[x].of,
             ~ Env'[x].written, Env'[x].part = {}
      PROVE  Current(x)'
  <2>1. \A k \in 1 .. Len(ops) : ops[k].slot # tensor'[x].slot
    BY <1>6 DEF Recorded
  <2>2. (Len(ops) + 1) - 1 = Len(ops)
    BY DEF Recorded
  <2>3. Precedes(ops, Len(ops) + 1, tensor'[x])
    BY <2>1, <2>2 DEF Precedes
  <2>. QED  BY <1>6, <2>3 DEF Current
<1>7. AllCurrent'
  BY <1>5, <1>6 DEF AllCurrent, Untouched
<1>8. ASSUME NEW i \in 1 .. Len(ops), NEW t \in ops[i].reads
      PROVE  /\ Precedes(ops, i, t) /\ Found(ops, device', i, t)
             /\ \A e \in Elements(t.n) : Covered(ops, device', i, t, e)
             /\ \A x \in DOMAIN Env' :
                  Env'[x].made # 0 /\ tensor'[x].slot = t.slot => t.of = tensor'[x].of /\ t.version <= tensor'[x].version
  <2>1. t.slot \in DOMAIN device /\ i \in Nat /\ t.slot \in pool.lent \cup pool.quarantine \cup fixed
    BY <1>1 DEF Recorded
  <2>2. /\ Precedes(ops, i, t) /\ Found(ops, device, i, t)
        /\ \A e \in Elements(t.n) : Covered(ops, device, i, t, e)
        /\ \A x \in DOMAIN Env :
             Env[x].made # 0 /\ tensor[x].slot = t.slot => t.of = tensor[x].of /\ t.version <= tensor[x].version
    BY DEF Heard
  <2>3. Found(ops, device', i, t) /\ \A e \in Elements(t.n) : Covered(ops, device', i, t, e)
    BY <1>4, <2>1, <2>2
  <2>4. ASSUME NEW x \in DOMAIN Env', Env'[x].made # 0, tensor'[x].slot = t.slot
        PROVE  t.of = tensor'[x].of /\ t.version <= tensor'[x].version
    <3>1. PICK y \in DOMAIN Env : Env'[x] = Env[y] /\ tensor'[x] = tensor[y]
      BY <2>1, <2>4 DEF Untouched
    <3>. QED  BY <2>2, <2>4, <3>1
  <2>. QED  BY <2>2, <2>3, <2>4
<1>9. Heard'
  BY <1>8 DEF Heard
<1>. QED  BY <1>3, <1>7, <1>9

(* A step that records the piece op, whose inputs may be read.  A variable *)
(* of the next state is one of this state in another buffer, or stands for *)
(* what op writes.                                                         *)
Written(x, op) ==
  \/ \E y \in DOMAIN Env : Env'[x] = Env[y] /\ tensor'[x] = tensor[y] /\ tensor[y].slot # op.slot
  \/ /\ tensor'[x].slot = op.slot /\ tensor'[x].of = op.of /\ tensor'[x].version = op.version
     /\ \A e \in Env'[x].part :
          e \in op.part \/ (op.slot \in DOMAIN device /\ Covered(ops, device, Len(ops) + 1, tensor'[x], e))

LEMMA ContentGrows ==
  ASSUME Counters, Counters', Later, Owned, Named, Sketched, Recorded,
         Ordered, Heard, AllCurrent, FixedWhole,
         \A s \in DOMAIN device : device'[s] = device[s],
         NEW op, ops' = Append(ops, op), NEW S, op.reads = Reads(S), \A x \in S : Readable(Env, x),
         op.version \in Nat, Dated(op.of, Horizon'),
         device'[op.slot].of = op.of => device'[op.slot].version <= op.version,
         \A i \in 1 .. Len(ops) : ops[i].slot = op.slot => ops[i].of = op.of /\ ops[i].version <= op.version,
         \A i \in 1 .. Len(ops) + 1 : \A t \in ops'[i].reads :
           t.slot = op.slot => t.of = op.of /\ t.version <= op.version,
         \A x \in DOMAIN Env' : Env'[x].made # 0 => Written(x, op),
         \A x \in S : \A y \in DOMAIN Env :
           Env[y].made # 0 /\ tensor[x].slot = tensor[y].slot => tensor[x] = tensor[y]
  PROVE  Ordered' /\ Heard' /\ AllCurrent'
<1>. DEFINE end == Len(ops) + 1
<1>1. /\ Len(ops') = end /\ ops'[end] = op /\ \A i \in 1 .. Len(ops) : ops'[i] = ops[i]
      /\ Len(ops) \in Nat /\ end \in Nat /\ end - 1 = Len(ops) /\ (end + 1) - 1 = end
  BY DEF Recorded
<1>2. \A i \in 1 .. end : i \in 1 .. Len(ops) \/ i = end
  BY <1>1
<1>3. /\ \A i \in 1 .. Len(ops) : ops[i].slot \in DOMAIN device /\ \A t \in ops[i].reads : t.slot \in DOMAIN device
      /\ \A i \in 1 .. Len(ops) : i \in 1 .. end
  BY <1>1, OpSlots
<1>4. \A t : t.slot \in DOMAIN device => (Matches(device', t) <=> Matches(device, t)) /\ device'[t.slot] = device[t.slot]
  BY DEF Matches
<1>5. Ordered'
  <2>1. ASSUME NEW i \in 1 .. end
        PROVE  /\ Dated(ops'[i].of, Horizon')
               /\ device'[ops'[i].slot].of = ops'[i].of => device'[ops'[i].slot].version <= ops'[i].version
    <3>1. CASE i = end  BY <1>1, <3>1
    <3>2. CASE i \in 1 .. Len(ops)  BY <1>1, <1>3, <3>2, Aging DEF Ordered
    <3>. QED  BY <1>2, <3>1, <3>2
  <2>2. ASSUME NEW i \in 1 .. end, NEW j \in 1 .. end, i < j, ops'[i].slot = ops'[j].slot
        PROVE  ops'[i].version <= ops'[j].version
    <3>1. i \in 1 .. Len(ops)  BY <1>1, <2>2
    <3>2. CASE j = end  BY <1>1, <2>2, <3>1, <3>2
    <3>3. CASE j \in 1 .. Len(ops)  BY <1>1, <2>2, <3>1, <3>3 DEF Ordered
    <3>. QED  BY <1>2, <3>2, <3>3
  <2>. QED  BY <1>1, <2>1, <2>2 DEF Ordered
<1>. HIDE DEF end
(* Up to the end of the work so far nothing has changed.                   *)
<1>6. ASSUME NEW i \in 1 .. end, NEW t, t.slot \in DOMAIN device
      PROVE  /\ Precedes(ops', i, t) <=> Precedes(ops, i, t)
             /\ Found(ops, device, i, t) => Found(ops', device', i, t)
             /\ \A e : Covered(ops, device, i, t, e) => Covered(ops', device', i, t, e)
  <2>1. \A k \in 1 .. i - 1 : k \in 1 .. Len(ops) /\ ops'[k] = ops[k]
    <3>1. i \in Nat /\ i <= Len(ops) + 1  BY <1>1 DEF end
    <3>. QED  BY <1>1, <3>1
  <2>2. Precedes(ops', i, t) <=> Precedes(ops, i, t)
    BY <2>1 DEF Precedes
  <2>3. Found(ops, device, i, t) => Found(ops', device', i, t)
    BY <1>4, <1>6, <2>1 DEF Found, Writes
  <2>4. \A e : Covered(ops, device, i, t, e) => Covered(ops', device', i, t, e)
    BY <1>4, <1>6, <2>1 DEF Covered, Writes
  <2>. QED  BY <2>2, <2>3, <2>4
<1>7. /\ end \in 1 .. end /\ \A k \in 1 .. end - 1 : k \in 1 .. end /\ k \in 1 .. Len(ops) /\ ops'[k] = ops[k]
      /\ \A k \in 1 .. end : k \in 1 .. end - 1 \/ k = end
  BY <1>1 DEF end
<1>8. ASSUME NEW x \in DOMAIN Env', Env'[x].made # 0, NEW y \in DOMAIN Env,
             Env'[x] = Env[y], tensor'[x] = tensor[y], tensor[y].slot # op.slot
      PROVE  Current(x)'
  <2>. DEFINE t == tensor[y]
  <2>1. Current(y) /\ t.slot \in DOMAIN device
    BY <1>8 DEF AllCurrent, Sketched, Agrees, Owned
  <2>2. /\ Precedes(ops, end, t)
        /\ device[t.slot].of = t.of => device[t.slot].version <= t.version
        /\ Env[y].written => Found(ops, device, end, t)
        /\ \A e \in Env[y].part : Covered(ops, device, end, t, e)
    BY <2>1 DEF Current, end
  <2>3. t.slot # op.slot /\ tensor'[x] = t  BY <1>8
  <2>. HIDE DEF t
  <2>4. device'[t.slot] = device[t.slot]
    BY <2>1
  <2>5. /\ Precedes(ops', end, t)
        /\ Env[y].written => Found(ops', device', end, t)
        /\ \A e \in Env[y].part : Covered(ops', device', end, t, e)
    BY <1>6, <1>7, <2>1, <2>2
  <2>6. Precedes(ops', end + 1, t)
    BY <1>1, <1>7, <2>3, <2>5 DEF Precedes
  <2>7. Found(ops', device', end, t) => Found(ops', device', end + 1, t)
    BY <1>1, <1>7 DEF Found
  <2>8. \A e : Covered(ops', device', end, t, e) => Covered(ops', device', end + 1, t, e)
    BY <1>1, <1>7 DEF Covered
  <2>9. Len(ops') + 1 = end + 1  BY <1>1
  <2>. QED  BY <1>8, <2>2, <2>3, <2>4, <2>5, <2>6, <2>7, <2>8, <2>9 DEF Current
<1>9. ASSUME NEW x \in DOMAIN Env', NEW t, t = tensor'[x],
             t.slot = op.slot, t.of = op.of, t.version = op.version,
             \A e \in Env'[x].part : e \in op.part \/ (op.slot \in DOMAIN device /\ Covered(ops, device, end, t, e))
      PROVE  Current(x)'
  <2>1. Precedes(ops', end + 1, t)
    <3>1. ASSUME NEW k \in 1 .. end, ops'[k].slot = t.slot PROVE ops'[k].of = t.of /\ ops'[k].version <= t.version
      <4>1. CASE k = end  BY <1>1, <1>9, <4>1
      <4>2. CASE k \in 1 .. end - 1  BY <1>7, <1>9, <3>1, <4>2
      <4>. QED  BY <1>7, <4>1, <4>2
    <3>. QED  BY <1>1, <3>1 DEF Precedes
  <2>2. device'[t.slot].of = t.of => device'[t.slot].version <= t.version
    BY <1>9
  <2>3. Found(ops', device', end + 1, t)
    BY <1>1, <1>7, <1>9 DEF Found, Writes
  <2>4. ASSUME NEW e \in Env'[x].part PROVE Covered(ops', device', end + 1, t, e)
    <3>1. CASE e \in op.part
      BY <1>1, <1>7, <1>9, <3>1 DEF Covered, Writes
    <3>2. CASE op.slot \in DOMAIN device /\ Covered(ops, device, end, t, e)
      <4>1. Covered(ops', device', end, t, e)  BY <1>6, <1>7, <1>9, <3>2
      <4>. QED  BY <1>1, <1>7, <4>1 DEF Covered
    <3>. QED  BY <1>9, <3>1, <3>2
  <2>5. Len(ops') + 1 = end + 1  BY <1>1
  <2>. QED  BY <1>9, <2>1, <2>2, <2>3, <2>4, <2>5 DEF Current
<1>10. AllCurrent'
  BY <1>8, <1>9 DEF AllCurrent, Written, end
<1>11. ASSUME NEW x \in S
       PROVE  /\ tensor[x] \in Tensor /\ tensor[x].slot \in DOMAIN device
              /\ Precedes(ops', end, tensor[x]) /\ Found(ops', device', end, tensor[x])
              /\ \A e \in Elements(tensor[x].n) : Covered(ops', device', end, tensor[x], e)
              /\ \A y \in DOMAIN Env : Env[y].made # 0 /\ tensor[y].slot = tensor[x].slot => tensor[x] = tensor[y]
  <2>. DEFINE t == tensor[x]
  <2>1. /\ t \in Tensor /\ t.slot \in DOMAIN device
        /\ Precedes(ops, end, t) /\ Found(ops, device, end, t)
        /\ \A e \in Elements(t.n) : Covered(ops, device, end, t, e)
    BY <1>11, ReadableThere DEF end
  <2>2. \A y \in DOMAIN Env : Env[y].made # 0 /\ tensor[y].slot = t.slot => t = tensor[y]
    BY <1>11
  <2>. HIDE DEF t
  <2>3. /\ Precedes(ops', end, t) /\ Found(ops', device', end, t)
        /\ \A e \in Elements(t.n) : Covered(ops', device', end, t, e)
    BY <1>6, <1>7, <2>1
  <2>. QED  BY <2>1, <2>2, <2>3 DEF t
<1>12. ASSUME NEW i \in 1 .. end, NEW t \in ops'[i].reads
       PROVE  /\ Precedes(ops', i, t) /\ Found(ops', device', i, t)
              /\ \A e \in Elements(t.n) : Covered(ops', device', i, t, e)
              /\ \A y \in DOMAIN Env :
                   Env[y].made # 0 /\ tensor[y].slot = t.slot => t.of = tensor[y].of /\ t.version <= tensor[y].version
  <2>1. CASE i \in 1 .. Len(ops)
    <3>1. t \in ops[i].reads /\ t.slot \in DOMAIN device
      BY <1>1, <1>3, <1>12, <2>1
    <3>2. /\ Precedes(ops, i, t) /\ Found(ops, device, i, t)
          /\ \A e \in Elements(t.n) : Covered(ops, device, i, t, e)
          /\ \A y \in DOMAIN Env :
               Env[y].made # 0 /\ tensor[y].slot = t.slot => t.of = tensor[y].of /\ t.version <= tensor[y].version
      BY <2>1, <3>1 DEF Heard
    <3>. QED  BY <1>6, <1>12, <3>1, <3>2
  <2>2. CASE i = end
    <3>1. PICK x \in S : t = tensor[x]
      BY <1>1, <1>12, <2>2 DEF Reads
    <3>2. t.version \in Nat  BY <1>11, <3>1 DEF Tensor
    <3>. QED  BY <1>11, <2>2, <3>1, <3>2
  <2>. QED  BY <1>2, <2>1, <2>2
<1>13. ASSUME NEW i \in 1 .. end, NEW t \in ops'[i].reads,
              NEW x \in DOMAIN Env', Env'[x].made # 0, tensor'[x].slot = t.slot
       PROVE  t.of = tensor'[x].of /\ t.version <= tensor'[x].version
  <2>1. CASE \E y \in DOMAIN Env : Env'[x] = Env[y] /\ tensor'[x] = tensor[y] /\ tensor[y].slot # op.slot
    <3>1. PICK y \in DOMAIN Env : Env'[x] = Env[y] /\ tensor'[x] = tensor[y]  BY <2>1
    <3>2. Env[y].made # 0 /\ tensor[y].slot = t.slot  BY <1>13, <3>1
    <3>3. t.of = tensor[y].of /\ t.version <= tensor[y].version  BY <1>12, <3>2
    <3>. QED  BY <3>1, <3>3
  <2>2. CASE tensor'[x].slot = op.slot /\ tensor'[x].of = op.of /\ tensor'[x].version = op.version
    BY <1>13, <2>2 DEF end
  <2>. QED  BY <1>13, <2>1, <2>2 DEF Written
<1>14. Heard'
  BY <1>1, <1>12, <1>13 DEF Heard
<1>. QED  BY <1>5, <1>10, <1>14

LEMMA NothingDated == ASSUME Counters PROVE Dated(<<0, 0>>, Horizon)
BY DEF Counters, Dated, Older, Horizon

LEMMA DeviceStays ==
  ASSUME Counters, Counters', Later, Owned, Named, DeviceDated, FixedWhole, fixed' = fixed,
         \A s \in DOMAIN device : device'[s] = device[s],
         \A s \in DOMAIN device' : s \in DOMAIN device \/ device'[s] = Nothing,
         \A x \in DOMAIN tensor' : tensor'[x].slot \in fixed => x \in DOMAIN tensor /\ tensor'[x] = tensor[x]
  PROVE  DeviceDated' /\ FixedWhole'
<1>1. DeviceDated'
  <2>1. ASSUME NEW s \in DOMAIN device' PROVE Dated(device'[s].of, Horizon') /\ device'[s].version \in Nat
    <3>1. CASE s \in DOMAIN device  BY <3>1, Aging DEF DeviceDated
    <3>2. CASE device'[s] = Nothing
      <4>1. Dated(<<0, 0>>, Horizon')
        <5>1. Dated(<<0, 0>>, Horizon)  BY NothingDated
        <5>. QED  BY <5>1, Aging
      <4>. QED  BY <3>2, <4>1 DEF Nothing
    <3>. QED  BY <3>1, <3>2
  <2>. QED  BY <2>1 DEF DeviceDated
<1>2. FixedWhole'
  <2>1. ASSUME NEW x \in DOMAIN tensor', tensor'[x].slot \in fixed
        PROVE  /\ Matches(device', tensor'[x])
               /\ Elements(tensor'[x].n) \subseteq device'[tensor'[x].slot].part
    <3>1. x \in DOMAIN tensor /\ tensor'[x] = tensor[x] /\ tensor[x].slot \in DOMAIN device
      BY <2>1 DEF Owned
    <3>2. device'[tensor[x].slot] = device[tensor[x].slot]  BY <3>1
    <3>. QED  BY <2>1, <3>1, <3>2 DEF FixedWhole, Matches
  <2>. QED  BY <2>1 DEF FixedWhole
<1>. QED  BY <1>1, <1>2

(* A buffer taken just now holds nothing of the tensor that will be.       *)
LEMMA FreshSlot ==
  ASSUME Counters, status = "running", DeviceDated, NEW s,
         s \in DOMAIN device => device'[s] = device[s], s \notin DOMAIN device => device'[s] = Nothing
  PROVE  device'[s].of # <<calls, at>>
<1>1. CASE s \in DOMAIN device
  <2>1. Dated(device[s].of, <<calls, at>>)  BY <1>1 DEF DeviceDated, Horizon
  <2>. QED  BY <1>1, <2>1 DEF Dated, Older, Counters
<1>2. CASE s \notin DOMAIN device
  BY <1>2 DEF Nothing, Counters
<1>. QED  BY <1>1, <1>2

LEMMA Going ==
  ASSUME FInv, CInv, status = "running"
  PROVE  /\ Counters /\ Owned /\ Named /\ Sketched /\ Recorded
         /\ DeviceDated /\ FixedWhole /\ Ordered /\ Heard /\ AllCurrent
BY DEF FInv, CInv

LEMMA TakeBufferReads == ASSUME FInv, FInv', CInv, Follows, TakeBuffer PROVE CInv'
<1>. DEFINE s == SlotFor(Step.n)
<1>1. /\ Counters /\ Owned /\ Named /\ Sketched /\ Recorded /\ Counters'
      /\ DeviceDated /\ FixedWhole /\ Ordered /\ Heard /\ AllCurrent
      /\ status = "running" /\ Step.op = "take"
  BY Going DEF TakeBuffer, At, FInv
<1>2. /\ Lend(s, Step.n) /\ device' = Grown(device, s) /\ tensor' = Bind(Step.to, Made(s, Step.n))
      /\ Advance /\ ops' = ops /\ fixed' = fixed /\ destroyed' = destroyed
  BY DEF TakeBuffer
<1>3. sketch' = [env |-> Binding(Env, Step.to, Fresh(at, Step.n, {}, FALSE)), open |-> sketch.open]
  BY <1>1, <1>2 DEF Advance, After, Env
<1>4. Later
  BY <1>1, <1>2 DEF Advance, Later
<1>5. /\ s \notin pool.lent \cup pool.quarantine \cup fixed
      /\ \A t \in DOMAIN device : device'[t] = device[t]
      /\ s \notin DOMAIN device => device'[s] = Nothing
      /\ DOMAIN device' = DOMAIN device \cup {s}
  BY <1>1, <1>2, Lending
<1>. HIDE DEF s
<1>6. device'[s].of # <<calls, at>>
  BY <1>1, <1>5, FreshSlot
<1>7. /\ DOMAIN tensor' = DOMAIN tensor \cup {Step.to} /\ tensor'[Step.to].slot = s
      /\ tensor'[Step.to].of = <<calls, at>>
      /\ \A x \in DOMAIN tensor : x # Step.to => tensor'[x] = tensor[x]
  BY <1>2 DEF Bind, Made
<1>8. /\ DOMAIN Env' = DOMAIN Env \cup {Step.to} /\ ~ Env'[Step.to].written /\ Env'[Step.to].part = {}
      /\ \A x \in DOMAIN Env : x # Step.to => Env'[x] = Env[x]
  BY <1>3 DEF Env, Binding, Fresh
<1>9. \A x \in DOMAIN Env' : Untouched(x)
  BY <1>1, <1>5, <1>6, <1>7, <1>8 DEF Untouched, Sketched
<1>10. Ordered' /\ Heard' /\ AllCurrent'
  BY <1>1, <1>2, <1>4, <1>5, <1>9, ContentStays
<1>11. DeviceDated' /\ FixedWhole'
  BY <1>1, <1>2, <1>4, <1>5, <1>7, DeviceStays
<1>. QED  BY <1>10, <1>11 DEF CInv

LEMMA ReadAliases ==
  ASSUME Sketched, Named, NEW x, Readable(Env, x), NEW y \in DOMAIN Env, Env[y].made # 0,
         tensor[x].slot = tensor[y].slot
  PROVE  tensor[x] = tensor[y]
<1>1. IsPooled(Env, y) /\ x \in DOMAIN Env
  BY DEF IsPooled, Readable
<1>. QED  BY <1>1, Aliases

LEMMA RecordIntoReads == ASSUME FInv, FInv', CInv, Follows, RecordInto, status' = "running" PROVE CInv'
<1>. DEFINE s == SlotFor(Step.n)
            t == Made(s, Step.n)
            op == OpOn(t, Elements(Step.n), Step.from)
<1>1. /\ Counters /\ Owned /\ Named /\ Sketched /\ Recorded /\ Counters'
      /\ DeviceDated /\ FixedWhole /\ Ordered /\ Heard /\ AllCurrent
      /\ status = "running" /\ Step.op = "into" /\ \A x \in Step.from : Readable(Env, x)
  BY Going DEF RecordInto, At, FInv, Follows, Allowed, Env
<1>2. /\ Lend(s, Step.n) /\ device' = Grown(device, s) /\ tensor' = Bind(Step.to, t)
      /\ ops' = Append(ops, op) /\ Advance /\ fixed' = fixed /\ destroyed' = destroyed
  BY DEF RecordInto, Unread, Reject
<1>3. sketch' = [env |-> Binding(Env, Step.to, Fresh(at, Step.n, Elements(Step.n), TRUE)), open |-> TRUE]
  BY <1>1, <1>2 DEF Advance, After, Env
<1>4. Later /\ calls' = calls /\ at' = at + 1 /\ status' = "running"
  BY <1>1, <1>2 DEF Advance, Later
<1>5. /\ s \notin pool.lent \cup pool.quarantine \cup fixed
      /\ \A k \in DOMAIN device : device'[k] = device[k]
      /\ s \notin DOMAIN device => device'[s] = Nothing
      /\ DOMAIN device' = DOMAIN device \cup {s}
  BY <1>1, <1>2, Lending
<1>. HIDE DEF s
<1>6. device'[s].of # <<calls, at>>
  BY <1>1, <1>5, FreshSlot
<1>7. /\ DOMAIN tensor' = DOMAIN tensor \cup {Step.to} /\ tensor'[Step.to] = t
      /\ \A x \in DOMAIN tensor : x # Step.to => tensor'[x] = tensor[x]
  BY <1>2 DEF Bind
<1>8. /\ DOMAIN Env' = DOMAIN Env \cup {Step.to} /\ Env'[Step.to].part = Elements(Step.n)
      /\ \A x \in DOMAIN Env : x # Step.to => Env'[x] = Env[x]
  BY <1>3 DEF Env, Binding, Fresh
<1>9. /\ t.slot = s /\ t.of = <<calls, at>> /\ t.version = 0
      /\ op.slot = s /\ op.of = <<calls, at>> /\ op.version = 0
      /\ op.reads = Reads(Step.from) /\ op.part = Elements(Step.n)
  BY DEF Made, OpOn
<1>. HIDE DEF t, op
<1>10. \A x \in DOMAIN Env : tensor[x].slot # s /\ x \in DOMAIN tensor
  BY <1>1, <1>5 DEF Sketched, Agrees
<1>11. \A x \in DOMAIN Env' : Written(x, op)
  BY <1>7, <1>8, <1>9, <1>10 DEF Written
<1>12. Dated(op.of, Horizon')
  BY <1>1, <1>4, <1>9 DEF Dated, Older, Horizon, Counters
<1>13. \A i \in 1 .. Len(ops) : ops[i].slot # s /\ \A u \in ops[i].reads : u.slot # s
  BY <1>1, <1>5 DEF Recorded
<1>14. \A x \in Step.from : tensor[x].slot # s
  BY <1>1, <1>10 DEF Readable
<1>15. \A i \in 1 .. Len(ops) + 1 : \A u \in ops'[i].reads : u.slot # s
  <2>1. /\ Len(ops) \in Nat /\ ops'[Len(ops) + 1] = op /\ \A i \in 1 .. Len(ops) : ops'[i] = ops[i]
        /\ \A i \in 1 .. Len(ops) + 1 : i \in 1 .. Len(ops) \/ i = Len(ops) + 1
    BY <1>1, <1>2 DEF Recorded
  <2>2. \A u \in op.reads : u.slot # s  BY <1>9, <1>14 DEF Reads
  <2>. QED  BY <1>13, <2>1, <2>2
<1>16. \A x \in Step.from : \A y \in DOMAIN Env :
         Env[y].made # 0 /\ tensor[x].slot = tensor[y].slot => tensor[x] = tensor[y]
  BY <1>1, ReadAliases
<1>17. op.version \in Nat
  BY <1>9
<1>18. Ordered' /\ Heard' /\ AllCurrent'
  <2>1. device'[op.slot].of = op.of => device'[op.slot].version <= op.version
    BY <1>6, <1>9
  <2>2. \A i \in 1 .. Len(ops) : ops[i].slot = op.slot => ops[i].of = op.of /\ ops[i].version <= op.version
    BY <1>9, <1>13
  <2>3. \A i \in 1 .. Len(ops) + 1 : \A u \in ops'[i].reads : u.slot = op.slot => u.of = op.of /\ u.version <= op.version
    BY <1>9, <1>15
  <2>4. op.reads = Reads(Step.from)  BY <1>9
  <2>. QED  BY <1>1, <1>2, <1>4, <1>5, <1>11, <1>12, <1>16, <1>17, <2>1, <2>2, <2>3, <2>4, ContentGrows
<1>19. DeviceDated' /\ FixedWhole'
  BY <1>1, <1>2, <1>4, <1>5, <1>7, <1>9, DeviceStays
<1>. QED  BY <1>18, <1>19 DEF CInv

(* A dispatch that adds to a content, or starts a new one.                 *)
LEMMA SameBufferReads ==
  ASSUME FInv, FInv', CInv, status = "running", Later, status' = "running",
         NEW to, IsPooled(Env, to), NEW op, ops' = Append(ops, op), NEW S,
         op.reads = Reads(S), \A x \in S : Readable(Env, x),
         op.slot = tensor[to].slot, op.of = tensor[to].of, op.version \in Nat, tensor[to].version <= op.version,
         device' = device, fixed' = fixed, calls' = calls, at' = at + 1,
         DOMAIN Env' = DOMAIN Env, DOMAIN tensor' = DOMAIN tensor,
         \A x \in DOMAIN tensor : tensor[x].slot # op.slot => tensor'[x] = tensor[x],
         \A x \in DOMAIN Env : tensor[x].slot # op.slot => Env'[x] = Env[x],
         \A x \in DOMAIN Env : tensor[x].slot = op.slot =>
           /\ tensor'[x].slot = op.slot /\ tensor'[x].of = op.of /\ tensor'[x].version = op.version
           /\ \A e \in Env'[x].part : e \in op.part \/ (e \in Env[x].part /\ tensor'[x] = tensor[x])
  PROVE  CInv'
<1>1. /\ Counters /\ Owned /\ Named /\ Sketched /\ Recorded /\ Counters'
      /\ DeviceDated /\ FixedWhole /\ Ordered /\ Heard /\ AllCurrent
  BY Going DEF FInv
<1>2. /\ to \in DOMAIN Env /\ to \in DOMAIN tensor /\ Agrees(to) /\ tensor[to] \in Tensor /\ Env[to].made # 0
      /\ Current(to) /\ op.slot \in pool.lent /\ op.slot \in DOMAIN device /\ op.slot \notin fixed
      /\ tensor[to].version \in Nat /\ Env[to].made \in Nat
  BY <1>1 DEF IsPooled, Sketched, Named, Agrees, AllCurrent, Owned, Tensor, Known
<1>3. \A x \in DOMAIN Env' : Env'[x].made # 0 => Written(x, op)
  <2>1. ASSUME NEW x \in DOMAIN Env, tensor[x].slot # op.slot PROVE Written(x, op)
    BY <1>1, <2>1 DEF Written, Sketched
  <2>2. ASSUME NEW x \in DOMAIN Env, tensor[x].slot = op.slot PROVE Written(x, op)
    <3>1. Env[x] = Env[to] /\ tensor[x] = tensor[to] /\ Env[x].made # 0
      BY <1>1, <2>2, Aliases DEF IsPooled
    <3>2. \A e \in Env[x].part : Covered(ops, device, Len(ops) + 1, tensor[x], e)
      BY <1>1, <3>1 DEF AllCurrent, Current
    <3>. QED  BY <1>2, <2>2, <3>2 DEF Written
  <2>. QED  BY <2>1, <2>2
<1>4. Dated(op.of, Horizon')
  BY <1>1, <1>2 DEF Dated, Older, Horizon, Counters, Agrees
<1>5. device'[op.slot].of = op.of => device'[op.slot].version <= op.version
  <2>1. device[op.slot].of = op.of => device[op.slot].version <= tensor[to].version
    BY <1>2 DEF Current
  <2>2. device[op.slot].version \in Nat  BY <1>1, <1>2 DEF DeviceDated
  <2>. QED  BY <1>2, <2>1, <2>2
<1>6. \A i \in 1 .. Len(ops) : ops[i].slot = op.slot => ops[i].of = op.of /\ ops[i].version <= op.version
  <2>1. Precedes(ops, Len(ops) + 1, tensor[to]) /\ (Len(ops) + 1) - 1 = Len(ops)
    BY <1>1, <1>2 DEF Current, Recorded
  <2>2. \A i \in 1 .. Len(ops) : ops[i].version \in Nat  BY <1>1 DEF Recorded
  <2>. QED  BY <1>2, <2>1, <2>2 DEF Precedes
<1>7. \A i \in 1 .. Len(ops) + 1 : \A t \in ops'[i].reads :
        t.slot = op.slot => t.of = op.of /\ t.version <= op.version
  <2>1. /\ Len(ops) \in Nat /\ ops'[Len(ops) + 1] = op /\ \A i \in 1 .. Len(ops) : ops'[i] = ops[i]
        /\ \A i \in 1 .. Len(ops) + 1 : i \in 1 .. Len(ops) \/ i = Len(ops) + 1
    BY <1>1 DEF Recorded
  <2>2. ASSUME NEW i \in 1 .. Len(ops), NEW t \in ops[i].reads, t.slot = op.slot
        PROVE  t.of = op.of /\ t.version <= op.version
    <3>1. t.of = tensor[to].of /\ t.version <= tensor[to].version
      BY <1>1, <1>2, <2>2 DEF Heard
    <3>2. t.version \in Nat  BY <1>1 DEF Recorded, Tensor
    <3>. QED  BY <1>2, <3>1, <3>2
  <2>3. ASSUME NEW t \in op.reads, t.slot = op.slot PROVE t.of = op.of /\ t.version <= op.version
    <3>1. PICK x \in S : t = tensor[x]  BY <2>3 DEF Reads
    <3>2. tensor[x] = tensor[to]  BY <1>1, <1>2, <2>3, <3>1, ReadAliases
    <3>. QED  BY <3>1, <3>2
  <2>. QED  BY <2>1, <2>2, <2>3
<1>8. \A x \in S : \A y \in DOMAIN Env :
        Env[y].made # 0 /\ tensor[x].slot = tensor[y].slot => tensor[x] = tensor[y]
  BY <1>1, ReadAliases
<1>9. Ordered' /\ Heard' /\ AllCurrent'
  BY <1>1, <1>3, <1>4, <1>5, <1>6, <1>7, <1>8, ContentGrows
<1>10. DeviceDated' /\ FixedWhole'
  <2>1. \A x \in DOMAIN tensor' : tensor'[x].slot \in fixed => x \in DOMAIN tensor /\ tensor'[x] = tensor[x]
    <3>. SUFFICES ASSUME NEW x \in DOMAIN tensor, tensor'[x].slot \in fixed PROVE tensor'[x] = tensor[x]
      OBVIOUS
    <3>1. x \notin DOMAIN Env => tensor[x].slot \in fixed  BY <1>1 DEF Sketched
    <3>. QED  BY <1>2, <3>1
  <2>. QED  BY <1>1, <2>1, DeviceStays
<1>. QED  BY <1>9, <1>10 DEF CInv

LEMMA RecordReads == ASSUME FInv, FInv', CInv, Follows, Record, status' = "running" PROVE CInv'
<1>. DEFINE op == OpOn(tensor[Step.to], Step.part, Step.from)
<1>1. /\ Sketched /\ Named /\ Owned
      /\ status = "running" /\ Step.op = "write" /\ IsPooled(Env, Step.to)
      /\ \A x \in Step.from : Readable(Env, x)
  BY Going DEF Record, At, Follows, Allowed, Env
<1>2. ops' = Append(ops, op) /\ Advance /\ tensor' = tensor /\ device' = device /\ fixed' = fixed
  BY DEF Record, Unread, Reject, memory
<1>3. sketch' = [env |-> Wrote(Env, Step.to, Step.part), open |-> TRUE]
  BY <1>1, <1>2 DEF Advance, After, Env
<1>4. Later /\ calls' = calls /\ at' = at + 1
  BY <1>1, <1>2 DEF Advance, Later
<1>5. /\ op.slot = tensor[Step.to].slot /\ op.of = tensor[Step.to].of /\ op.part = Step.part
      /\ op.version = tensor[Step.to].version /\ op.reads = Reads(Step.from)
  BY DEF OpOn
<1>6. /\ Step.to \in DOMAIN Env /\ Step.to \in DOMAIN tensor
      /\ tensor[Step.to].version \in Nat /\ Env[Step.to].made # 0
  BY <1>1 DEF IsPooled, Sketched, Named, Tensor
<1>7. /\ DOMAIN Env' = DOMAIN Env
      /\ \A x \in DOMAIN Env :
           Env'[x] = IF Env[x].made = Env[Step.to].made THEN WithPart(Env[x], Step.part) ELSE Env[x]
  BY <1>3 DEF Env, Wrote, Alike
<1>. HIDE DEF op
<1>8. \A x \in DOMAIN Env : tensor[x].slot = op.slot <=> Env[x].made = Env[Step.to].made
  BY <1>1, <1>5, <1>6 DEF Sketched
<1>9. \A x \in DOMAIN Env : tensor[x].slot # op.slot => Env'[x] = Env[x]
  BY <1>7, <1>8
<1>10. ASSUME NEW x \in DOMAIN Env, tensor[x].slot = op.slot
       PROVE  /\ tensor'[x].slot = op.slot /\ tensor'[x].of = op.of /\ tensor'[x].version = op.version
              /\ \A e \in Env'[x].part : e \in op.part \/ (e \in Env[x].part /\ tensor'[x] = tensor[x])
  <2>1. tensor[x] = tensor[Step.to]  BY <1>1, <1>5, <1>10, Aliases
  <2>2. Env'[x].part = Env[x].part \cup Step.part
    <3>1. Env[x] \in Known  BY <1>1 DEF Sketched
    <3>. QED  BY <1>7, <1>8, <1>10, <3>1 DEF WithPart, Known
  <2>. QED  BY <1>2, <1>5, <2>1, <2>2
<1>11. op.version \in Nat /\ tensor[Step.to].version <= op.version
  BY <1>5, <1>6
<1>12. DOMAIN tensor' = DOMAIN tensor
  BY <1>2
<1>13. \A x \in DOMAIN tensor : tensor[x].slot # op.slot => tensor'[x] = tensor[x]
  BY <1>2
<1>. QED  BY <1>1, <1>2, <1>4, <1>5, <1>7, <1>9, <1>10, <1>11, <1>12, <1>13, SameBufferReads

LEMMA RecordAgainReads == ASSUME FInv, FInv', CInv, Follows, RecordAgain, status' = "running" PROVE CInv'
<1>. DEFINE t == Again(tensor[Step.to], Step.n)
            op == OpOn(t, Step.part, Step.from)
<1>1. /\ Sketched /\ Named /\ Owned /\ Counters
      /\ status = "running" /\ Step.op = "rewrite" /\ IsPooled(Env, Step.to)
      /\ Step.part \in SUBSET Nat /\ Step.n \in Nat
      /\ \A x \in Step.from : Readable(Env, x)
  BY Going DEF RecordAgain, At, Follows, Allowed, Env
<1>2. /\ ops' = Append(ops, op) /\ Advance /\ tensor' = Renewed(t)
      /\ size' = size /\ pool' = pool /\ fixed' = fixed /\ destroyed' = destroyed /\ device' = device
  BY DEF RecordAgain, Unread, Reject
<1>3. sketch' = [env |-> Rewrote(Env, Step.to, Step.n, Step.part), open |-> TRUE]
  BY <1>1, <1>2 DEF Advance, After, Env
<1>4. Later /\ calls' = calls /\ at' = at + 1 /\ at \in Nat
  BY <1>1, <1>2 DEF Advance, Later, Counters
<1>5. /\ op.slot = t.slot /\ op.of = t.of /\ op.part = Step.part /\ op.version = t.version
      /\ op.reads = Reads(Step.from)
  BY DEF OpOn
<1>. HIDE DEF t, op
<1>6. /\ DOMAIN Env' = DOMAIN Env /\ DOMAIN tensor' = DOMAIN tensor
      /\ t.slot = tensor[Step.to].slot /\ t.of = tensor[Step.to].of
      /\ t.version = tensor[Step.to].version + 1
  <2>1. sketch'.env = Rewrote(Env, Step.to, Step.n, Step.part)  BY <1>3
  <2>. QED  BY <1>1, <1>2, <1>4, <2>1, RewroteKeeps DEF t
<1>7. /\ Step.to \in DOMAIN Env /\ Step.to \in DOMAIN tensor
      /\ tensor[Step.to].version \in Nat /\ Env[Step.to].made # 0
  BY <1>1 DEF IsPooled, Sketched, Named, Tensor
<1>8. \A x \in DOMAIN Env :
        Env'[x] = IF Env[x].made = Env[Step.to].made THEN Anew(Env[x], Step.n, Step.part) ELSE Env[x]
  BY <1>3 DEF Env, Rewrote, Alike
<1>9. \A x \in DOMAIN Env : tensor[x].slot = op.slot <=> Env[x].made = Env[Step.to].made
  BY <1>1, <1>5, <1>6, <1>7 DEF Sketched
<1>10. \A x \in DOMAIN Env : tensor[x].slot # op.slot => Env'[x] = Env[x]
  BY <1>8, <1>9
<1>11. \A x \in DOMAIN tensor : tensor'[x] = IF tensor[x].slot = t.slot THEN t ELSE tensor[x]
  BY <1>2 DEF Renewed
<1>12. ASSUME NEW x \in DOMAIN Env, tensor[x].slot = op.slot
       PROVE  /\ tensor'[x].slot = op.slot /\ tensor'[x].of = op.of /\ tensor'[x].version = op.version
              /\ \A e \in Env'[x].part : e \in op.part \/ (e \in Env[x].part /\ tensor'[x] = tensor[x])
  <2>1. x \in DOMAIN tensor  BY <1>1 DEF Sketched
  <2>2. tensor'[x] = t  BY <1>5, <1>11, <1>12, <2>1
  <2>3. Env'[x].part = Step.part
    <3>1. Env[x] \in Known /\ Env'[x] = Anew(Env[x], Step.n, Step.part)
      BY <1>1, <1>8, <1>9, <1>12 DEF Sketched
    <3>. QED  BY <1>1, <3>1, KnownAgain
  <2>. QED  BY <1>5, <2>2, <2>3
<1>13. op.version \in Nat /\ tensor[Step.to].version <= op.version
  BY <1>5, <1>6, <1>7
<1>14. \A x \in DOMAIN tensor : tensor[x].slot # op.slot => tensor'[x] = tensor[x]
  BY <1>5, <1>11
<1>15. op.slot = tensor[Step.to].slot /\ op.of = tensor[Step.to].of
  BY <1>5, <1>6
<1>. QED  BY <1>1, <1>2, <1>4, <1>5, <1>6, <1>10, <1>12, <1>13, <1>14, <1>15, SameBufferReads

(* A step that touches neither the device nor the recorded work, and binds *)
(* no variable to anything new.                                            *)
LEMMA NamesStay ==
  ASSUME FInv, FInv', CInv, status = "running", status' = "running", Later,
         ops' = ops, device' = device, fixed' = fixed,
         \A x \in DOMAIN Env' : Env'[x].made # 0 =>
           \E y \in DOMAIN Env : Env'[x] = Env[y] /\ tensor'[x] = tensor[y],
         \A x \in DOMAIN tensor' : tensor'[x].slot \in fixed => x \in DOMAIN tensor /\ tensor'[x] = tensor[x]
  PROVE  CInv'
<1>1. /\ Counters /\ Owned /\ Named /\ Sketched /\ Recorded /\ Counters'
      /\ DeviceDated /\ FixedWhole /\ Ordered /\ Heard /\ AllCurrent
  BY Going DEF FInv
<1>2. \A x \in DOMAIN Env' : Env'[x].made # 0 => Untouched(x)
  BY DEF Untouched
<1>3. Ordered' /\ Heard' /\ AllCurrent'
  BY <1>1, <1>2, ContentStays
<1>4. DeviceDated' /\ FixedWhole'
  BY <1>1, DeviceStays
<1>. QED  BY <1>3, <1>4 DEF CInv

LEMMA NameTensorReads == ASSUME FInv, FInv', CInv, Follows, NameTensor PROVE CInv'
<1>1. /\ Sketched /\ Named /\ Owned
      /\ status = "running" /\ Step.op = "name" /\ IsPooled(Env, Step.from)
  BY Going DEF NameTensor, At, Follows, Allowed, Env
<1>2. /\ tensor' = Bind(Step.to, tensor[Step.from]) /\ Advance
      /\ fixed' = fixed /\ device' = device /\ ops' = ops
  BY DEF NameTensor
<1>3. sketch' = [env |-> Binding(Env, Step.to, Env[Step.from]), open |-> sketch.open]
  BY <1>1, <1>2 DEF Advance, After, Env
<1>4. Later /\ status' = "running"
  BY <1>1, <1>2 DEF Advance, Later
<1>5. /\ DOMAIN tensor' = DOMAIN tensor \cup {Step.to} /\ tensor'[Step.to] = tensor[Step.from]
      /\ \A x \in DOMAIN tensor : x # Step.to => tensor'[x] = tensor[x]
  BY <1>2 DEF Bind
<1>6. /\ DOMAIN Env' = DOMAIN Env \cup {Step.to} /\ Env'[Step.to] = Env[Step.from]
      /\ \A x \in DOMAIN Env : x # Step.to => Env'[x] = Env[x]
  BY <1>3 DEF Env, Binding
<1>7. Step.from \in DOMAIN Env /\ tensor[Step.from].slot \notin fixed
  BY <1>1 DEF IsPooled, Sketched, Agrees, Owned
<1>8. \A x \in DOMAIN Env' : \E y \in DOMAIN Env : Env'[x] = Env[y] /\ tensor'[x] = tensor[y]
  <2>1. DOMAIN Env \subseteq DOMAIN tensor  BY <1>1 DEF Sketched
  <2>. QED  BY <1>5, <1>6, <1>7, <2>1
<1>9. \A x \in DOMAIN tensor' : tensor'[x].slot \in fixed => x \in DOMAIN tensor /\ tensor'[x] = tensor[x]
  BY <1>5, <1>7
<1>. QED  BY <1>1, <1>2, <1>4, <1>8, <1>9, NamesStay

LEMMA RecycleBufferReads == ASSUME FInv, FInv', CInv, Follows, RecycleBuffer PROVE CInv'
<1>. DEFINE s == tensor[Step.x].slot
<1>1. /\ Sketched /\ Named /\ Owned
      /\ status = "running" /\ Step.op = "recycle" /\ IsPooled(Env, Step.x)
  BY Going DEF RecycleBuffer, At, Follows, Allowed, Env
<1>2. /\ tensor' = Restrict(tensor, {y \in DOMAIN tensor : tensor[y].slot # s}) /\ Advance
      /\ fixed' = fixed /\ device' = device /\ ops' = ops
  BY DEF RecycleBuffer
<1>3. sketch' = [env |-> Without(Env, Step.x), open |-> sketch.open]
  BY <1>1, <1>2 DEF Advance, After, Env
<1>4. Later /\ status' = "running"
  BY <1>1, <1>2 DEF Advance, Later
<1>5. /\ DOMAIN tensor' = {y \in DOMAIN tensor : tensor[y].slot # s}
      /\ \A y \in DOMAIN tensor' : tensor'[y] = tensor[y]
  BY <1>2 DEF Restrict
<1>6. /\ DOMAIN Env' = {y \in DOMAIN Env : Env[y].made # Env[Step.x].made}
      /\ \A y \in DOMAIN Env' : Env'[y] = Env[y]
  BY <1>3 DEF Env, Without, Alike, Restrict
<1>7. \A y \in DOMAIN Env' : y \in DOMAIN Env /\ Env'[y] = Env[y] /\ tensor'[y] = tensor[y]
  BY <1>1, <1>5, <1>6 DEF Sketched, IsPooled
<1>8. \A x \in DOMAIN tensor' : x \in DOMAIN tensor /\ tensor'[x] = tensor[x]
  BY <1>5
<1>. HIDE DEF s
<1>. QED  BY <1>1, <1>2, <1>4, <1>7, <1>8, NamesStay

LEMMA PreloadReads == ASSUME FInv, FInv', CInv, Follows, Preload, status' = "running" PROVE CInv'
<1>1. status = "running" /\ Step.op = "announce" /\ Advance /\ UNCHANGED <<memory, ops>>
  BY DEF Preload, Unread, Reject, At
<1>2. sketch' = sketch
  BY <1>1 DEF Advance, After
<1>3. /\ fixed' = fixed /\ tensor' = tensor /\ device' = device /\ ops' = ops /\ Env' = Env
  BY <1>1, <1>2 DEF memory, Env
<1>4. Later
  BY <1>1 DEF Advance, Later
<1>5. /\ \A x \in DOMAIN Env' : \E y \in DOMAIN Env : Env'[x] = Env[y] /\ tensor'[x] = tensor[y]
      /\ \A x \in DOMAIN tensor' : x \in DOMAIN tensor /\ tensor'[x] = tensor[x]
  BY <1>3
<1>. QED  BY <1>1, <1>3, <1>4, <1>5, NamesStay

LEMMA FixBufferReads == ASSUME FInv, FInv', CInv, Follows, FixBuffer PROVE CInv'
<1>. DEFINE x == Step.to
            s == Len(size) + 1
            new == [of |-> <<calls, at>>, version |-> 0, part |-> Elements(Step.n)]
<1>1. /\ Counters /\ Owned /\ Named /\ Sketched /\ Recorded /\ Counters'
      /\ DeviceDated /\ FixedWhole /\ Ordered /\ Heard /\ AllCurrent
      /\ status = "running" /\ Step.op = "fix" /\ ~ IsPooled(Env, x)
  BY Going DEF FixBuffer, At, FInv, Follows, Allowed, Env
<1>2. Advance /\ ops' = ops
  BY DEF FixBuffer
<1>3. sketch' = [env |-> Binding(Env, x, Kept), open |-> sketch.open]
  BY <1>1, <1>2 DEF Advance, After, Env
<1>4. Later /\ status' = "running" /\ calls' = calls /\ at' = at + 1
  BY <1>1, <1>2 DEF Advance, Later
<1>. HIDE DEF x
<1>5. /\ DOMAIN Env' = DOMAIN Env \cup {x} /\ Env'[x] = Kept /\ Kept.made = 0
      /\ \A y \in DOMAIN Env : y # x => Env'[y] = Env[y]
  BY <1>3 DEF Env, Binding, Kept, Fresh
<1>6. \A y \in DOMAIN Env' : Env'[y].made # 0 => y # x /\ y \in DOMAIN Env /\ Env'[y] = Env[y]
  BY <1>5
<1>7. CASE UNCHANGED memory
  <2>1. fixed' = fixed /\ tensor' = tensor /\ device' = device
    BY <1>7 DEF memory
  <2>2. \A y \in DOMAIN Env' : Env'[y].made # 0 => \E z \in DOMAIN Env : Env'[y] = Env[z] /\ tensor'[y] = tensor[z]
    BY <1>6, <2>1
  <2>. QED  BY <1>1, <1>2, <1>4, <2>1, <2>2, NamesStay
<1>8. CASE /\ size' = Append(size, Step.n) /\ device' = Append(device, new)
           /\ tensor' = Bind(x, Made(s, Step.n)) /\ fixed' = fixed \cup {s}
  <2>. HIDE DEF new
  <2>1. /\ DOMAIN device' = DOMAIN device \cup {s} /\ device'[s] = new /\ s \notin DOMAIN device
        /\ \A k \in DOMAIN device : device'[k] = device[k]
    BY <1>1, <1>8 DEF Owned
  <2>2. /\ DOMAIN tensor' = DOMAIN tensor \cup {x} /\ tensor'[x] = Made(s, Step.n)
        /\ \A y \in DOMAIN tensor : y # x => tensor'[y] = tensor[y]
    BY <1>8 DEF Bind
  <2>3. \A y \in DOMAIN Env' : Env'[y].made # 0 => Untouched(y)
    BY <1>1, <1>6, <2>2 DEF Untouched, Sketched
  <2>4. Ordered' /\ Heard' /\ AllCurrent'
    BY <1>1, <1>2, <1>4, <2>1, <2>3, ContentStays
  <2>5. DeviceDated'
    <3>1. Dated(new.of, Horizon') /\ new.version \in Nat
      BY <1>1, <1>4 DEF Dated, Older, Horizon, Counters, new
    <3>2. ASSUME NEW k \in DOMAIN device PROVE Dated(device'[k].of, Horizon') /\ device'[k].version \in Nat
      BY <1>1, <1>4, <2>1, Aging DEF DeviceDated
    <3>. QED  BY <2>1, <3>1, <3>2 DEF DeviceDated
  <2>6. FixedWhole'
    <3>1. /\ Matches(device', Made(s, Step.n))
          /\ Elements(Made(s, Step.n).n) \subseteq device'[Made(s, Step.n).slot].part
      BY <2>1 DEF Matches, Made, new
    <3>2. ASSUME NEW y \in DOMAIN tensor, y # x, tensor[y].slot \in fixed \cup {s}
          PROVE  /\ Matches(device', tensor[y])
                 /\ Elements(tensor[y].n) \subseteq device'[tensor[y].slot].part
      <4>1. tensor[y].slot \in fixed /\ tensor[y].slot \in DOMAIN device
        BY <1>1, <2>1, <3>2 DEF Named, Owned
      <4>. QED  BY <1>1, <2>1, <4>1 DEF FixedWhole, Matches
    <3>. QED  BY <1>8, <2>2, <3>1, <3>2 DEF FixedWhole
  <2>. QED  BY <2>4, <2>5, <2>6 DEF CInv
<1>. QED  BY <1>7, <1>8 DEF FixBuffer, x

(* The host writes at once, before what is recorded: what that was to read *)
(* in the same buffer is the very tensor the host writes.                  *)
LEMMA WriteFromHostReads == ASSUME FInv, FInv', CInv, Follows, WriteFromHost PROVE CInv'
<1>. DEFINE t == tensor[Step.to]
            s == t.slot
            end == Len(ops) + 1
<1>1. /\ Counters /\ Owned /\ Named /\ Sketched /\ Recorded /\ Counters'
      /\ DeviceDated /\ FixedWhole /\ Ordered /\ Heard /\ AllCurrent
      /\ status = "running" /\ Step.op = "host" /\ IsPooled(Env, Step.to) /\ Env[Step.to].version = 0
  BY Going DEF WriteFromHost, At, FInv, Follows, Allowed, Env
<1>2. /\ device' = Applied(device, OpOn(t, Step.part, {})) /\ Advance
      /\ fixed' = fixed /\ tensor' = tensor /\ ops' = ops
  BY DEF WriteFromHost
<1>3. sketch' = [env |-> Wrote(Env, Step.to, Step.part), open |-> sketch.open]
  BY <1>1, <1>2 DEF Advance, After, Env
<1>4. Later /\ status' = "running" /\ calls' = calls /\ at' = at + 1
  BY <1>1, <1>2 DEF Advance, Later
<1>5. /\ Step.to \in DOMAIN Env /\ Step.to \in DOMAIN tensor /\ Env[Step.to].made # 0
      /\ t \in Tensor /\ t.version = 0 /\ Agrees(Step.to)
      /\ s \in DOMAIN device /\ s \notin fixed /\ Env[Step.to].made \in Nat
  BY <1>1 DEF IsPooled, Sketched, Named, Agrees, Owned, Known
<1>. HIDE DEF t
<1>6. /\ DOMAIN device' = DOMAIN device
      /\ \A k \in DOMAIN device : k # s => device'[k] = device[k]
      /\ device'[s].of = t.of /\ device'[s].version = 0 /\ Step.part \subseteq device'[s].part
      /\ device[s].of = t.of /\ device[s].version = 0 => device[s].part \subseteq device'[s].part
  BY <1>2, <1>5 DEF Applied, OpOn
<1>. HIDE DEF s
<1>7. Dated(t.of, Horizon')
  BY <1>1, <1>4, <1>5 DEF Dated, Older, Horizon, Counters, Agrees, t
<1>8. DeviceDated'
  <2>1. ASSUME NEW k \in DOMAIN device PROVE Dated(device'[k].of, Horizon') /\ device'[k].version \in Nat
    <3>1. CASE k = s  BY <1>6, <1>7, <3>1
    <3>2. CASE k # s  BY <1>1, <1>4, <1>6, <3>2, Aging DEF DeviceDated
    <3>. QED  BY <3>1, <3>2
  <2>. QED  BY <1>6, <2>1 DEF DeviceDated
<1>9. FixedWhole'
  <2>1. \A x \in DOMAIN tensor : tensor[x].slot \in fixed => device'[tensor[x].slot] = device[tensor[x].slot]
    BY <1>1, <1>5, <1>6 DEF Owned
  <2>. QED  BY <1>1, <1>2, <2>1 DEF FixedWhole, Matches
<1>10. Ordered'
  <2>1. ASSUME NEW i \in 1 .. Len(ops)
        PROVE  /\ Dated(ops[i].of, Horizon')
               /\ device'[ops[i].slot].of = ops[i].of => device'[ops[i].slot].version <= ops[i].version
    <3>1. Dated(ops[i].of, Horizon')  BY <1>1, <1>4, Aging DEF Ordered
    <3>2. ops[i].version \in Nat /\ ops[i].slot \in DOMAIN device  BY <1>1, OpSlots DEF Recorded
    <3>3. CASE ops[i].slot = s  BY <1>6, <3>1, <3>2, <3>3
    <3>4. CASE ops[i].slot # s  BY <1>1, <1>6, <3>1, <3>2, <3>4 DEF Ordered
    <3>. QED  BY <3>3, <3>4
  <2>. QED  BY <1>1, <1>2, <2>1 DEF Ordered
<1>11. ASSUME NEW u \in Tensor, u.slot \in DOMAIN device, u.slot = s => u.of = t.of /\ u.version <= t.version,
              NEW i \in Nat
       PROVE  /\ Found(ops, device, i, u) => Found(ops, device', i, u)
              /\ \A e : Covered(ops, device, i, u, e) => Covered(ops, device', i, u, e)
              /\ u.slot = s => Matches(device', u)
  <2>1. CASE u.slot # s
    <3>1. device'[u.slot] = device[u.slot]  BY <1>6, <1>11, <2>1
    <3>. QED  BY <2>1, <3>1 DEF Found, Covered, Matches
  <2>2. CASE u.slot = s
    <3>1. u.of = t.of /\ u.version = 0  BY <1>5, <1>11, <2>2 DEF Tensor
    <3>2. Matches(device', u)  BY <1>6, <2>2, <3>1 DEF Matches
    <3>3. Matches(device, u) => device[u.slot].part \subseteq device'[u.slot].part
      BY <1>6, <2>2, <3>1 DEF Matches
    <3>. QED  BY <3>2, <3>3 DEF Found, Covered
  <2>. QED  BY <2>1, <2>2
<1>12. /\ DOMAIN Env' = DOMAIN Env
       /\ \A x \in DOMAIN Env :
            Env'[x] = IF Env[x].made = Env[Step.to].made THEN WithPart(Env[x], Step.part) ELSE Env[x]
  BY <1>3 DEF Env, Wrote, Alike
<1>13. ASSUME NEW x \in DOMAIN Env
       PROVE  /\ Env'[x].made = Env[x].made
              /\ tensor[x].slot # s => Env'[x] = Env[x]
              /\ tensor[x].slot = s => Env'[x].part = Env[x].part \cup Step.part /\ tensor[x] = t
  <2>1. tensor[x].slot = s <=> Env[x].made = Env[Step.to].made
    BY <1>1, <1>5 DEF Sketched, s, t
  <2>2. tensor[x].slot = s => tensor[x] = t  BY <1>1, Aliases DEF s, t
  <2>3. Env[x] \in Known  BY <1>1 DEF Sketched
  <2>. QED  BY <1>12, <2>1, <2>2, <2>3 DEF WithPart, Known
<1>14. Heard'
  <2>1. ASSUME NEW i \in 1 .. Len(ops), NEW u \in ops[i].reads
        PROVE  /\ Precedes(ops, i, u) /\ Found(ops, device', i, u)
               /\ \A e \in Elements(u.n) : Covered(ops, device', i, u, e)
               /\ \A x \in DOMAIN Env :
                    Env[x].made # 0 /\ tensor[x].slot = u.slot => u.of = tensor[x].of /\ u.version <= tensor[x].version
    <3>1. u \in Tensor /\ u.slot \in DOMAIN device /\ i \in Nat
      BY <1>1, OpSlots DEF Recorded
    <3>2. /\ Precedes(ops, i, u) /\ Found(ops, device, i, u)
          /\ \A e \in Elements(u.n) : Covered(ops, device, i, u, e)
          /\ \A x \in DOMAIN Env :
               Env[x].made # 0 /\ tensor[x].slot = u.slot => u.of = tensor[x].of /\ u.version <= tensor[x].version
      BY <1>1 DEF Heard
    <3>3. u.slot = s => u.of = t.of /\ u.version <= t.version
      BY <1>5, <3>2 DEF s, t
    <3>. QED  BY <1>11, <3>1, <3>2, <3>3
  <2>. QED  BY <1>2, <1>12, <1>13, <2>1 DEF Heard
<1>15. AllCurrent'
  <2>1. ASSUME NEW x \in DOMAIN Env, Env[x].made # 0 PROVE Current(x)'
    <3>. DEFINE u == tensor[x]
    <3>1. u \in Tensor /\ u.slot \in DOMAIN device /\ end \in Nat /\ Current(x)
      BY <1>1, <2>1 DEF Sketched, Named, Owned, Recorded, AllCurrent
    <3>2. /\ Precedes(ops, end, u)
          /\ device[u.slot].of = u.of => device[u.slot].version <= u.version
          /\ Env[x].written => Found(ops, device, end, u)
          /\ \A e \in Env[x].part : Covered(ops, device, end, u, e)
      BY <3>1 DEF Current
    <3>3. u.slot = s => u = t  BY <1>13
    <3>4. u.slot = s => u.of = t.of /\ u.version <= t.version  BY <1>5, <3>3
    <3>5. tensor'[x] = u /\ ops' = ops  BY <1>2
    <3>. HIDE DEF u, end
    <3>6. /\ Env[x].written => Found(ops, device', end, u)
          /\ \A e \in Env[x].part : Covered(ops, device', end, u, e)
          /\ u.slot = s => Matches(device', u)
      BY <1>11, <3>1, <3>2, <3>4
    <3>7. CASE u.slot # s
      <4>1. Env'[x] = Env[x] /\ device'[u.slot] = device[u.slot]  BY <1>6, <1>13, <3>1, <3>7 DEF u
      <4>. QED  BY <3>2, <3>5, <3>6, <4>1 DEF Current, end
    <3>8. CASE u.slot = s
      <4>1. Env'[x].part = Env[x].part \cup Step.part  BY <1>13, <3>8 DEF u
      <4>2. Matches(device', u) /\ device'[u.slot].version <= u.version
        BY <1>5, <1>6, <3>3, <3>6, <3>8
      <4>3. \A e \in Step.part : Covered(ops, device', end, u, e)
        BY <1>6, <3>8, <4>2 DEF Covered
      <4>4. Found(ops, device', end, u)  BY <4>2 DEF Found
      <4>. QED  BY <3>2, <3>5, <3>6, <4>1, <4>2, <4>3, <4>4 DEF Current, end
    <3>. QED  BY <3>7, <3>8
  <2>. QED  BY <1>12, <1>13, <2>1 DEF AllCurrent
<1>. QED  BY <1>8, <1>9, <1>10, <1>14, <1>15 DEF CInv

-----------------------------------------------------------------------------
(* Submissions *)

LEMMA SubmittedBeside ==
  ASSUME FInv, CInv, status = "running", Counters', Later, device' = Submitted, fixed' = fixed,
         \A x \in DOMAIN tensor' : tensor'[x].slot \in fixed => x \in DOMAIN tensor /\ tensor'[x] = tensor[x]
  PROVE  DeviceDated' /\ FixedWhole'
<1>1. /\ Counters /\ Owned /\ Named /\ Recorded /\ DeviceDated /\ FixedWhole /\ Ordered
  BY Going
<1>2. DOMAIN Submitted = DOMAIN device
  BY <1>1, SubmittedDomain DEF Recorded
<1>3. DeviceDated'
  <2>1. ASSUME NEW s \in DOMAIN device PROVE Dated(Submitted[s].of, Horizon') /\ Submitted[s].version \in Nat
    <3>1. CASE \A k \in 1 .. Len(ops) : ops[k].slot # s
      <4>1. Submitted[s] = device[s]  BY <1>1, <3>1, UntouchedThere
      <4>. QED  BY <1>1, <4>1, Aging DEF DeviceDated
    <3>2. CASE \E k \in 1 .. Len(ops) : ops[k].slot = s
      <4>1. Len(ops) + 1 \in 1 .. Len(ops) + 1 /\ (Len(ops) + 1) - 1 = Len(ops)  BY <1>1 DEF Recorded
      <4>2. Result(Submitted[s], Len(ops) + 1, s)  BY <1>1, <4>1, ResultAlways DEF Submitted
      <4>3. PICK k \in 1 .. Len(ops) : ops[k].slot = s /\ ops[k].version = Submitted[s].version
        BY <3>2, <4>1, <4>2 DEF Result
      <4>4. Submitted[s].of = ops[k].of  BY <4>1, <4>2, <4>3 DEF Result
      <4>5. Dated(ops[k].of, Horizon) /\ ops[k].version \in Nat  BY <1>1 DEF Ordered, Recorded
      <4>. QED  BY <1>1, <4>3, <4>4, <4>5, Aging
    <3>. QED  BY <3>1, <3>2
  <2>. QED  BY <1>2, <2>1 DEF DeviceDated
<1>4. FixedWhole'
  <2>1. ASSUME NEW x \in DOMAIN tensor, tensor[x].slot \in fixed
        PROVE  Submitted[tensor[x].slot] = device[tensor[x].slot]
    BY <1>1, <2>1, NotFixed, UntouchedThere DEF Owned
  <2>. QED  BY <1>1, <2>1 DEF FixedWhole, Matches
<1>. QED  BY <1>3, <1>4

LEMMA SubmittedReads ==
  ASSUME FInv, FInv', CInv, status = "running", Later, device' = Submitted, fixed' = fixed, ops' = <<>>,
         \A x \in DOMAIN tensor' : tensor'[x].slot \in fixed => x \in DOMAIN tensor /\ tensor'[x] = tensor[x],
         \A x \in DOMAIN Env' : Env'[x].made # 0 =>
           \E y \in DOMAIN Env : Env'[x] = Env[y] /\ tensor'[x] = tensor[y]
  PROVE  CInv'
<1>. DEFINE end == Len(ops) + 1
<1>1. /\ Counters /\ Owned /\ Named /\ Sketched /\ Recorded /\ Counters'
      /\ DeviceDated /\ FixedWhole /\ Ordered /\ Heard /\ AllCurrent
  BY Going DEF FInv
<1>2. DeviceDated' /\ FixedWhole'
  BY <1>1, SubmittedBeside
<1>3. Len(ops') = 0 /\ \A k \in 1 .. 0 : FALSE
  OBVIOUS
<1>4. Ordered' /\ Heard'
  BY <1>3 DEF Ordered, Heard
<1>5. end \in 1 .. Len(ops) + 1 /\ end - 1 = Len(ops) /\ Submitted = Before[end]
  BY <1>1 DEF Recorded, Submitted
<1>6. ASSUME NEW x \in DOMAIN Env', NEW y \in DOMAIN Env, Env'[x].made # 0, Env'[x] = Env[y], tensor'[x] = tensor[y]
      PROVE  Current(x)'
  <2>. DEFINE t == tensor[y]
  <2>1. t \in Tensor /\ t.slot \in DOMAIN device /\ Current(y)
    BY <1>1, <1>6 DEF Sketched, Named, Owned, AllCurrent
  <2>2. /\ Precedes(ops, end, t)
        /\ device[t.slot].of = t.of => device[t.slot].version <= t.version
        /\ Env[y].written => Found(ops, device, end, t)
        /\ \A e \in Env[y].part : Covered(ops, device, end, t, e)
    BY <2>1 DEF Current
  <2>3. tensor'[x] = t  BY <1>6
  <2>. HIDE DEF t, end
  <2>4. Env[y].written => Matches(Submitted, t)
    BY <1>1, <1>5, <2>1, <2>2, FoundThere
  <2>5. \A e \in Env[y].part : Matches(Submitted, t) /\ e \in Submitted[t.slot].part
    BY <1>1, <1>5, <2>1, <2>2, CoveredThere
  <2>6. Submitted[t.slot].of = t.of => Submitted[t.slot].version <= t.version
    <3>1. CASE \A k \in 1 .. Len(ops) : ops[k].slot # t.slot
      <4>1. Submitted[t.slot] = device[t.slot]  BY <1>1, <2>1, <3>1, UntouchedThere
      <4>. QED  BY <2>2, <4>1
    <3>2. CASE \E k \in 1 .. Len(ops) : ops[k].slot = t.slot
      <4>1. Result(Submitted[t.slot], end, t.slot)  BY <1>1, <1>5, <2>1, ResultAlways
      <4>2. PICK k \in 1 .. Len(ops) : ops[k].slot = t.slot /\ ops[k].version = Submitted[t.slot].version
        BY <1>5, <3>2, <4>1 DEF Result
      <4>. QED  BY <1>5, <2>2, <4>2 DEF Precedes
    <3>. QED  BY <3>1, <3>2
  <2>7. /\ Env[y].written => Found(<<>>, Submitted, 1, t)
        /\ \A e \in Env[y].part : Covered(<<>>, Submitted, 1, t, e)
    BY <2>4, <2>5 DEF Found, Covered
  <2>8. Precedes(<<>>, 1, t)
    <3>1. \A k \in 1 .. 1 - 1 : FALSE  OBVIOUS
    <3>. QED  BY <3>1 DEF Precedes
  <2>9. Len(ops') + 1 = 1  BY <1>3
  <2>. QED  BY <1>6, <2>3, <2>6, <2>7, <2>8, <2>9 DEF Current
<1>7. AllCurrent'
  BY <1>6 DEF AllCurrent
<1>. QED  BY <1>2, <1>4, <1>7 DEF CInv

LEMMA SubmitReads == ASSUME FInv, FInv', CInv, Follows, Submit PROVE CInv'
<1>. DEFINE keep == {tensor[x].slot : x \in Step.keep}
<1>1. /\ Sketched /\ Named /\ Owned /\ Recorded
      /\ status = "running" /\ Step.op = "flush" /\ \A x \in Step.keep : IsPooled(Env, x)
  BY Going DEF Submit, At, Follows, Allowed, Env
<1>2. Advance /\ Later /\ status' = "running"
  BY <1>1 DEF Submit, Advance, Later
<1>3. CASE ops = <<>> /\ Step.back = {}
  <2>1. /\ fixed' = fixed /\ tensor' = tensor /\ device' = device /\ ops' = ops
    BY <1>3 DEF Submit, memory
  <2>2. ~ sketch.open
    BY <1>1, <1>3 DEF Recorded
  <2>3. sketch' = sketch
    BY <1>1, <1>2, <1>3, <2>2 DEF Advance, After
  <2>4. Env' = Env
    BY <2>3 DEF Env
  <2>5. /\ \A x \in DOMAIN Env' : \E y \in DOMAIN Env : Env'[x] = Env[y] /\ tensor'[x] = tensor[y]
        /\ \A x \in DOMAIN tensor' : x \in DOMAIN tensor /\ tensor'[x] = tensor[x]
    BY <2>1, <2>4
  <2>. QED  BY <1>1, <1>2, <2>1, <2>5, NamesStay
<1>4. CASE ~ (ops = <<>> /\ Step.back = {})
  <2>1. device' = Submitted /\ ops' = <<>> /\ fixed' = fixed
    BY <1>4 DEF Submit
  <2>2. Release(keep)
    BY <1>4, Zenon DEF Submit
  <2>3. tensor' = Restrict(tensor, {x \in DOMAIN tensor : tensor[x].slot \in keep \cup fixed})
    BY <2>2 DEF Release
  <2>4. \A x \in DOMAIN tensor' : x \in DOMAIN tensor /\ tensor'[x] = tensor[x]
    BY <2>3 DEF Restrict
  <2>5. sketch.open \/ Step.back # {}
    BY <1>1, <1>4 DEF Recorded
  <2>6. sketch' = [env |-> Keeping(Env, Step.keep), open |-> FALSE]
    BY <1>1, <1>2, <2>5 DEF Advance, After, Env
  <2>7. \A y \in DOMAIN Env' : y \in DOMAIN Env /\ Env'[y] = Env[y]
    BY <2>6 DEF Env, Keeping, Restrict
  <2>8. DOMAIN Env' \subseteq DOMAIN tensor'
    <3>1. Sketched'  BY <1>2 DEF FInv
    <3>. QED  BY <3>1 DEF Sketched
  <2>9. \A x \in DOMAIN Env' : \E y \in DOMAIN Env : Env'[x] = Env[y] /\ tensor'[x] = tensor[y]
    BY <2>4, <2>7, <2>8
  <2>. HIDE DEF keep
  <2>. QED  BY <1>1, <1>2, <2>1, <2>4, <2>9, SubmittedReads
<1>. QED  BY <1>3, <1>4

LEMMA SubmitOneReads == ASSUME FInv, FInv', CInv, Follows, SubmitOne PROVE CInv'
<1>1. status = "running" /\ Step.op = "await" /\ Advance
  BY DEF SubmitOne, At
<1>2. fixed' = fixed /\ tensor' = tensor /\ device' = Submitted /\ ops' = <<>>
  BY DEF SubmitOne
<1>3. sketch' = [env |-> Env, open |-> FALSE]
  BY <1>1 DEF Advance, After, Env
<1>4. Env' = Env
  BY <1>3 DEF Env
<1>5. Later
  BY <1>1 DEF Advance, Later
<1>6. /\ \A x \in DOMAIN Env' : \E y \in DOMAIN Env : Env'[x] = Env[y] /\ tensor'[x] = tensor[y]
      /\ \A x \in DOMAIN tensor' : x \in DOMAIN tensor /\ tensor'[x] = tensor[x]
  BY <1>2, <1>4
<1>. QED  BY <1>1, <1>2, <1>5, <1>6, SubmittedReads

LEMMA DiscardReads == ASSUME Discard, status' # "running" PROVE CInv'
<1>1. DOMAIN device' = {} /\ DOMAIN tensor' = {}
  BY DEF Discard
<1>. QED  BY <1>1 DEF CInv, DeviceDated, FixedWhole

LEMMA FinishReads == ASSUME FInv, FInv', CInv, Finish PROVE CInv'
<1>1. status = "running" /\ status' # "running" /\ Counters' /\ Later
  BY DEF Finish, At, Later, FInv
<1>2. CASE Discard
  BY <1>1, <1>2, DiscardReads
<1>3. CASE device' = Submitted /\ Release({}) /\ UNCHANGED <<size, fixed>>
  <2>1. tensor' = Restrict(tensor, {x \in DOMAIN tensor : tensor[x].slot \in {} \cup fixed})
    BY <1>3 DEF Release
  <2>2. \A x \in DOMAIN tensor' : x \in DOMAIN tensor /\ tensor'[x] = tensor[x]
    BY <2>1 DEF Restrict
  <2>3. DeviceDated' /\ FixedWhole'
    BY <1>1, <1>3, <2>2, SubmittedBeside
  <2>. QED  BY <1>1, <2>3 DEF CInv
<1>. QED  BY <1>2, <1>3 DEF Finish

-----------------------------------------------------------------------------
(* Calls that reject, and the rest *)

(* A call that rejects leaves in the buffers beside the pool what was in   *)
(* them.                                                                   *)
LEMMA AbandonReads ==
  ASSUME FInv, FInv', CInv, NEW d, DOMAIN d = DOMAIN device,
         \A s \in DOMAIN device : d[s] = device[s] \/ (d[s] = Nothing /\ s \notin fixed),
         NEW uploaded, Reject(uploaded), Abandon(d)
  PROVE  CInv'
<1>1. status' # "running" /\ calls' = calls /\ Later
  BY DEF Reject, Later
<1>2. CASE Discard
  BY <1>1, <1>2, DiscardReads
<1>3. CASE device' = d /\ UNCHANGED <<size, pool, fixed, destroyed, tensor>>
  <2>1. Counters /\ Counters' /\ Owned /\ Named /\ DeviceDated /\ FixedWhole
    BY DEF FInv, CInv
  <2>2. DeviceDated'
    <3>1. Dated(<<0, 0>>, Horizon')  BY <1>1, <2>1, NothingDated, Aging
    <3>2. ASSUME NEW s \in DOMAIN device PROVE Dated(d[s].of, Horizon') /\ d[s].version \in Nat
      <4>1. CASE d[s] = device[s]  BY <1>1, <2>1, <4>1, Aging DEF DeviceDated
      <4>2. CASE d[s] = Nothing  BY <3>1, <4>2 DEF Nothing
      <4>. QED  BY <4>1, <4>2
    <3>. QED  BY <1>3, <3>2 DEF DeviceDated
  <2>3. FixedWhole'
    <3>1. \A s \in fixed : d[s] = device[s]  BY <2>1 DEF Owned
    <3>. QED  BY <1>3, <2>1, <3>1 DEF FixedWhole, Matches
  <2>. QED  BY <1>1, <2>2, <2>3 DEF CInv
<1>. QED  BY <1>2, <1>3 DEF Abandon

LEMMA UnreadReads == ASSUME FInv, FInv', CInv, Unread PROVE CInv'
BY AbandonReads DEF Unread

LEMMA PreloadFailsReads == ASSUME FInv, FInv', CInv, PreloadFails PROVE CInv'
BY AbandonReads DEF PreloadFails

LEMMA SubmitFailsReads == ASSUME FInv, FInv', CInv, SubmitFails PROVE CInv'
<1>1. status = "running" /\ Reject(resident) /\ Abandon(Lost)
  BY DEF SubmitFails, At
<1>2. Owned /\ Recorded
  BY <1>1, Going
<1>3. DOMAIN Lost = DOMAIN device
  BY <1>2, LostDomain
<1>4. \A s \in DOMAIN device : Lost[s] = device[s] \/ (Lost[s] = Nothing /\ s \notin fixed)
  BY <1>2, NotFixed DEF Lost, Recorded
<1>. QED  BY <1>1, <1>3, <1>4, AbandonReads

LEMMA RecordFailsReads == ASSUME FInv, FInv', CInv, RecordFails PROVE CInv'
<1>. DEFINE s == SlotFor(Step.n)
<1>1. /\ status' # "running" /\ Later
      /\ Counters /\ Counters' /\ Owned /\ Named /\ DeviceDated /\ FixedWhole
  BY DEF RecordFails, Reject, Later, FInv, CInv
<1>2. CASE Discard
  BY <1>1, <1>2, DiscardReads
<1>3. CASE /\ Lend(s, Step.n) /\ device' = Grown(device, s)
           /\ UNCHANGED <<fixed, destroyed, tensor>>
  <2>1. /\ \A k \in DOMAIN device : device'[k] = device[k]
        /\ s \notin DOMAIN device => device'[s] = Nothing
        /\ DOMAIN device' = DOMAIN device \cup {s}
    BY <1>1, <1>3, Lending
  <2>. HIDE DEF s
  <2>2. DeviceDated' /\ FixedWhole'
    BY <1>1, <1>3, <2>1, DeviceStays
  <2>. QED  BY <1>1, <2>2 DEF CInv
<1>. QED  BY <1>2, <1>3 DEF RecordFails

LEMMA CallReads == ASSUME FInv, FInv', CInv, Call PROVE CInv'
<1>1. /\ Counters /\ Counters' /\ Owned /\ Named /\ DeviceDated /\ FixedWhole /\ ops' = <<>> /\ sketch' = Start
  BY DEF FInv, CInv, Call, Counters
<1>2. /\ Later /\ device' = device /\ fixed' = fixed
      /\ tensor' = Restrict(tensor, {x \in DOMAIN tensor : tensor[x].slot \in fixed})
  BY DEF Call, Later
<1>3. \A x \in DOMAIN tensor' : x \in DOMAIN tensor /\ tensor'[x] = tensor[x]
  BY <1>2 DEF Restrict
<1>4. DeviceDated' /\ FixedWhole'
  BY <1>1, <1>2, <1>3, DeviceStays
<1>5. Len(ops') = 0 /\ (\A k \in 1 .. 0 : FALSE) /\ DOMAIN Env' = {}
  BY <1>1 DEF Env, Start
<1>6. Ordered' /\ Heard' /\ AllCurrent'
  BY <1>5 DEF Ordered, Heard, AllCurrent
<1>. QED  BY <1>4, <1>6 DEF CInv

LEMMA StayingReads ==
  ASSUME CInv, UNCHANGED <<model, calls, at, status, memory, ops, sketch>> PROVE CInv'
<1>1. /\ calls' = calls /\ at' = at /\ status' = status /\ ops' = ops /\ Env' = Env
      /\ fixed' = fixed /\ tensor' = tensor /\ device' = device /\ Horizon' = Horizon
  BY DEF memory, Env, Horizon
<1>2. DeviceDated' /\ FixedWhole'
  BY <1>1 DEF CInv, DeviceDated, FixedWhole
<1>3. status = "running" => Ordered' /\ Heard'
  BY <1>1 DEF CInv, Ordered, Heard
<1>4. status = "running" => AllCurrent'
  BY <1>1 DEF CInv, AllCurrent, Current
<1>. QED  BY <1>1, <1>2, <1>3, <1>4 DEF CInv

-----------------------------------------------------------------------------
LEMMA CInvInit == ASSUME Init PROVE CInv
BY DEF Init, CInv, DeviceDated, FixedWhole

LEMMA CInvNext == ASSUME FInv, CInv, Follows, [Next]_vars PROVE CInv'
<1>. FInv'  BY FInvNext
<1>1. CASE Call  BY <1>1, CallReads
<1>2. CASE TakeBuffer  BY <1>2, TakeBufferReads
<1>3. CASE WriteFromHost  BY <1>3, WriteFromHostReads
<1>4. CASE FixBuffer  BY <1>4, FixBufferReads
<1>5. CASE RecordInto
  <2>1. status' = "running" \/ Unread  BY <1>5 DEF RecordInto, Advance, At
  <2>. QED  BY <1>5, <2>1, RecordIntoReads, UnreadReads
<1>6. CASE Record
  <2>1. status' = "running" \/ Unread  BY <1>6 DEF Record, Advance, At
  <2>. QED  BY <1>6, <2>1, RecordReads, UnreadReads
<1>7. CASE RecordAgain
  <2>1. status' = "running" \/ Unread  BY <1>7 DEF RecordAgain, Advance, At
  <2>. QED  BY <1>7, <2>1, RecordAgainReads, UnreadReads
<1>8. CASE NameTensor  BY <1>8, NameTensorReads
<1>9. CASE RecycleBuffer  BY <1>9, RecycleBufferReads
<1>10. CASE Preload
  <2>1. status' = "running" \/ Unread  BY <1>10 DEF Preload, Advance, At
  <2>. QED  BY <1>10, <2>1, PreloadReads, UnreadReads
<1>11. CASE Submit  BY <1>11, SubmitReads
<1>12. CASE SubmitOne  BY <1>12, SubmitOneReads
<1>13. CASE Finish  BY <1>13, FinishReads
<1>14. CASE RecordFails  BY <1>14, RecordFailsReads
<1>15. CASE PreloadFails  BY <1>15, PreloadFailsReads
<1>16. CASE SubmitFails  BY <1>16, SubmitFailsReads
<1>17. CASE ReleaseWeights  BY <1>17, StayingReads DEF ReleaseWeights
<1>18. CASE Over  BY <1>18, StayingReads DEF Over, vars
<1>19. CASE UNCHANGED vars  BY <1>19, StayingReads DEF vars
<1>. QED  BY <1>1, <1>2, <1>3, <1>4, <1>5, <1>6, <1>7, <1>8, <1>9, <1>10, <1>11, <1>12, <1>13,
             <1>14, <1>15, <1>16, <1>17, <1>18, <1>19 DEF Next

LEMMA CInvAlways == Spec /\ []Follows => [](FInv /\ CInv)
<1>1. Init => CInv  BY CInvInit
<1>2. FInv /\ CInv /\ Follows /\ [Next]_vars => CInv'  BY CInvNext
<1>. QED  BY <1>1, <1>2, FInvAlways, PTL DEF Spec

(* What is submitted reads back variables that may be read.                *)
LEMMA BackReadable ==
  ASSUME Follows, Submits PROVE status = "running" /\ \A x \in Step.back : Readable(Env, x)
BY DEF Follows, Submits, Allowed, Env

(* Each dispatch finds in its inputs the tensor it was recorded to read,   *)
(* in its last version, and the host reads back the tensor it asked for.   *)
THEOREM ReplayIsRight == Spec /\ []Follows => []ReadsWhatWasMeant
<1>1. FInv /\ CInv /\ Follows => ReadsWhatWasMeant
  <2>. SUFFICES ASSUME FInv, CInv, Follows, Submits PROVE
         /\ \A i \in DOMAIN ops : \A t \in ops[i].reads :
              Before[i][t.slot].of = t.of /\ Before[i][t.slot].version = t.version
         /\ \A x \in Step.back :
              /\ Before[Len(ops) + 1][tensor[x].slot].of = tensor[x].of
              /\ Before[Len(ops) + 1][tensor[x].slot].version = tensor[x].version
    BY DEF ReadsWhatWasMeant
  <2>1. status = "running" /\ \A x \in Step.back : Readable(Env, x)
    BY BackReadable
  <2>2. DOMAIN ops = 1 .. Len(ops)
    BY <2>1 DEF FInv, Recorded
  <2>. QED  BY <2>1, <2>2, ReadsRight DEF Matches
<1>. QED  BY <1>1, CInvAlways, PTL

(* No dispatch reads an element nobody wrote, and neither does the host.   *)
THEOREM ReplayIsWhole == Spec /\ []Follows => []ReadsWhole
<1>1. FInv /\ CInv /\ Follows => ReadsWhole
  <2>. SUFFICES ASSUME FInv, CInv, Follows, Submits PROVE
         /\ \A i \in DOMAIN ops : \A t \in ops[i].reads : Elements(t.n) \subseteq Before[i][t.slot].part
         /\ \A x \in Step.back : Elements(tensor[x].n) \subseteq Before[Len(ops) + 1][tensor[x].slot].part
    BY DEF ReadsWhole
  <2>1. status = "running" /\ \A x \in Step.back : Readable(Env, x)
    BY BackReadable
  <2>2. DOMAIN ops = 1 .. Len(ops)
    BY <2>1 DEF FInv, Recorded
  <2>. QED  BY <2>1, <2>2, ReadsRight
<1>. QED  BY <1>1, CInvAlways, PTL
=============================================================================
