--------------------------- MODULE ResidentForward ---------------------------
(***************************************************************************)
(* What runs a recorded forward: the buffer pool of the resident models,   *)
(* the list of recorded work and its submission, the weights kept on the   *)
(* device, and the preloaded part of the weight source.  One behaviour is  *)
(* a few calls of one model's forward, each of which may fail where the    *)
(* code awaits the device or the source.                                   *)
(*                                                                         *)
(* Which of several equally large free buffers is taken makes no           *)
(* difference, so the halves of the pool are sets.  Uniform buffers are    *)
(* written when a dispatch is recorded and are not modelled: no two        *)
(* dispatches between two submits share one.                               *)
(***************************************************************************)
EXTENDS Discipline

CONSTANTS
  Forward,     \* Forward[m]: the programs of the calls of model m, in turn
  Policy,      \* Policy[m]: how it pools buffers, keeps weights and preloads them
  Model,       \* the forwards to run
  MaxCalls,    \* how many calls a behaviour makes
  MaxFaults    \* how many of them a fault strikes

(* How a model pools buffers, keeps weights and preloads them.             *)
(*   scope   the pool lives as long as the call, or as the object          *)
(*   class   what a request is rounded up to, or best: the smallest that   *)
(*           fits, as it is                                                *)
(*   budget  how much the free half may hold                               *)
(*   source  what the weight source does with a hit when it preloads, or   *)
(*           none: every weight is uploaded before the first call          *)
(*   limit   how many dense and how many packed tensors the source holds   *)
(*   packed  the tensors it keeps packed, as the device wants them         *)
(*   permutes  the tensors the page wants dense, permutes and keeps itself *)
(*   held    who keeps the weights on the device: the call, a generation   *)
(*           (which ends when a call fails) or the page                    *)
Pooling == [scope : {"call", "object"}, class : {"best", "grain", "power"}, grain : Nat \ {0},
            budget : Nat, source : {"none", "lru", "fifo"}, limit : [dense : Nat, packed : Nat],
            packed : SUBSET STRING, permutes : SUBSET STRING, held : {"call", "generation", "page"}]

(* The powers of two that stand for the classes of such a pool.            *)
Powers == {1, 2, 4, 8, 16, 32, 64, 128, 256}

(* What the steps of a program ask of the pool.                            *)
Requests(program) ==
  {program[i].n : i \in {i \in 1 .. Len(program) : program[i].op \in {"take", "into"}}}

(* The weights a step reads, those of a program, and those of a model.     *)
Needs(step) == IF step.op \in {"into", "write", "rewrite"} THEN step.weights ELSE {}

WeightsOf(program) == UNION {Needs(program[i]) : i \in 1 .. Len(program)}

AllWeights(m) == UNION {WeightsOf(Forward[m][k]) : k \in 1 .. Len(Forward[m])}

ASSUME ForwardAssumption ==
  /\ Model \subseteq DOMAIN Forward
  /\ \A m \in Model :
       /\ Len(Forward[m]) \in Nat \ {0} /\ Policy[m] \in Pooling
       /\ \A k \in 1 .. Len(Forward[m]) :
            /\ Len(Forward[m][k]) \in Nat \ {0}
            /\ Policy[m].class = "power" => Requests(Forward[m][k]) \subseteq 0 .. 256
  /\ MaxCalls \in Nat /\ MaxFaults \in Nat

(* A dispatch reads finitely many weights, and only a layer that has some, *)
(* none of them made on the host, is announced.                            *)
ASSUME WeightAssumption ==
  \A m \in Model : \A k \in 1 .. Len(Forward[m]) : \A i \in 1 .. Len(Forward[m][k]) :
    LET step == Forward[m][k][i]
    IN /\ IsFiniteSet(Needs(step))
       /\ step.op = "announce" => step.prefix \in {w[1] : w \in AllWeights(m)} \ {"#"}

VARIABLES
  model,      \* which forward this is
  calls,      \* calls begun
  at,         \* the next step of the current call
  status,     \* "idle", "running", "done" or "failed"
  size,       \* size[s]: how many elements buffer s has room for
  pool,       \* the free, the lent and the quarantined buffers
  fixed,      \* the buffers the pool never gave out
  destroyed,  \* the buffers that were destroyed
  tensor,     \* tensor[x]: what the variable x stands for
  device,     \* device[s]: what is in buffer s
  ops,        \* the recorded work
  resident,   \* the weights on the device
  warm,       \* a call has succeeded with these weights
  source,     \* source[k]: the preloaded weights of a kind, the next to be dropped first
  permuted,   \* the weights the page has permuted and keeps
  sketch,     \* history: what is known of the variables from the steps alone
  struck,     \* history: a fault struck this call
  faults      \* history: faults so far

memory == <<size, pool, fixed, destroyed, tensor, device>>

weights == <<resident, warm, source, permuted>>

vars == <<model, calls, at, status, memory, ops, weights, sketch, struck, faults>>

-----------------------------------------------------------------------------
policy == Policy[model]

Program == Forward[model][((calls - 1) % Len(Forward[model])) + 1]

Step == Program[at]

At(op) == status = "running" /\ Step.op = op

Advance ==
  /\ at' = at + 1 /\ sketch' = After(sketch, Step, at)
  /\ UNCHANGED <<model, calls, status, struck, faults>>

(* The content of a buffer: which tensor, rewritten how often, and which   *)
(* elements have been written since.                                       *)
Nothing == [of |-> <<0, 0>>, version |-> 0, part |-> {}]

(* A tensor made by this step, in buffer s.                                *)
Made(s, n) == [slot |-> s, of |-> <<calls, at>>, version |-> 0, n |-> n]

Bind(x, t) == [y \in DOMAIN tensor \cup {x} |-> IF y = x THEN t ELSE tensor[y]]

(* A new content of n elements in the buffer of t.                         *)
Again(t, n) == [t EXCEPT !.version = @ + 1, !.n = n]

(* Whatever stands for the tensor in the buffer of t stands for t.         *)
Renewed(t) == [x \in DOMAIN tensor |-> IF tensor[x].slot = t.slot THEN t ELSE tensor[x]]

-----------------------------------------------------------------------------
(* The pool *)

(* A request is rounded up to the pool's size class.                       *)
Class(n) ==
  CASE policy.class = "best" -> n
    [] policy.class = "grain" -> policy.grain * ((n + policy.grain - 1) \div policy.grain)
    [] policy.class = "power" -> Min({p \in Powers : p >= n})

(* The free buffers a request for n elements may get.                      *)
Fitting(n) ==
  LET large == {s \in pool.free : size[s] >= n}
  IN IF policy.class = "best"
       THEN {s \in large : \A t \in large : size[s] <= size[t]}
       ELSE {s \in large : size[s] = n}

(* take: the buffer a request gets, a new one when none fits.              *)
SlotFor(n) == IF Fitting(Class(n)) = {} THEN Len(size) + 1 ELSE Min(Fitting(Class(n)))

Lend(s, n) ==
  /\ pool' = [pool EXCEPT !.free = @ \ {s}, !.lent = @ \cup {s}]
  /\ size' = IF s > Len(size) THEN Append(size, Class(n)) ELSE size

Grown(d, s) == IF s > Len(d) THEN Append(d, Nothing) ELSE d

(* Mutant: a recycled buffer goes straight back to the free ones.          *)
Recycled_AtOnce(s) == [pool EXCEPT !.lent = @ \ {s}, !.free = @ \cup ({s} \cap pool.lent)]

(* recycle: no longer lent, and not free before the next release.          *)
Recycled(s) == [pool EXCEPT !.lent = @ \ {s}, !.quarantine = @ \cup ({s} \cap pool.lent)]

Bytes(S) == MapThenSumSet(LAMBDA s : size[s], S)

(* Mutant: the smallest buffers go first.                                  *)
Evicted_Short(free) ==
  {s \in free : Bytes({t \in free : size[t] < size[s]}) > policy.budget}

(* evictionPlan: the largest free buffers, one at a time until what is     *)
(* left fits the budget.                                                   *)
Evicted(free) ==
  {s \in free : Bytes({t \in free : size[t] < size[s] \/ (size[t] = size[s] /\ t <= s)})
                  > policy.budget}

(* Mutant: a buffer that is kept goes back to the free ones as well.       *)
Freed_Kept(keep) == pool.free \cup pool.lent \cup pool.quarantine

(* Mutant: what is in quarantine stays out of reach.                       *)
Freed_NoQuarantine(keep) == pool.free \cup (pool.lent \ keep)

(* The free buffers after release(keep), before eviction.  The code has    *)
(* lists: a mask that is kept beside the pool is pushed once more each     *)
(* time it is let go, and every entry counts towards the budget.  Here it  *)
(* is in the free half once.                                               *)
Freed(keep) == pool.free \cup (pool.lent \ keep) \cup pool.quarantine

(* release(keep).  A variable whose buffer was freed stands for nothing    *)
(* any more.                                                               *)
Release(keep) ==
  LET free == Freed(keep)
      gone == Evicted(free)
  IN /\ pool' = [free |-> free \ gone, lent |-> keep, quarantine |-> {}]
     /\ destroyed' = destroyed \cup gone
     /\ tensor' = Restrict(tensor, {x \in DOMAIN tensor : tensor[x].slot \in keep \cup fixed})

(* The call is over and so is its pool: every buffer is destroyed.         *)
Discard ==
  /\ size' = <<>> /\ device' = <<>>
  /\ pool' = [free |-> {}, lent |-> {}, quarantine |-> {}]
  /\ fixed' = {} /\ destroyed' = {} /\ tensor' = <<>>

-----------------------------------------------------------------------------
(* Weights *)

(* The elements of S, in the order they arrive.                            *)
Arrival(S) == FoldSet(LAMBDA w, s : Append(s, w), <<>>, S)

(* The tensors of a layer.                                                 *)
Manifest ==
  [m \in DOMAIN Forward |->
     LET all == AllWeights(m)
     IN [p \in {w[1] : w \in all} |-> Arrival({w \in all : w[1] = p})]]

Tensors(m, p) == Range(Manifest[m][p])

(* A weight made on the host, not read from the source.                    *)
IsMade(w) == w[1] = "#"

(* The caption's padding is on the device under a name of its own.         *)
OwnName(w) == w[2] # "#capPad"

(* The elements of s that are in S, in their order.                        *)
Chosen(s, S) ==
  LET chosen[i \in 0 .. Len(s)] ==
        IF i = 0 THEN <<>>
        ELSE IF s[i] \in S THEN Append(chosen[i - 1], s[i]) ELSE chosen[i - 1]
  IN chosen[Len(s)]

(* The last n of s.                                                        *)
LastOf(s, n) == IF Len(s) > n THEN SubSeq(s, Len(s) - n + 1, Len(s)) ELSE s

(* The source keeps packed and dense tensors apart.                        *)
Kinds == {"dense", "packed"}

Kind(m, w) == IF w[2] \in Policy[m].packed THEN "packed" ELSE "dense"

OfKind(m, S, k) == {w \in S : Kind(m, w) = k}

IsPermuted(w) == w[2] \in policy.permutes

(* Mutant: a hit is no use.                                                *)
Touched_Never(s, S) == s

(* What a cache holds after a use of the tensors in S: the source that     *)
(* counts uses moves them to the end.                                      *)
Touched(s, S) ==
  IF policy.source = "lru" THEN Chosen(s, Range(s) \ S) \o Chosen(s, S) ELSE s

(* The same when those of t have arrived, and there is room for n.         *)
Added(s, S, t, n) == LastOf(Touched(s, S) \o t, n)

(* The tensors of a layer that the source does not hold.                   *)
New(p, k) ==
  Chosen(Manifest[model][p], OfKind(model, Tensors(model, p), k) \ Range(source[k]))

(* Mutant: a cache is not bounded.                                         *)
Preloaded_Unbounded(p, lost) ==
  [k \in Kinds |-> source[k] \o Chosen(New(p, k), Tensors(model, p) \ lost)]

(* preload: what the source holds afterwards, when the tensors in lost     *)
(* could not be fetched.  Only the source that counts uses counts a hit as *)
(* one; the other leaves what it has at the end that is dropped first.     *)
Preloaded(p, lost) ==
  [k \in Kinds |-> Added(source[k], OfKind(model, Tensors(model, p), k),
                         Chosen(New(p, k), Tensors(model, p) \ lost), policy.limit[k])]

Holds(src, p) == Tensors(model, p) \subseteq UNION {Range(src[k]) : k \in Kinds}

(* Mutant: nothing is preloaded once any weight is on the device.          *)
Skips_AnyHeld(p) == resident # {}

(* The caller's hook does not preload when it knows the weights to be on   *)
(* the device: a call has succeeded with them, or one of this layer is     *)
(* held under its own name.                                                *)
Skips(p) ==
  IF policy.source = "fifo" THEN warm
  ELSE \E w \in resident : w[1] = p /\ OwnName(w)

(* The weights a dispatch needs that are not on the device, and those it   *)
(* asks the source for.                                                    *)
Missing(ws) == {w \in ws \ resident : ~ IsMade(w)}

Asked(ws) == {w \in Missing(ws) : policy.source # "none" /\ w \notin permuted}

(* packedQ8 and get: a packed tensor the page permutes is made dense.      *)
CanRead(ws) ==
  \A w \in Asked(ws) :
    w \in Range(source[Kind(model, w)]) \/ (IsPermuted(w) /\ w \in Range(source.dense))

(* What the source holds after these reads: a packed tensor is read in     *)
(* place, and one that is made dense enters the other cache.               *)
AfterRead(S) ==
  LET whole == {w \in S : Kind(model, w) = "dense" \/ IsPermuted(w)}
  IN [source EXCEPT !.dense = Added(@, whole, Arrival(whole \ Range(@)), policy.limit.dense)]

-----------------------------------------------------------------------------
(* What the recorded work does *)

(* The tensors the variables of S stand for.                               *)
Reads(S) == {tensor[x] : x \in S}

OpOn(t, part, from) ==
  [slot |-> t.slot, of |-> t.of, version |-> t.version, part |-> part, reads |-> Reads(from)]

Applied(d, op) ==
  LET had == d[op.slot]
      same == had.of = op.of /\ had.version = op.version
  IN [d EXCEPT ![op.slot] = [of |-> op.of, version |-> op.version,
                             part |-> IF same THEN had.part \cup op.part ELSE op.part]]

(* The device before op i of the recorded work.                            *)
Before[i \in 1 .. Len(ops) + 1] ==
  IF i = 1 THEN device ELSE Applied(Before[i - 1], ops[i - 1])

Submitted == Before[Len(ops) + 1]

(* What a submission that failed wrote is unknown.                         *)
Lost == [s \in DOMAIN device |-> IF \E i \in DOMAIN ops : ops[i].slot = s THEN Nothing ELSE device[s]]

-----------------------------------------------------------------------------
(* A call that rejects *)

(* Its recorded work is dropped; a pool of its own goes with it, and one   *)
(* of the object stays as it is.  What it uploaded stays if the page keeps *)
(* the weights.                                                            *)
Reject(uploaded) ==
  /\ status' = "failed" /\ at' = 0 /\ ops' = <<>> /\ sketch' = Start
  /\ warm' = FALSE /\ resident' = IF policy.held = "page" THEN uploaded ELSE {}
  /\ UNCHANGED <<model, calls>>

Abandon(d) ==
  IF policy.scope = "call"
    THEN Discard
    ELSE device' = d /\ UNCHANGED <<size, pool, fixed, destroyed, tensor>>

(* A weight is neither on the device nor in the source.                    *)
Unread == Reject(resident) /\ Abandon(device) /\ UNCHANGED <<source, permuted, struck, faults>>

-----------------------------------------------------------------------------
(* The steps of a call *)

(* preloadAll has been through the source that counts uses once.           *)
Opened ==
  [k \in Kinds |->
     IF policy.source = "lru"
       THEN LastOf(Arrival(OfKind(model, {w \in AllWeights(model) : ~ IsMade(w)}, k)), policy.limit[k])
       ELSE <<>>]

Init ==
  /\ model \in Model
  /\ calls = 0 /\ at = 0 /\ status = "idle"
  /\ size = <<>> /\ device = <<>> /\ tensor = <<>> /\ ops = <<>>
  /\ pool = [free |-> {}, lent |-> {}, quarantine |-> {}]
  /\ fixed = {} /\ destroyed = {}
  /\ resident = {} /\ warm = FALSE /\ source = Opened /\ permuted = {} /\ sketch = Start
  /\ struck = FALSE /\ faults = 0

(* A call begins.  What the variables of an earlier call stood for is out  *)
(* of reach; its buffers are not.                                          *)
Call ==
  /\ status # "running" /\ calls < MaxCalls
  /\ calls' = calls + 1 /\ at' = 1 /\ status' = "running" /\ struck' = FALSE
  /\ tensor' = Restrict(tensor, {x \in DOMAIN tensor : tensor[x].slot \in fixed})
  /\ UNCHANGED <<model, size, pool, fixed, destroyed, device, ops, weights, sketch, faults>>

TakeBuffer ==
  /\ At("take")
  /\ LET s == SlotFor(Step.n)
     IN /\ Lend(s, Step.n)
        /\ device' = Grown(device, s)
        /\ tensor' = Bind(Step.to, Made(s, Step.n))
  /\ Advance /\ UNCHANGED <<fixed, destroyed, ops, weights>>

(* The host writes now, before any of the recorded work runs.              *)
WriteFromHost ==
  /\ At("host")
  /\ device' = Applied(device, OpOn(tensor[Step.to], Step.part, {}))
  /\ Advance /\ UNCHANGED <<size, pool, fixed, destroyed, tensor, ops, weights>>

(* ensureMask: a buffer kept beside the pool, replaced when it is too      *)
(* small.                                                                  *)
FixBuffer ==
  /\ At("fix")
  /\ LET x == Step.to
         s == Len(size) + 1
     IN IF x \in DOMAIN tensor /\ tensor[x].n >= Step.n
          THEN UNCHANGED memory
          ELSE /\ size' = Append(size, Step.n)
               /\ device' = Append(device, [of |-> <<calls, at>>, version |-> 0,
                                            part |-> Elements(Step.n)])
               /\ tensor' = Bind(x, Made(s, Step.n))
               /\ fixed' = fixed \cup {s}
               /\ destroyed' = destroyed \cup {tensor[y].slot : y \in {x} \cap DOMAIN tensor}
               /\ UNCHANGED pool
  /\ Advance /\ UNCHANGED <<ops, weights>>

(* The weights that are not on the device are read and uploaded.           *)
Uploaded == IF policy.source = "none" THEN {} ELSE resident \cup Step.weights

ReadWeights ==
  LET asked == Asked(Step.weights)
  IN source' = AfterRead(asked) /\ permuted' = permuted \cup {w \in asked : IsPermuted(w)}

HoldWeights == resident' = Uploaded /\ ReadWeights /\ UNCHANGED warm

(* A buffer taken and one dispatch recorded that writes it.                *)
RecordInto ==
  /\ At("into")
  /\ LET s == SlotFor(Step.n)
         t == Made(s, Step.n)
     IN IF CanRead(Step.weights)
          THEN /\ Lend(s, Step.n)
               /\ device' = Grown(device, s)
               /\ tensor' = Bind(Step.to, t)
               /\ ops' = Append(ops, OpOn(t, Elements(Step.n), Step.from))
               /\ HoldWeights /\ Advance /\ UNCHANGED <<fixed, destroyed>>
          ELSE Unread

Record ==
  /\ At("write")
  /\ IF CanRead(Step.weights)
       THEN /\ ops' = Append(ops, OpOn(tensor[Step.to], Step.part, Step.from))
            /\ HoldWeights /\ Advance /\ UNCHANGED memory
       ELSE Unread

RecordAgain ==
  /\ At("rewrite")
  /\ LET t == Again(tensor[Step.to], Step.n)
     IN IF CanRead(Step.weights)
          THEN /\ ops' = Append(ops, OpOn(t, Step.part, Step.from))
               /\ tensor' = Renewed(t)
               /\ HoldWeights /\ Advance
               /\ UNCHANGED <<size, pool, fixed, destroyed, device>>
          ELSE Unread

NameTensor ==
  /\ At("name")
  /\ tensor' = Bind(Step.to, tensor[Step.from])
  /\ Advance /\ UNCHANGED <<size, pool, fixed, destroyed, device, ops, weights>>

RecycleBuffer ==
  /\ At("recycle")
  /\ LET s == tensor[Step.x].slot
     IN /\ pool' = Recycled(s)
        /\ tensor' = Restrict(tensor, {x \in DOMAIN tensor : tensor[x].slot # s})
  /\ Advance /\ UNCHANGED <<size, fixed, destroyed, device, ops, weights>>

(* The source that counts uses also looks whether it still holds what it   *)
(* was asked for, and throws when it does not.                             *)
Preload ==
  /\ At("announce")
  /\ LET p == Step.prefix
         held == IF Skips(p) THEN source ELSE Preloaded(p, {})
     IN IF policy.source = "fifo" \/ Skips(p) \/ Holds(held, p)
          THEN source' = held /\ Advance /\ UNCHANGED <<memory, ops, resident, warm, permuted>>
          ELSE Unread

(* flush(keep): nothing at all when there is nothing to submit or to read. *)
Submit ==
  /\ At("flush")
  /\ IF ops = <<>> /\ Step.back = {}
       THEN UNCHANGED <<memory, ops>>
       ELSE /\ device' = Submitted /\ ops' = <<>>
            /\ Release({tensor[x].slot : x \in Step.keep})
            /\ UNCHANGED <<size, fixed>>
  /\ Advance /\ UNCHANGED weights

(* A one-shot run: nothing of it stays on the device.                      *)
SubmitOne ==
  /\ At("await")
  /\ device' = Submitted /\ ops' = <<>>
  /\ Advance /\ UNCHANGED <<size, pool, fixed, destroyed, tensor, weights>>

(* The last submission of a call, with the result read back.               *)
Finish ==
  /\ At("readback")
  /\ ops' = <<>>
  /\ IF policy.scope = "call"
       THEN Discard
       ELSE device' = Submitted /\ Release({}) /\ UNCHANGED <<size, fixed>>
  /\ status' = "done" /\ at' = 0 /\ sketch' = Start
  /\ warm' = (policy.held # "call")
  /\ resident' = IF policy.held = "call" THEN {} ELSE resident
  /\ UNCHANGED <<model, calls, source, permuted, struck, faults>>

-----------------------------------------------------------------------------
(* Faults *)

Strike == faults < MaxFaults /\ faults' = faults + 1 /\ struck' = TRUE

(* The device refuses a pipeline, a bind group or a buffer; the buffer the *)
(* dispatch was to write has been taken, and its weights have been read    *)
(* unless that buffer was refused, and uploaded unless one of theirs was.  *)
(* To bound the instances, a fault strikes only dispatches that read a     *)
(* weight not read before.                                                 *)
RecordFails ==
  /\ At("into") /\ CanRead(Step.weights)
  /\ IF policy.source = "none" THEN Step.weights # {} ELSE Missing(Step.weights) # {}
  /\ Strike
  /\ \/ Reject(resident) /\ UNCHANGED <<source, permuted>>
     \/ (Reject(resident) \/ Reject(Uploaded)) /\ ReadWeights
  /\ IF policy.scope = "call"
       THEN Discard
       ELSE LET s == SlotFor(Step.n)
            IN Lend(s, Step.n) /\ device' = Grown(device, s) /\ UNCHANGED <<fixed, destroyed, tensor>>

(* One of a layer's tensors, the first or the last of its kind, cannot be  *)
(* fetched; the others arrive all the same.                                *)
PreloadFails ==
  /\ At("announce") /\ ~ Skips(Step.prefix)
  /\ \E k \in Kinds :
       LET new == New(Step.prefix, k)
       IN /\ new # <<>>
          /\ \E i \in {1, Len(new)} : source' = Preloaded(Step.prefix, {new[i]})
  /\ Strike /\ Reject(resident) /\ Abandon(device) /\ UNCHANGED permuted

SubmitFails ==
  /\ \/ At("flush") /\ (ops # <<>> \/ Step.back # {})
     \/ At("await") \/ At("readback")
  /\ Strike /\ Reject(resident) /\ Abandon(Lost) /\ UNCHANGED <<source, permuted>>

(* releaseAnimaWeights: between two generations.                           *)
ReleaseWeights ==
  /\ status = "done" /\ calls < MaxCalls /\ resident # {} /\ policy.held = "generation"
  /\ resident' = {} /\ warm' = FALSE
  /\ UNCHANGED <<model, calls, at, status, memory, ops, source, permuted, sketch, struck, faults>>

Over == calls = MaxCalls /\ status \in {"done", "failed"} /\ UNCHANGED vars

Next ==
  \/ Call \/ TakeBuffer \/ WriteFromHost \/ FixBuffer \/ RecordInto \/ Record \/ RecordAgain
  \/ NameTensor \/ RecycleBuffer \/ Preload \/ Submit \/ SubmitOne \/ Finish
  \/ RecordFails \/ PreloadFails \/ SubmitFails \/ ReleaseWeights \/ Over

Spec == Init /\ [][Next]_vars

-----------------------------------------------------------------------------
(* How a model asks for its weights: what the source that counts uses      *)
(* needs of its forwards.                                                  *)

Shapes(m) == {Forward[m][k] : k \in 1 .. Len(Forward[m])}

(* The steps of a program that announce layer p.                           *)
AnnouncedAt(program, p) ==
  {i \in 1 .. Len(program) : program[i].op = "announce" /\ program[i].prefix = p}

(* The steps that read a tensor of it.                                     *)
ReadAt(program, p) == {i \in 1 .. Len(program) : \E w \in Needs(program[i]) : w[1] = p}

(* The layers of the source.                                               *)
Layers(m) == {p \in DOMAIN Manifest[m] : p # "#"}

(* Every layer is announced once, before any of it is read, and then read  *)
(* whole; one kept under another name has no tensor under its own.         *)
AnnouncesOnce(m) ==
  \A program \in Shapes(m) : \A p \in Layers(m) :
    /\ \A i \in ReadAt(program, p) : \E j \in AnnouncedAt(program, p) : j < i
    /\ \A i, j \in AnnouncedAt(program, p) : i = j
    /\ \A w \in Tensors(m, p) : AnnouncedAt(program, p) # {} =>
         \E i \in ReadAt(program, p) : w \in Needs(program[i])
    /\ \A v, w \in Tensors(m, p) : OwnName(v) <=> OwnName(w)

(* What is kept under its own name and read before step i.                 *)
TakenBefore(program, i) ==
  {w \in UNION {Needs(program[b]) : b \in 1 .. i - 1} : ~ IsMade(w) /\ OwnName(w)}

Fronts(program) == {TakenBefore(program, i) : i \in 1 .. Len(program) + 1}

(* The calls of a model read their weights in one order, whatever their    *)
(* shape, and announce a layer at one point of it.                         *)
ReadsAlike(m) ==
  \A one, other \in Shapes(m) :
    /\ Fronts(one) = Fronts(other)
    /\ \A p \in Layers(m) : \A i \in AnnouncedAt(one, p), j \in AnnouncedAt(other, p) :
         TakenBefore(one, i) = TakenBefore(other, j)

(* All of layer q has been read when p is announced.                       *)
Past(m, q, p) ==
  LET own == {w \in Tensors(m, q) : OwnName(w)}
  IN own # {} /\ \E program \in Shapes(m) : \E i \in AnnouncedAt(program, p) :
                   own \subseteq TakenBefore(program, i)

(* The layers that are preloaded, or read from the source, between the     *)
(* preload of p and the last read of it: in one call, or in a later one    *)
(* after a failure between the two.                                        *)
Beside(m, p) ==
  {q \in Layers(m) :
     /\ \E program \in Shapes(m) : \E j \in AnnouncedAt(program, q) : \E i \in ReadAt(program, p) : j < i
     /\ ~ Past(m, q, p)}

BesideTensors(m, p) == UNION {Tensors(m, q) : q \in Beside(m, p)}

(* The source has room for them all, and none of them changes its kind.    *)
Fits(m) ==
  /\ Policy[m].permutes = {}
  /\ \A p \in Layers(m) : \A k \in Kinds :
       Cardinality(OfKind(m, BesideTensors(m, p), k)) <= Policy[m].limit[k]

WellPreloaded(m) ==
  /\ Policy[m].source = "none" =>
       \A program \in Shapes(m) : \A i \in 1 .. Len(program) : program[i].op # "announce"
  /\ Policy[m].source = "lru" => AnnouncesOnce(m) /\ ReadsAlike(m) /\ Fits(m)

(* A model of one program that keeps its pool over its calls gives every   *)
(* request a buffer of its class, asks no source that drops what it used,  *)
(* and does not reuse the name of what it keeps beside the pool.           *)
Repeats(m) ==
  Policy[m].scope = "object" /\ Len(Forward[m]) = 1 =>
    /\ Policy[m].class # "best" /\ Policy[m].source # "fifo"
    /\ \A i, j \in 1 .. Len(Forward[m][1]) :
         Forward[m][1][i].op = "fix" /\ Forward[m][1][j].op \in {"take", "into", "name"} =>
           Forward[m][1][i].to # Forward[m][1][j].to

TensorsOf(m, layers) == UNION {Tensors(m, q) : q \in layers}

(* The layers announced or read between the preload of p, at step i, and   *)
(* the last read of it.                                                    *)
Meanwhile(program, i, p) ==
  LET between == {j \in i .. Len(program) : \E r \in ReadAt(program, p) : j <= r}
  IN {program[j].prefix : j \in {j \in between : program[j].op = "announce"}}
       \cup {w[1] : w \in {w \in UNION {Needs(program[j]) : j \in between} : ~ IsMade(w)}}

(* The tensors of some layers that enter a cache of the source: those of   *)
(* its kind, and the permuted ones, which are made dense.                  *)
Entering(m, layers, k) ==
  {w \in TensorsOf(m, layers) : Kind(m, w) = k \/ (k = "dense" /\ w[2] \in Policy[m].permutes)}

(* The layers a program has announced before step i, and after p if it is  *)
(* one of them.                                                            *)
Since(program, i, p) ==
  {program[j].prefix : j \in
     {j \in 1 .. i - 1 : program[j].op = "announce" /\ \A b \in AnnouncedAt(program, p) : b < j \/ i <= b}}

(* What the source that does not count uses needs: a layer has room with   *)
(* all that enters a cache until it is read; and when it is announced      *)
(* again, by the same program or the one that comes next, so much of each  *)
(* of its kinds was announced in between that all of it has been dropped.  *)
TurnsOver(m) ==
  Policy[m].source = "fifo" =>
    /\ Policy[m].held = "call" \/ Len(Forward[m]) = 1
    /\ \A program \in Shapes(m) : \A p \in Layers(m) :
         /\ \A i \in ReadAt(program, p) : \E j \in AnnouncedAt(program, p) : j < i
         /\ \A i, j \in AnnouncedAt(program, p) : i = j
         /\ \A i \in AnnouncedAt(program, p) : \A k \in Kinds :
              Cardinality(Entering(m, Meanwhile(program, i, p), k)) <= Policy[m].limit[k]
    /\ \A l, k \in 1 .. Len(Forward[m]) : k = (l % Len(Forward[m])) + 1 =>
         \A p \in Layers(m) : \A i \in AnnouncedAt(Forward[m][k], p) : \A w \in Tensors(m, p) :
           Policy[m].limit[Kind(m, w)] <=
             Cardinality(OfKind(m, TensorsOf(m, Since(Forward[m][k], i, p)
                                                  \cup Since(Forward[m][l], Len(Forward[m][l]) + 1, p)),
                                Kind(m, w)))

-----------------------------------------------------------------------------
(* Properties *)

(* The next step of a forward follows the rules, and a forward reads its   *)
(* result in its last step, and only there.                                *)
Follows ==
  status = "running" =>
    /\ Allowed(sketch.env, Step)
    /\ Step.op = "readback" <=> at = Len(Program)

(* The video decoder keeps the mask it holds beside the pool across a      *)
(* submit.                                                                 *)
KeepsFixed ==
  \E i, j \in DOMAIN Program :
    Program[i].op = "fix" /\ Program[j].op = "flush" /\ Program[i].to \in Program[j].keep

(* The state is well-formed, the source never holds more than its limit,   *)
(* and what is recorded follows the rules, but for the mask.               *)
TypeOK ==
  /\ status \in {"idle", "running", "done", "failed"}
  /\ calls \in 0 .. MaxCalls /\ at \in 0 .. Len(Program)
  /\ Len(device) = Len(size)
  /\ pool.free \cup pool.lent \cup pool.quarantine \cup destroyed \subseteq DOMAIN size
  /\ \A x \in DOMAIN tensor : tensor[x].slot \in DOMAIN size
  /\ \A k \in Kinds : Len(source[k]) <= policy.limit[k]
  /\ Follows \/ KeepsFixed

(* The variables the next step reads or writes.                            *)
Uses(step) ==
  CASE step.op = "into"                 -> step.from
    [] step.op \in {"write", "rewrite"} -> {step.to} \cup step.from
    [] step.op = "host"                 -> {step.to}
    [] step.op = "name"                 -> {step.from}
    [] step.op = "recycle"              -> {step.x}
    [] step.op = "flush"                -> step.keep \cup step.back
    [] step.op = "readback"             -> step.back
    [] OTHER                            -> {}

Live(x) ==
  /\ x \in DOMAIN tensor
  /\ tensor[x].slot \in (pool.lent \cup fixed) \ destroyed

(* No forward touches a buffer it no longer owns: whatever a step names    *)
(* was not recycled, was kept by every flush since it was taken, and was   *)
(* not evicted.  The keep lists of the flushes and the recycles of the     *)
(* blocks are written by hand, far from the reads they must respect.       *)
ReadsLive == status = "running" => \A x \in Uses(Step) : Live(x)

Submits == status = "running" /\ Step.op \in {"flush", "await", "readback"}

(* Within one submission no buffer holds two tensors: a dispatch that      *)
(* writes what an earlier one of the same pass still reads is the hazard   *)
(* the decoders measured, and what the quarantine is for.                  *)
OneTensorPerBatch ==
  Submits => \A i, j \in DOMAIN ops : ops[i].slot = ops[j].slot => ops[i].of = ops[j].of

(* When the batch runs, each dispatch finds in its inputs the tensor it    *)
(* was recorded to read, in its last version, and the host reads back the  *)
(* tensor it asked for: no reused buffer, no host upload and no scratch    *)
(* shared by the head batches overtakes recorded work.                     *)
ReadsWhatWasMeant ==
  Submits =>
    LET before == Before
        meant(d, t) == d[t.slot].of = t.of /\ d[t.slot].version = t.version
    IN /\ \A i \in DOMAIN ops : \A t \in ops[i].reads : meant(before[i], t)
       /\ \A x \in Step.back : meant(before[Len(ops) + 1], tensor[x])

(* No dispatch reads an element nobody wrote, and neither does the host:   *)
(* the chunks, runs and head batches an operation is split into cover its  *)
(* output, including the shorter last one, and the parts of a tensor       *)
(* assembled from several sources leave no gap.                            *)
ReadsWhole ==
  Submits =>
    LET before == Before
        whole(d, t) == Elements(t.n) \subseteq d[t.slot].part
    IN /\ \A i \in DOMAIN ops : \A t \in ops[i].reads : whole(before[i], t)
       /\ \A x \in Step.back : whole(before[Len(ops) + 1], tensor[x])

(* A buffer of the pool is free, lent, quarantined or destroyed, and only  *)
(* one of these: none is handed out twice and none is lost, whatever call  *)
(* failed before.  The attention mask is not of the pool, though a decoder *)
(* keeps it across a submit as if it were: it is excepted here, and its    *)
(* repeated entries in the free list are not counted (Freed).              *)
PoolPartition ==
  LET halves == <<pool.free, pool.lent, pool.quarantine, destroyed>>
  IN /\ \A i, j \in 1 .. 4 : i # j => halves[i] \cap halves[j] \subseteq fixed
     /\ DOMAIN size \ fixed \subseteq UNION Range(halves)

(* After a call that resolves every buffer is back in the pool, and the    *)
(* pool holds no more than its budget.                                     *)
Settled ==
  status = "done" => pool.lent = {} /\ pool.quarantine = {} /\ Bytes(pool.free) <= policy.budget

(* A call rejects only because the device or the network failed during     *)
(* it: no earlier failure, and no weight left half-way on the device,      *)
(* makes a later call read a weight that nobody preloaded.  The source     *)
(* that does not count uses cannot promise this (PreloadHolds).            *)
FailsOnlyWhenStruck == status = "failed" /\ policy.source # "fifo" => struck

(* No call rejects before the device or the network has failed: whatever   *)
(* the source drops, it drops no weight a call still has to read.          *)
FailsOnlyAfterFault == status = "failed" => faults # 0

(* A preload that resolves leaves the whole layer in the source: none of   *)
(* its tensors drops one that was a hit.                                   *)
PreloadHolds ==
  [][ At("announce") /\ ~ Skips(Step.prefix) /\ status' = "running"
        => Holds(source', Step.prefix) ]_vars

(* Once a call has gone through, another of the same shape allocates no    *)
(* buffer, unless some were evicted: every buffer finds its way back,      *)
(* recycled or not.                                                        *)
SecondCallAllocatesNothing ==
  [][ (/\ policy.scope = "object" /\ Len(Forward[model]) = 1
       /\ calls >= 2 /\ faults' = 0 /\ destroyed = {})
        => size' = size ]_vars
=============================================================================
