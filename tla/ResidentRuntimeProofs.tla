----------------------- MODULE ResidentRuntimeProofs -----------------------
(***************************************************************************)
(* Theorems about ResidentRuntime, for any number of calls, any kernels    *)
(* and any number of refused buffers.                                      *)
(***************************************************************************)
EXTENDS ResidentRuntime, FiniteSetTheorems, SequenceTheorems, TLAPS

-----------------------------------------------------------------------------
(* The inductive invariant *)

(* What may make a call fail (FailsForCause).                              *)
Cause(c) ==
  \/ Invalid(Kernel(c)) \/ want[c].flaw # "none"
  \/ Buffers(c) \cap refused # {}
  \/ lost \/ (runtime = "node" /\ refused # {})

(* A call before it has created a buffer, while it waits for its bind      *)
(* groups, after its submission, and at the end.                           *)
CallInv(c) ==
  /\ call[c].kernel = Kernel(c)
  /\ call[c].pc \in {"idle", "compiling", "building", "built"} => held \cap Buffers(c) = {}
  /\ call[c].pc \in {"binding", "draining"} =>
       call[c].groups \in 1 .. 2 /\ Bound(c) \subseteq held /\ held \cap Staging(c) = {}
  /\ call[c].pc = "submitting" => runtime = "web"
  /\ call[c].pc \in {"submitting", "mapping"} =>
       call[c].ran \/ Staging(c) \cap refused # {} \/ want[c].flaw = "grid"
  /\ (call[c].pc = "mapping" /\ runtime \in {"node", "web"}) =>
       call[c].ran \/ Staging(c) \cap refused # {}
  /\ call[c].pc = "done" => call[c].ran \/ want[c].flaw \in Unchecked
  /\ call[c].pc = "failed" => Cause(c)
  /\ (call[c].pc = "failed" /\ call[c].groups = 0 /\ want[c].caller = "runner" /\ Resident) =>
       held \cap Buffers(c) = {}
  /\ (call[c].pc = "done" /\ want[c].caller = "runner") => held \cap Buffers(c) = {}

(* An unanswered scope knows its answer, and the call it stands for waits. *)
ScopeInv(s) ==
  /\ s.what = "pipeline" => call[s.of].pc = "building" /\ (s.bad <=> Invalid(Kernel(s.of)))
  /\ s.what = "submit" => call[s.of].pc = "submitting" /\ (s.bad <=> ~ call[s.of].ran)
  /\ (s.what \in {"in", "out", "staging"} /\ s.bad) => refused # {}
  /\ (s.what = "bind" /\ s.bad) => Cause(s.of)

ScopesInv == \A i \in 1 .. Len(scopes) : \E s \in ScopeState : s = scopes[i] /\ ScopeInv(s)

Single == {"pipeline", "submit"}

(* A call has one unanswered scope around a pipeline, or a submission.     *)
Once(q) ==
  \A i, j \in 1 .. Len(q) :
    (q[i].what \in Single /\ q[i].what = q[j].what /\ q[i].of = q[j].of) => i = j

FailureInv == failure => runtime = "node" /\ refused # {}

IInv ==
  /\ TypeOK /\ CacheIsValid /\ FailureInv
  /\ \A c \in Call : CallInv(c)
  /\ ScopesInv /\ Once(scopes)

-----------------------------------------------------------------------------
(* Buffers and scopes *)

(* What is left of the scopes after the oldest is answered.                *)
LEMMA TailScopes ==
  ASSUME NEW q \in Seq(ScopeState), q # <<>>, Once(q)
  PROVE  /\ Head(q) \in ScopeState /\ Head(q) = q[1] /\ Len(q) >= 1 /\ Len(q) \in Nat
         /\ Tail(q) \in Seq(ScopeState) /\ Once(Tail(q))
         /\ \A i \in 1 .. Len(Tail(q)) : /\ i + 1 \in 2 .. Len(q) /\ Tail(q)[i] = q[i + 1]
                                         /\ q[1].what \in Single =>
                                              ~ (q[i + 1].what = q[1].what /\ q[i + 1].of = q[1].of)
<1>1. Len(q) \in Nat /\ Len(q) >= 1 /\ Head(q) = q[1]  BY LenProperties, EmptySeq
<1>2. /\ Head(q) \in ScopeState /\ Tail(q) \in Seq(ScopeState) /\ Len(Tail(q)) = Len(q) - 1
      /\ \A i \in 1 .. Len(Tail(q)) : Tail(q)[i] = q[i + 1]
  BY HeadTailProperties
<1>3. \A i \in 1 .. Len(Tail(q)) : i + 1 \in 2 .. Len(q)  BY <1>1, <1>2
<1>4. Once(Tail(q))
  <2>. SUFFICES ASSUME NEW i \in 1 .. Len(Tail(q)), NEW j \in 1 .. Len(Tail(q)),
                       Tail(q)[i].what \in Single, Tail(q)[i].what = Tail(q)[j].what,
                       Tail(q)[i].of = Tail(q)[j].of
                PROVE  i = j
    BY DEF Once
  <2>1. i + 1 \in 1 .. Len(q) /\ j + 1 \in 1 .. Len(q)  BY <1>1, <1>2
  <2>2. i + 1 = j + 1  BY <1>2, <2>1 DEF Once
  <2>. QED  BY <2>2
<1>5. \A i \in 1 .. Len(Tail(q)) :
        q[1].what \in Single => ~ (q[i + 1].what = q[1].what /\ q[i + 1].of = q[1].of)
  <2>. SUFFICES ASSUME NEW i \in 1 .. Len(Tail(q)), q[1].what \in Single,
                       q[i + 1].what = q[1].what, q[i + 1].of = q[1].of
                PROVE  FALSE
    OBVIOUS
  <2>1. i + 1 \in 1 .. Len(q) /\ 1 \in 1 .. Len(q) /\ i + 1 # 1  BY <1>1, <1>2
  <2>. QED  BY <2>1 DEF Once
<1>. QED  BY <1>1, <1>2, <1>3, <1>4, <1>5

(* New scopes behind the old ones.                                         *)
LEMMA JoinScopes ==
  ASSUME NEW q \in Seq(ScopeState), NEW r \in Seq(ScopeState), Once(q), Once(r),
         \A i \in 1 .. Len(q), j \in 1 .. Len(r) :
           q[i].what \in Single => ~ (q[i].what = r[j].what /\ q[i].of = r[j].of)
  PROVE  /\ q \o r \in Seq(ScopeState) /\ Once(q \o r)
         /\ \A i \in 1 .. Len(q \o r) : \/ \E j \in 1 .. Len(q) : (q \o r)[i] = q[j]
                                        \/ \E j \in 1 .. Len(r) : (q \o r)[i] = r[j]
<1>1. Len(q) \in Nat /\ Len(r) \in Nat  BY LenProperties
<1>2. /\ q \o r \in Seq(ScopeState) /\ Len(q \o r) = Len(q) + Len(r)
      /\ \A i \in 1 .. Len(q) + Len(r) : (q \o r)[i] = IF i <= Len(q) THEN q[i] ELSE r[i - Len(q)]
  BY ConcatProperties
<1>3. \A i \in 1 .. Len(q \o r) :
        \/ i \in 1 .. Len(q) /\ (q \o r)[i] = q[i]
        \/ i - Len(q) \in 1 .. Len(r) /\ (q \o r)[i] = r[i - Len(q)]
  BY <1>1, <1>2
<1>4. Once(q \o r)
  <2>. SUFFICES ASSUME NEW i \in 1 .. Len(q \o r), NEW j \in 1 .. Len(q \o r),
                       (q \o r)[i].what \in Single, (q \o r)[i].what = (q \o r)[j].what,
                       (q \o r)[i].of = (q \o r)[j].of
                PROVE  i = j
    BY DEF Once
  <2>1. CASE i \in 1 .. Len(q) /\ (q \o r)[i] = q[i] /\ j \in 1 .. Len(q) /\ (q \o r)[j] = q[j]
    BY <2>1 DEF Once
  <2>2. CASE /\ i - Len(q) \in 1 .. Len(r) /\ (q \o r)[i] = r[i - Len(q)]
             /\ j - Len(q) \in 1 .. Len(r) /\ (q \o r)[j] = r[j - Len(q)]
    <3>1. i - Len(q) = j - Len(q)  BY <2>2 DEF Once
    <3>. QED  BY <1>1, <3>1
  <2>. QED  BY <1>3, <2>1, <2>2
<1>. QED  BY <1>2, <1>3, <1>4

(* The scopes around an allocation and around bind groups are scopes, and  *)
(* none of them is the only one of its kind a call has.                    *)
LEMMA ManyScopes ==
  ASSUME NEW q \in Seq(ScopeState), NEW r \in Seq(ScopeState), Once(q),
         \A j \in 1 .. Len(r) : r[j].what \notin Single
  PROVE  /\ q \o r \in Seq(ScopeState) /\ Once(q \o r)
         /\ \A i \in 1 .. Len(q \o r) : \/ \E j \in 1 .. Len(q) : (q \o r)[i] = q[j]
                                        \/ \E j \in 1 .. Len(r) : (q \o r)[i] = r[j]
<1>1. Once(r)  BY DEF Once
<1>. QED  BY <1>1, JoinScopes

(* One new scope behind the old ones.                                      *)
LEMMA OneScope ==
  ASSUME NEW q \in Seq(ScopeState), NEW s \in ScopeState, Once(q),
         \A i \in 1 .. Len(q) : q[i].what \in Single => ~ (q[i].what = s.what /\ q[i].of = s.of)
  PROVE  /\ Append(q, s) \in Seq(ScopeState) /\ Once(Append(q, s))
         /\ \A i \in 1 .. Len(Append(q, s)) : \/ \E j \in 1 .. Len(q) : Append(q, s)[i] = q[j]
                                              \/ Append(q, s)[i] = s
<1>1. /\ Len(q) \in Nat /\ Append(q, s) \in Seq(ScopeState) /\ Len(Append(q, s)) = Len(q) + 1
      /\ \A i \in 1 .. Len(q) : Append(q, s)[i] = q[i]
      /\ Append(q, s)[Len(q) + 1] = s
  BY AppendProperties, LenProperties
<1>2. \A i \in 1 .. Len(Append(q, s)) :
        (i \in 1 .. Len(q) /\ Append(q, s)[i] = q[i]) \/ (i = Len(q) + 1 /\ Append(q, s)[i] = s)
  BY <1>1
<1>3. Once(Append(q, s))
  BY <1>1, <1>2 DEF Once
<1>. QED  BY <1>1, <1>2, <1>3

(* The scopes around new buffers: only a refused buffer makes one bad.     *)
LEMMA AllocationScopesType ==
  ASSUME TypeOK, NEW c \in Call, NEW bad \in SUBSET Buffer,
         NEW names \in {<<"in", "out">>, <<"staging">>}
  PROVE  /\ AllocationScopes(c, names, bad) \in Seq(ScopeState)
         /\ \A j \in 1 .. Len(AllocationScopes(c, names, bad)) :
              /\ AllocationScopes(c, names, bad)[j].what \in {"in", "out", "staging"}
              /\ AllocationScopes(c, names, bad)[j].bad => bad # {}
<1>. DEFINE r == AllocationScopes(c, names, bad)
            n == IF names = <<"staging">> THEN 1 ELSE 2
            s(i) == Scope(names[i], c, <<c, names[i]>> \in bad)
<1>1. CASE runtime \notin {"node", "web"}
  <2>1. r = <<>>  BY <1>1 DEF AllocationScopes
  <2>. QED  BY <2>1, EmptySeq
<1>2. CASE runtime \in {"node", "web"}
  <2>1. 1 .. Len(names) = 1 .. n /\ n \in {1, 2}  OBVIOUS
  <2>2. \A i \in 1 .. n : names[i] \in {"in", "out", "staging"}  OBVIOUS
  <2>3. r = [i \in 1 .. n |-> s(i)]  BY <1>2, <2>1 DEF AllocationScopes
  <2>4. \A i \in 1 .. n : /\ s(i) \in ScopeState /\ s(i).what \in {"in", "out", "staging"}
                          /\ s(i).bad => bad # {}
    <3>. SUFFICES ASSUME NEW i \in 1 .. n, NEW w \in {"in", "out", "staging"}, w = names[i]
                  PROVE  /\ s(i) \in ScopeState /\ s(i).what \in {"in", "out", "staging"}
                         /\ s(i).bad => bad # {}
      BY <2>2
    <3>. DEFINE b == <<c, w>> \in bad
    <3>1. s(i) = [what |-> w, of |-> c, bad |-> b]  BY DEF Scope
    <3>2. b \in BOOLEAN /\ (b => bad # {})  OBVIOUS
    <3>. HIDE DEF b, s
    <3>. QED  BY <3>1, <3>2 DEF ScopeState
  <2>. HIDE DEF n, s
  <2>5. r \in Seq(ScopeState) /\ Len(r) = n  BY <2>1, <2>3, <2>4, IsASeq
  <2>6. \A j \in 1 .. n : r[j] = s(j)  BY <2>3
  <2>. HIDE DEF r
  <2>7. /\ r \in Seq(ScopeState)
        /\ \A j \in 1 .. Len(r) : r[j].what \in {"in", "out", "staging"} /\ (r[j].bad => bad # {})
    BY <2>4, <2>5, <2>6
  <2>. QED  BY <2>7 DEF r
<1>. QED  BY <1>1, <1>2

(* The scopes around a bind group: only a flaw or a refused buffer makes   *)
(* one bad.                                                                *)
LEMMA BindScopesType ==
  ASSUME TypeOK, NEW c \in Call, NEW n \in Nat, NEW bad \in SUBSET Buffer
  PROVE  /\ BindScopes(c, n, bad) \in Seq(ScopeState)
         /\ \A j \in 1 .. Len(BindScopes(c, n, bad)) :
              /\ BindScopes(c, n, bad)[j].what = "bind" /\ BindScopes(c, n, bad)[j].of = c
              /\ BindScopes(c, n, bad)[j].bad => want[c].flaw # "none" \/ bad \cap Bound(c) # {}
<1>. DEFINE r == BindScopes(c, n, bad)
            b == want[c].flaw = "binding" \/ bad \cap Bound(c) # {}
<1>1. r = [i \in 1 .. n |-> Scope("bind", c, b)]  BY DEF BindScopes
<1>2. b \in BOOLEAN /\ (b => want[c].flaw # "none" \/ bad \cap Bound(c) # {})  OBVIOUS
<1>. HIDE DEF b
<1>3. Scope("bind", c, b) \in ScopeState  BY <1>2 DEF Scope, ScopeState
<1>4. r \in Seq(ScopeState) /\ Len(r) = n  BY <1>1, <1>3, IsASeq
<1>5. \A j \in 1 .. n : r[j].what = "bind" /\ r[j].of = c /\ r[j].bad = b
  BY <1>1 DEF Scope
<1>. HIDE DEF r
<1>6. /\ r \in Seq(ScopeState)
      /\ \A j \in 1 .. Len(r) : /\ r[j].what = "bind" /\ r[j].of = c
                                /\ r[j].bad => want[c].flaw # "none" \/ bad \cap Bound(c) # {}
  BY <1>2, <1>4, <1>5
<1>. QED  BY <1>6 DEF r

-----------------------------------------------------------------------------
(* What a step of one call leaves of the others *)

(* The other calls keep their buffers, and every cause stays one.          *)
LEMMA OthersKeep ==
  ASSUME IInv, NEW c \in Call, UNCHANGED <<runtime, want>>,
         \A d \in Call \ {c} : call'[d] = call[d],
         \A b \in Buffer : b[1] # c => (b \in held' <=> b \in held),
         held' \subseteq Buffer, refused \subseteq refused', lost => lost',
         CallInv(c)'
  PROVE  \A d \in Call : CallInv(d)'
<1>. SUFFICES ASSUME NEW d \in Call, d # c  PROVE CallInv(d)'
  OBVIOUS
<1>1. CallInv(d) /\ call'[d] = call[d]  BY DEF IInv
<1>2. /\ held' \cap Buffers(d)' = held \cap Buffers(d)
      /\ held' \cap Staging(d)' = held \cap Staging(d)
      /\ Bound(d) \subseteq held => Bound(d)' \subseteq held'
  BY DEF Buffers, Bound, Staging, Buffer
<1>3. Cause(d) => Cause(d)'
  BY DEF Cause, Kernel, Invalid, Buffers, Bound, Staging
<1>4. Staging(d) \cap refused # {} => Staging(d)' \cap refused' # {}
  BY DEF Staging
<1>. QED  BY <1>1, <1>2, <1>3, <1>4 DEF CallInv, Kernel, Resident, Unchecked, Buffers, Bound, Staging

(* The unanswered scopes keep what they know, but for one that stands for  *)
(* the call itself.                                                        *)
LEMMA ScopesKeep ==
  ASSUME IInv, NEW c \in Call, UNCHANGED <<runtime, want>>,
         \A d \in Call \ {c} : call'[d] = call[d],
         refused \subseteq refused', lost => lost'
  PROVE  \A j \in 1 .. Len(scopes) :
           \E s \in ScopeState :
             s = scopes[j] /\ (ScopeInv(s)' \/ (s.what \in Single /\ s.of = c))
<1>. SUFFICES ASSUME NEW s \in ScopeState, ScopeInv(s), ~ (s.what \in Single /\ s.of = c)
              PROVE  ScopeInv(s)'
  BY DEF IInv, ScopesInv
<1>1. PICK d \in Call : d = s.of  BY DEF ScopeState
<1>2. Cause(d) => Cause(d)'
  BY DEF Cause, Kernel, Invalid, Buffers, Bound, Staging
<1>3. Kernel(d)' = Kernel(d)  BY DEF Kernel
<1>4. s.what \in Single => call'[d] = call[d]  BY <1>1
<1>5. (s.what = "bind" /\ s.bad) => Cause(d)'  BY <1>1, <1>2 DEF ScopeInv
<1>6. s.what = "pipeline" => call'[d].pc = "building" /\ (s.bad <=> Invalid(Kernel(d)'))
  BY <1>1, <1>3, <1>4 DEF ScopeInv, Single
<1>7. s.what = "submit" => call'[d].pc = "submitting" /\ (s.bad <=> ~ call'[d].ran)
  BY <1>1, <1>4 DEF ScopeInv, Single
<1>8. (s.what \in {"in", "out", "staging"} /\ s.bad) => refused' # {}  BY DEF ScopeInv
<1>. QED  BY <1>1, <1>5, <1>6, <1>7, <1>8 DEF ScopeInv, Invalid

(* A step of one call keeps the invariant if it keeps what is said of that *)
(* call, of the scopes it adds, of the buffers and of the caches.          *)
LEMMA OneCallStep ==
  ASSUME IInv, NEW c \in Call, UNCHANGED <<runtime, want>>,
         call' \in [Call -> CallState], \A d \in Call \ {c} : call'[d] = call[d], CallInv(c)',
         held' \subseteq Buffer, \A b \in Buffer : b[1] # c => (b \in held' <=> b \in held),
         refused \subseteq refused', refused' \subseteq Buffer, pending' \subseteq Buffer,
         lost' \in BOOLEAN, loss' \in BOOLEAN, lost => lost',
         failure' \in BOOLEAN, FailureInv',
         modules' \subseteq Code \ Broken, pipelines' \in [Code -> SUBSET Entry], CacheIsValid',
         scopes' \in Seq(ScopeState), Once(scopes'),
         \A i \in 1 .. Len(scopes') :
           \/ \E j \in 1 .. Len(scopes) :
                scopes'[i] = scopes[j] /\ ~ (scopes[j].what \in Single /\ scopes[j].of = c)
           \/ \E s \in ScopeState : s = scopes'[i] /\ ScopeInv(s)'
  PROVE  IInv'
<1>1. \A d \in Call : CallInv(d)'  BY OthersKeep
<1>2. ScopesInv'
  <2>. SUFFICES ASSUME NEW i \in 1 .. Len(scopes')
                PROVE  \E s \in ScopeState : s = scopes'[i] /\ ScopeInv(s)'
    BY DEF ScopesInv
  <2>1. \A j \in 1 .. Len(scopes) :
          \E s \in ScopeState : s = scopes[j] /\ (ScopeInv(s)' \/ (s.what \in Single /\ s.of = c))
    BY ScopesKeep
  <2>. QED  BY <2>1
<1>3. TypeOK'  BY DEF IInv, TypeOK
<1>4. Once(scopes)'  BY DEF Once
<1>. QED  BY <1>1, <1>2, <1>3, <1>4 DEF IInv

(* A call that is neither compiling a pipeline nor submitting has no scope *)
(* it is alone with.                                                       *)
LEMMA NoSingle ==
  ASSUME IInv, NEW c \in Call, call[c].pc \notin {"building", "submitting"}
  PROVE  \A j \in 1 .. Len(scopes) : ~ (scopes[j].what \in Single /\ scopes[j].of = c)
BY DEF IInv, ScopesInv, ScopeInv, Single

(* What the types say of one call.                                         *)
LEMMA CallFacts ==
  ASSUME TypeOK, NEW c \in Call
  PROVE  /\ call[c] \in CallState /\ call[c].groups \in 0 .. 2
         /\ want[c].code \in Code /\ want[c].entry \in Entry /\ want[c].flaw \in Flaw
         /\ want[c].caller \in {"runner", "round"}
         /\ Kernel(c) \in Code \X Entry
         /\ Bound(c) \subseteq Buffer /\ Staging(c) \subseteq Buffer
         /\ Buffers(c) = Bound(c) \cup Staging(c) /\ Buffers(c) \subseteq Buffer
         /\ \A b \in Buffers(c) : b[1] = c
         /\ Bound(c) \cap Staging(c) = {}
<1>1. want[c] \in [code : Code, entry : Entry, flaw : Flaw, caller : {"runner", "round"}]
  BY RuntimeAssumption DEF RuntimeAssumption, TypeOK
<1>2. call[c] \in CallState  BY DEF TypeOK
<1>3. call[c].groups \in 0 .. 2  BY <1>2 DEF CallState
<1>. QED  BY <1>1, <1>2, <1>3 DEF Kernel, Bound, Staging, Buffers, Buffer

-----------------------------------------------------------------------------
(* The steps *)

(* The record of a call after it has moved on.                             *)
LEMMA CallMoves ==
  ASSUME NEW k \in CallState, NEW n \in 0 .. 2,
         NEW p \in {"idle", "built"} \cup Waiting \cup Settled
  PROVE  [k EXCEPT !.pc = p, !.groups = n] \in CallState
<1>1. [k EXCEPT !.pc = p] \in CallState  BY DEF CallState
<1>2. ASSUME NEW m \in CallState PROVE [m EXCEPT !.groups = n] \in CallState
  BY <1>2 DEF CallState
<1>3. [k EXCEPT !.pc = p, !.groups = n] = [[k EXCEPT !.pc = p] EXCEPT !.groups = n]
  BY DEF CallState
<1>. QED  BY <1>1, <1>2, <1>3

(* A pipeline found in the cache is the one asked for.                     *)
LEMMA StepFindPipeline ==
  ASSUME IInv, NEW c \in Call, FindPipeline(c)
  PROVE  IInv'
<1>1. TypeOK /\ call[c] \in CallState /\ Kernel(c) \in Code \X Entry  BY CallFacts DEF IInv
<1>2. call[c].pc = "idle" /\ CallInv(c)  BY DEF FindPipeline, Begins, IInv
<1>3. PICK e \in Hit(c) :
        call' = [call EXCEPT ![c].pc = "built", ![c].kernel = <<want[c].code, e>>]
  BY DEF FindPipeline
<1>4. <<want[c].code, e>> = Kernel(c)  BY <1>3 DEF Hit, Kernel
<1>5. UNCHANGED <<runtime, want, modules, pipelines, held, refused, scopes, pending, failure, lost, loss>>
  BY DEF FindPipeline, caches, buffers, device
<1>. DEFINE r == [call[c] EXCEPT !.pc = "built", !.kernel = Kernel(c)]
<1>6. r \in CallState  BY <1>1 DEF CallState
<1>7. /\ call'[c] = r /\ \A d \in Call \ {c} : call'[d] = call[d]
      /\ call' \in [Call -> CallState]
  BY <1>1, <1>3, <1>4, <1>6 DEF TypeOK
<1>8. call'[c].pc = "built" /\ call'[c].kernel = Kernel(c)
  BY <1>1, <1>7 DEF CallState
<1>9. CallInv(c)'
  BY <1>2, <1>5, <1>8 DEF CallInv, Kernel, Buffers, Bound, Staging
<1>10. \A j \in 1 .. Len(scopes) : ~ (scopes[j].what \in Single /\ scopes[j].of = c)
  BY <1>2, NoSingle
<1>. QED
  BY <1>1, <1>5, <1>7, <1>9, <1>10, OneCallStep
  DEF IInv, TypeOK, CacheIsValid, FailureInv, Once

(* A call fails before its submission.                                     *)
LEMMA FailStep ==
  ASSUME IInv, NEW c \in Call, NEW why \in Why, call' = Failing(c, why), Cause(c),
         call[c].pc \in {"idle", "compiling", "building", "binding", "draining"},
         UNCHANGED <<runtime, want, pipelines, held, refused, pending, failure, lost, loss>>,
         modules' \subseteq Code \ Broken, scopes' \in Seq(ScopeState), Once(scopes'),
         \A i \in 1 .. Len(scopes') :
           \E j \in 1 .. Len(scopes) :
             scopes'[i] = scopes[j] /\ ~ (scopes[j].what \in Single /\ scopes[j].of = c)
  PROVE  IInv'
<1>. DEFINE r == [call[c] EXCEPT !.pc = "failed", !.why = why]
<1>1. TypeOK /\ call[c] \in CallState /\ CallInv(c)  BY CallFacts DEF IInv
<1>2. r \in CallState  BY <1>1 DEF CallState, Settled
<1>3. /\ call'[c] = r /\ \A d \in Call \ {c} : call'[d] = call[d]
      /\ call' \in [Call -> CallState]
  BY <1>1, <1>2 DEF TypeOK, Failing
<1>4. call'[c].pc = "failed" /\ call'[c].kernel = call[c].kernel /\ call'[c].groups = call[c].groups
  BY <1>1, <1>3 DEF CallState
<1>5. Cause(c)'  BY DEF Cause, Kernel, Invalid, Buffers, Bound, Staging
<1>6. CallInv(c)'
  BY <1>1, <1>4, <1>5 DEF CallInv, Kernel, Buffers, Bound, Staging, Resident
<1>. QED
  BY <1>1, <1>3, <1>6, OneCallStep DEF IInv, TypeOK, CacheIsValid, FailureInv

(* No call moves: the device, an answer about an allocation, or an answer  *)
(* nobody hears.                                                           *)
LEMMA NobodyStep ==
  ASSUME IInv,
         UNCHANGED <<runtime, want, call, modules, pipelines, held, refused, pending>>,
         lost' \in BOOLEAN, loss' \in BOOLEAN, lost => lost', failure' \in BOOLEAN, FailureInv',
         scopes' \in Seq(ScopeState), Once(scopes'),
         \A i \in 1 .. Len(scopes') : \E j \in 1 .. Len(scopes) : scopes'[i] = scopes[j]
  PROVE  IInv'
<1>1. \A d \in Call : Cause(d) => Cause(d)'
  BY DEF Cause, Kernel, Invalid, Buffers, Bound, Staging
<1>2. ASSUME NEW d \in Call PROVE CallInv(d)'
  BY <1>1 DEF IInv, CallInv, Kernel, Buffers, Bound, Staging, Resident, Unchecked
<1>3. ASSUME NEW s \in ScopeState, ScopeInv(s) PROVE ScopeInv(s)'
  BY <1>1, <1>3 DEF ScopeInv, ScopeState, Kernel, Invalid
<1>4. ScopesInv'  BY <1>3 DEF IInv, ScopesInv
<1>. QED
  BY <1>2, <1>4 DEF IInv, TypeOK, CacheIsValid, Once

(* A call that begins with getCompilationInfo changes only itself.         *)
LEMMA StepCompile ==
  ASSUME IInv, NEW c \in Call, Compile(c)
  PROVE  IInv'
<1>. DEFINE saw == pipelines[want[c].code] # {}
            r == [call[c] EXCEPT !.pc = "compiling", !.saw = saw]
<1>1. TypeOK /\ call[c] \in CallState /\ CallInv(c)  BY CallFacts DEF IInv
<1>2. call[c].pc = "idle" /\ call' = [call EXCEPT ![c].pc = "compiling", ![c].saw = saw]
  BY DEF Compile, Begins, Looked
<1>3. UNCHANGED <<runtime, want, modules, pipelines, held, refused, scopes, pending, failure, lost, loss>>
  BY DEF Compile, caches, buffers, device
<1>4. saw \in BOOLEAN  OBVIOUS
<1>. HIDE DEF saw
<1>5. r \in CallState  BY <1>1, <1>4 DEF CallState, Waiting
<1>6. /\ call'[c] = r /\ \A d \in Call \ {c} : call'[d] = call[d]
      /\ call' \in [Call -> CallState]
  BY <1>1, <1>2, <1>5 DEF TypeOK
<1>7. call'[c].pc = "compiling" /\ call'[c].kernel = call[c].kernel
  BY <1>1, <1>6 DEF CallState
<1>8. CallInv(c)'
  BY <1>1, <1>2, <1>3, <1>7 DEF CallInv, Kernel, Buffers, Bound, Staging
<1>9. \A j \in 1 .. Len(scopes) : ~ (scopes[j].what \in Single /\ scopes[j].of = c)
  BY <1>2, NoSingle
<1>. QED
  BY <1>1, <1>3, <1>6, <1>8, <1>9, OneCallStep
  DEF IInv, TypeOK, CacheIsValid, FailureInv, Once

(* A call asks for its pipeline.                                           *)
LEMMA BuildStep ==
  ASSUME IInv, NEW c \in Call, call[c].pc \in {"idle", "compiling"},
         call' \in [Call -> CallState], \A d \in Call \ {c} : call'[d] = call[d],
         call'[c].pc = "building", call'[c].kernel = call[c].kernel,
         scopes' = PipelineScope(c), modules' \subseteq Code \ Broken,
         UNCHANGED <<runtime, want, pipelines, held, refused, pending, failure, lost, loss>>
  PROVE  IInv'
<1>1. TypeOK /\ CallInv(c) /\ Once(scopes) /\ scopes \in Seq(ScopeState)  BY DEF IInv, TypeOK
<1>2. PICK b \in BOOLEAN : b = Invalid(Kernel(c))  BY DEF Invalid
<1>3. PICK s \in ScopeState : s = [what |-> "pipeline", of |-> c, bad |-> b]
  BY DEF ScopeState
<1>4. scopes' = Append(scopes, s)  BY <1>2, <1>3 DEF PipelineScope, Scope
<1>5. \A j \in 1 .. Len(scopes) : ~ (scopes[j].what \in Single /\ scopes[j].of = c)
  BY NoSingle
<1>6. /\ Append(scopes, s) \in Seq(ScopeState) /\ Once(Append(scopes, s))
      /\ \A i \in 1 .. Len(Append(scopes, s)) :
           (\E j \in 1 .. Len(scopes) : Append(scopes, s)[i] = scopes[j]) \/ Append(scopes, s)[i] = s
  BY <1>1, <1>3, <1>5, OneScope
<1>7. ScopeInv(s)'  BY <1>2, <1>3 DEF ScopeInv, Kernel, Invalid
<1>8. CallInv(c)'
  BY <1>1 DEF CallInv, Kernel, Buffers, Bound, Staging
<1>. HIDE DEF ScopeInv
<1>. QED
  BY <1>1, <1>4, <1>5, <1>6, <1>7, <1>8, OneCallStep
  DEF IInv, TypeOK, CacheIsValid, FailureInv

(* A call that finds its module opens one scope, around its pipeline.      *)
LEMMA StepFindModule ==
  ASSUME IInv, NEW c \in Call, FindModule(c)
  PROVE  IInv'
<1>. DEFINE saw == pipelines[want[c].code] # {}
            r == [call[c] EXCEPT !.pc = "building", !.saw = saw]
<1>1. TypeOK /\ call[c] \in CallState  BY CallFacts DEF IInv
<1>2. call[c].pc = "idle" /\ call' = [call EXCEPT ![c].pc = "building", ![c].saw = saw]
  BY DEF FindModule, Begins, Looked
<1>3. /\ UNCHANGED <<runtime, want, modules, pipelines, held, refused, pending, failure, lost, loss>>
      /\ scopes' = PipelineScope(c)
  BY DEF FindModule, caches, buffers, device
<1>4. saw \in BOOLEAN  OBVIOUS
<1>. HIDE DEF saw
<1>5. r \in CallState  BY <1>1, <1>4 DEF CallState, Waiting
<1>6. /\ call'[c] = r /\ \A d \in Call \ {c} : call'[d] = call[d]
      /\ call' \in [Call -> CallState]
  BY <1>1, <1>2, <1>5 DEF TypeOK
<1>7. call'[c].pc = "building" /\ call'[c].kernel = call[c].kernel
  BY <1>1, <1>6 DEF CallState
<1>. QED  BY <1>1, <1>2, <1>3, <1>6, <1>7, BuildStep DEF TypeOK

(* A one-shot runner creates its buffers and asks for its bind group.      *)
LEMMA BindAtOnceStep ==
  ASSUME IInv, NEW c \in Call, call[c].pc \in {"idle", "compiling"}, BindAtOnce(c),
         modules' \subseteq Code \ Broken,
         UNCHANGED <<runtime, want, pipelines, pending, failure, lost, loss>>
  PROVE  IInv'
<1>1. /\ TypeOK /\ call[c] \in CallState /\ CallInv(c)
      /\ Once(scopes) /\ scopes \in Seq(ScopeState) /\ held \subseteq Buffer
  BY CallFacts DEF IInv, TypeOK
<1>2. \A j \in 1 .. Len(scopes) : ~ (scopes[j].what \in Single /\ scopes[j].of = c)
  BY NoSingle
<1>3. CASE ChecksTypes /\ want[c].flaw = "type"
  <2>1. call' = Failing(c, "type") /\ UNCHANGED <<held, refused, scopes>>
    BY <1>3 DEF BindAtOnce, buffers
  <2>2. Cause(c) /\ "type" \in Why  BY <1>3 DEF Cause, Why
  <2>3. Once(scopes') /\ scopes' \in Seq(ScopeState)
    BY <1>1, <2>1 DEF Once
  <2>. QED  BY <1>1, <1>2, <2>1, <2>2, <2>3, FailStep
<1>4. CASE ~ (ChecksTypes /\ want[c].flaw = "type")
  <2>. DEFINE r == [call[c] EXCEPT !.pc = "binding", !.groups = 1]
  <2>1. PICK bad \in Refusable(Bound(c)) :
          /\ Create(Bound(c), bad)
          /\ call' = [call EXCEPT ![c].pc = "binding", ![c].groups = 1]
          /\ scopes' = Append(scopes, Scope("bind", c, \/ Invalid(Kernel(c)) \/ bad # {}
                                                       \/ want[c].flaw = "binding"))
    BY <1>4 DEF BindAtOnce
  <2>2. r \in CallState
    <3>1. 1 \in 0 .. 2 /\ "binding" \in {"idle", "built"} \cup Waiting \cup Settled  BY DEF Waiting
    <3>. QED  BY <1>1, <3>1, CallMoves
  <2>3. /\ call'[c] = r /\ \A d \in Call \ {c} : call'[d] = call[d]
        /\ call' \in [Call -> CallState]
    BY <1>1, <2>1, <2>2 DEF TypeOK
  <2>4. call'[c].pc = "binding" /\ call'[c].kernel = call[c].kernel /\ call'[c].groups = 1
    BY <1>1, <2>3 DEF CallState
  <2>5. bad \subseteq Bound(c) /\ Bound(c) \subseteq Buffer /\ bad \subseteq Buffers(c)
    BY <1>1, <2>1, CallFacts DEF Refusable
  <2>6. /\ held' = held \cup Bound(c) /\ refused' = refused \cup bad
        /\ held \cap Buffers(c) = {} /\ held \cap Bound(c) = {}
    BY <1>1, <2>1, CallFacts DEF Create, CallInv
  <2>7. CallInv(c)'
    <3>1. Bound(c) \subseteq held' /\ held' \cap Staging(c) = {}
      BY <1>1, <2>6, CallFacts
    <3>. QED  BY <1>1, <2>4, <3>1 DEF CallInv, Kernel, Bound, Staging
  <2>8. PICK b \in BOOLEAN : b = (Invalid(Kernel(c)) \/ bad # {} \/ want[c].flaw = "binding")
    OBVIOUS
  <2>9. PICK s \in ScopeState : s = [what |-> "bind", of |-> c, bad |-> b]
    BY DEF ScopeState
  <2>10. scopes' = Append(scopes, s)  BY <2>1, <2>8, <2>9 DEF Scope
  <2>11. b => Cause(c)'
    BY <2>5, <2>6, <2>8 DEF Cause, Kernel, Invalid, Buffers, Bound, Staging
  <2>12. ScopeInv(s)'  BY <2>9, <2>11 DEF ScopeInv
  <2>13. /\ Append(scopes, s) \in Seq(ScopeState) /\ Once(Append(scopes, s))
         /\ \A i \in 1 .. Len(Append(scopes, s)) :
              (\E j \in 1 .. Len(scopes) : Append(scopes, s)[i] = scopes[j]) \/ Append(scopes, s)[i] = s
    BY <1>1, <1>2, <2>9, OneScope
  <2>14. \A x \in Buffer : x[1] # c => (x \in held' <=> x \in held)
    BY <1>1, <2>6, CallFacts DEF Bound
  <2>15. held' \subseteq Buffer /\ refused' \subseteq Buffer /\ refused \subseteq refused'
    BY <1>1, <2>5, <2>6 DEF TypeOK
  <2>16. failure' \in BOOLEAN /\ FailureInv'  BY <2>6 DEF IInv, TypeOK, FailureInv
  <2>. QED
    BY <1>1, <1>2, <2>3, <2>7, <2>10, <2>12, <2>13, <2>14, <2>15, <2>16, OneCallStep
    DEF IInv, TypeOK, CacheIsValid
<1>. QED  BY <1>3, <1>4

(* A one-shot runner that finds its module binds in the same step.         *)
LEMMA StepFindModuleAndBind ==
  ASSUME IInv, NEW c \in Call, FindModuleAndBind(c)
  PROVE  IInv'
<1>1. /\ call[c].pc = "idle" /\ BindAtOnce(c)
      /\ UNCHANGED <<runtime, want, modules, pipelines, pending, failure, lost, loss>>
  BY DEF FindModuleAndBind, Begins, caches, device
<1>. QED  BY <1>1, BindAtOnceStep DEF IInv, TypeOK

(* A module is cached only if it compiles, whoever else compiles it.       *)
LEMMA StepCompiled ==
  ASSUME IInv, NEW c \in Call, Compiled(c)
  PROVE  IInv'
<1>1. TypeOK /\ call[c] \in CallState /\ want[c].code \in Code  BY CallFacts DEF IInv
<1>2. /\ call[c].pc = "compiling"
      /\ UNCHANGED <<runtime, want, pipelines, pending, failure, lost, loss>>
  BY DEF Compiled, device
<1>3. modules' \subseteq Code \ Broken
  BY <1>1 DEF Compiled, ModulesWith, TypeOK
<1>4. CASE /\ lost \/ want[c].code \in Broken
           /\ call' = Failing(c, IF lost THEN Dropped ELSE "shader")
           /\ UNCHANGED <<buffers, scopes>>
  <2>1. PICK why \in Why : call' = Failing(c, why)
    BY <1>4 DEF Dropped, Why
  <2>2. Cause(c)  BY <1>4 DEF Cause, Invalid, Kernel
  <2>3. UNCHANGED <<held, refused, scopes>>  BY <1>4 DEF buffers
  <2>4. \A j \in 1 .. Len(scopes) : ~ (scopes[j].what \in Single /\ scopes[j].of = c)
    BY <1>2, NoSingle
  <2>5. Once(scopes') /\ scopes' \in Seq(ScopeState)  BY <2>3 DEF IInv, TypeOK, Once
  <2>. QED  BY <1>2, <1>3, <2>1, <2>2, <2>3, <2>4, <2>5, FailStep
<1>5. CASE call' = Moved(c, "building") /\ scopes' = PipelineScope(c) /\ UNCHANGED buffers
  <2>. DEFINE r == [call[c] EXCEPT !.pc = "building"]
  <2>1. r \in CallState  BY <1>1 DEF CallState, Waiting
  <2>2. /\ call'[c] = r /\ \A d \in Call \ {c} : call'[d] = call[d]
        /\ call' \in [Call -> CallState]
    BY <1>1, <1>5, <2>1 DEF TypeOK, Moved
  <2>3. call'[c].pc = "building" /\ call'[c].kernel = call[c].kernel
    BY <1>1, <2>2 DEF CallState
  <2>. QED  BY <1>2, <1>3, <1>5, <2>2, <2>3, BuildStep DEF buffers
<1>6. CASE BindAtOnce(c)
  BY <1>2, <1>3, <1>6, BindAtOnceStep
<1>. QED  BY <1>4, <1>5, <1>6 DEF Compiled

(* A pipeline is cached only if its scope caught nothing.                  *)
LEMMA StepPipelineAnswered ==
  ASSUME IInv, PipelineAnswered
  PROVE  IInv'
<1>1. /\ scopes # <<>> /\ Head(scopes).what = "pipeline" /\ scopes' = Tail(scopes)
      /\ UNCHANGED <<runtime, want, modules, held, refused, pending, failure, lost, loss>>
  BY DEF PipelineAnswered, Answers, buffers, device
<1>2. TypeOK /\ scopes \in Seq(ScopeState) /\ Once(scopes) /\ CacheIsValid  BY DEF IInv, TypeOK
<1>3. PICK s \in ScopeState : s = Head(scopes) /\ s = scopes[1] /\ ScopeInv(s)
  BY <1>1, <1>2, TailScopes DEF IInv, ScopesInv
<1>4. PICK c \in Call : c = s.of  BY DEF ScopeState
<1>5. /\ CallInv(c) /\ call[c] \in CallState /\ Kernel(c) \in Code \X Entry
      /\ want[c].code \in Code /\ want[c].entry \in Entry
  BY <1>2, CallFacts DEF IInv
<1>6. s.what = "pipeline" /\ call[c].pc = "building" /\ (s.bad <=> Invalid(Kernel(c)))
  BY <1>1, <1>3, <1>4 DEF ScopeInv
<1>7. /\ pipelines' = IF Remembers(s) THEN PipelinesWith(c) ELSE pipelines
      /\ call' = IF lost THEN Failing(c, Dropped)
                 ELSE IF s.bad THEN Failing(c, "pipeline")
                 ELSE [call EXCEPT ![c].pc = "built", ![c].kernel = Kernel(c)]
  BY <1>3, <1>4 DEF PipelineAnswered
<1>8. /\ scopes' \in Seq(ScopeState) /\ Once(scopes')
      /\ \A i \in 1 .. Len(scopes') :
           \E j \in 1 .. Len(scopes) :
             scopes'[i] = scopes[j] /\ ~ (scopes[j].what \in Single /\ scopes[j].of = c)
  <2>1. scopes' \in Seq(ScopeState) /\ Once(scopes')  BY <1>1, <1>2, TailScopes
  <2>2. ASSUME NEW i \in 1 .. Len(scopes')
        PROVE  \E j \in 1 .. Len(scopes) :
                 scopes'[i] = scopes[j] /\ ~ (scopes[j].what \in Single /\ scopes[j].of = c)
    <3>1. /\ i + 1 \in 1 .. Len(scopes) /\ scopes'[i] = scopes[i + 1]
          /\ ~ (scopes[i + 1].what = "pipeline" /\ scopes[i + 1].of = c)
      BY <1>1, <1>2, <1>3, <1>4, <1>6, TailScopes DEF Single
    <3>2. ~ (scopes[i + 1].what = "submit" /\ scopes[i + 1].of = c)
      BY <1>6, <3>1 DEF IInv, ScopesInv, ScopeInv
    <3>. QED  BY <3>1, <3>2 DEF Single
  <2>. QED  BY <2>1, <2>2
<1>9. CASE lost \/ s.bad
  <2>1. PICK why \in Why : call' = Failing(c, why)  BY <1>7, <1>9 DEF Dropped, Why
  <2>2. Cause(c)  BY <1>6, <1>9 DEF Cause
  <2>3. UNCHANGED pipelines  BY <1>7, <1>9 DEF Remembers
  <2>4. modules' \subseteq Code \ Broken  BY <1>1, <1>2 DEF TypeOK
  <2>. QED  BY <1>1, <1>6, <1>8, <2>1, <2>2, <2>3, <2>4, FailStep
<1>10. CASE ~ lost /\ ~ s.bad
  <2>. DEFINE r == [call[c] EXCEPT !.pc = "built", !.kernel = Kernel(c)]
  <2>1. r \in CallState  BY <1>5 DEF CallState
  <2>2. /\ call'[c] = r /\ \A d \in Call \ {c} : call'[d] = call[d]
        /\ call' \in [Call -> CallState]
    BY <1>2, <1>7, <1>10, <2>1 DEF TypeOK
  <2>3. call'[c].pc = "built" /\ call'[c].kernel = Kernel(c)  BY <1>5, <2>2 DEF CallState
  <2>4. pipelines' = [pipelines EXCEPT ![want[c].code] = @ \cup {want[c].entry}]
    BY <1>7, <1>10 DEF Remembers, PipelinesWith
  <2>5. pipelines' \in [Code -> SUBSET Entry]  BY <1>2, <1>5, <2>4 DEF TypeOK
  <2>6. CacheIsValid'
    <3>. SUFFICES ASSUME NEW t \in Code, NEW e \in Entry, e \in pipelines'[t], e \notin pipelines[t]
                  PROVE  ~ Invalid(<<t, e>>)
      BY <1>2 DEF CacheIsValid, Invalid
    <3>1. t = want[c].code /\ e = want[c].entry  BY <1>2, <2>4 DEF TypeOK
    <3>. QED  BY <1>6, <1>10, <3>1 DEF Kernel
  <2>7. CallInv(c)'
    BY <1>1, <1>5, <1>6, <2>3 DEF CallInv, Kernel, Buffers, Bound, Staging
  <2>. QED
    BY <1>1, <1>2, <1>8, <2>2, <2>5, <2>6, <2>7, OneCallStep
    DEF IInv, TypeOK, FailureInv
<1>. QED  BY <1>9, <1>10

(* A failure is noted only of a buffer that was refused.                   *)
LEMMA StepAllocationAnswered ==
  ASSUME IInv, AllocationAnswered
  PROVE  IInv'
<1>1. /\ scopes # <<>> /\ Head(scopes).what \in {"in", "out", "staging"} /\ scopes' = Tail(scopes)
      /\ failure' = IF runtime = "node" THEN Noted(Head(scopes)) ELSE failure
      /\ UNCHANGED <<runtime, want, call, modules, pipelines, held, refused, pending, lost, loss>>
  BY DEF AllocationAnswered, Answers, caches, buffers, device
<1>2. scopes \in Seq(ScopeState) /\ Once(scopes) /\ FailureInv /\ failure \in BOOLEAN /\ lost \in BOOLEAN
      /\ loss \in BOOLEAN
  BY DEF IInv, TypeOK
<1>3. PICK s \in ScopeState : s = Head(scopes) /\ ScopeInv(s)
  BY <1>1, <1>2, TailScopes DEF IInv, ScopesInv
<1>4. failure' \in BOOLEAN /\ FailureInv'
  BY <1>1, <1>2, <1>3 DEF Noted, FailureInv, ScopeInv, ScopeState
<1>5. /\ scopes' \in Seq(ScopeState) /\ Once(scopes')
      /\ \A i \in 1 .. Len(scopes') : \E j \in 1 .. Len(scopes) : scopes'[i] = scopes[j]
  BY <1>1, <1>2, TailScopes
<1>. QED  BY <1>1, <1>2, <1>4, <1>5, NobodyStep

(* The loss of a device disturbs nothing the calls have done.              *)
LEMMA StepLose ==
  ASSUME IInv, Lose
  PROVE  IInv'
<1>1. /\ lost' = TRUE
      /\ UNCHANGED <<runtime, want, call, modules, pipelines, held, refused, scopes, pending, failure, loss>>
  BY DEF Lose, caches, buffers
<1>2. scopes' \in Seq(ScopeState) /\ Once(scopes') /\ FailureInv' /\ failure' \in BOOLEAN /\ loss' \in BOOLEAN
  BY <1>1 DEF IInv, TypeOK, FailureInv, Once
<1>. QED  BY <1>1, <1>2, NobodyStep

(* Nor does hearing of it.                                                 *)
LEMMA StepLossKnown ==
  ASSUME IInv, LossKnown
  PROVE  IInv'
<1>1. /\ loss' = TRUE
      /\ UNCHANGED <<runtime, want, call, modules, pipelines, held, refused, scopes, pending, failure, lost>>
  BY DEF LossKnown, caches, buffers
<1>2. scopes' \in Seq(ScopeState) /\ Once(scopes') /\ FailureInv' /\ failure' \in BOOLEAN /\ lost' \in BOOLEAN
  BY <1>1 DEF IInv, TypeOK, FailureInv, Once
<1>. QED  BY <1>1, <1>2, NobodyStep

(* The buffers of a call are created and counted once, with their scopes.  *)
LEMMA StepAllocate ==
  ASSUME IInv, NEW c \in Call, Allocate(c)
  PROVE  IInv'
<1>. DEFINE waits == IF runtime = "node" THEN Awaited(pending \cup Bound(c)) ELSE {}
            ahead == IF waits = {} THEN GroupCount(c) ELSE GroupCount(c) - 1
            stop  == ahead > 0 /\ Objection(c) # ""
            begun == [call[c] EXCEPT !.pc = IF waits = {} THEN "binding" ELSE "draining",
                                     !.waits = waits, !.groups = GroupCount(c)]
            moved == IF stop THEN [begun EXCEPT !.pc = "failed", !.why = Objection(c)] ELSE begun
<1>1. /\ TypeOK /\ call[c] \in CallState /\ CallInv(c) /\ FailureInv
      /\ Once(scopes) /\ scopes \in Seq(ScopeState) /\ held \subseteq Buffer /\ pending \subseteq Buffer
  BY CallFacts DEF IInv, TypeOK
<1>2. PICK bad \in Refusable(Bound(c)) :
        /\ Create(Bound(c), bad)
        /\ call' = [call EXCEPT ![c] = moved]
        /\ scopes' = scopes \o AllocationScopes(c, <<"in", "out">>, bad)
                            \o (IF stop THEN <<>> ELSE BindScopes(c, ahead, refused'))
  BY DEF Allocate
<1>3. /\ call[c].pc = "built" /\ pending' = {}
      /\ UNCHANGED <<runtime, want, modules, pipelines, failure, lost, loss>>
  BY DEF Allocate, caches, device
<1>4. bad \subseteq Bound(c) /\ Bound(c) \subseteq Buffer /\ bad \subseteq Buffers(c) /\ bad \in SUBSET Buffer
  BY <1>1, <1>2, CallFacts DEF Refusable
<1>5. /\ held' = held \cup Bound(c) /\ refused' = refused \cup bad
      /\ held \cap Buffers(c) = {} /\ held \cap Bound(c) = {}
  BY <1>1, <1>2, <1>3, CallFacts DEF Create, CallInv
<1>6. waits \subseteq Buffer /\ GroupCount(c) \in 1 .. 2 /\ ahead \in Nat
  BY <1>1, <1>4 DEF Awaited, GroupCount
<1>7. Objection(c) # "" => Objection(c) \in Why /\ Cause(c)
  BY <1>1 DEF Objection, Why, Cause, FailureInv
<1>8. /\ moved \in CallState /\ moved.kernel = call[c].kernel /\ moved.groups \in 1 .. 2
      /\ moved.pc \in {"binding", "draining"} \/ (moved.pc = "failed" /\ Cause(c))
  <2>. DEFINE p == IF waits = {} THEN "binding" ELSE "draining"
  <2>1. p \in {"binding", "draining"}  OBVIOUS
  <2>. HIDE DEF p, waits
  <2>2. GroupCount(c) \in 0 .. 2  BY <1>6
  <2>3. /\ begun \in CallState /\ begun.kernel = call[c].kernel /\ begun.groups = GroupCount(c)
        /\ begun.pc = p
    <3>1. begun = [[call[c] EXCEPT !.pc = p, !.groups = GroupCount(c)] EXCEPT !.waits = waits]
      BY <1>1 DEF CallState, p
    <3>2. [call[c] EXCEPT !.pc = p, !.groups = GroupCount(c)] \in CallState
      BY <1>1, <2>1, <2>2, CallMoves DEF Waiting
    <3>3. ASSUME NEW k \in CallState PROVE [k EXCEPT !.waits = waits] \in CallState
      BY <1>6, <3>3 DEF CallState
    <3>4. begun \in CallState  BY <3>1, <3>2, <3>3
    <3>. QED  BY <1>1, <3>4 DEF CallState, p
  <2>. HIDE DEF begun, ahead
  <2>4. CASE stop
    <3>1. moved = [begun EXCEPT !.pc = "failed", !.why = Objection(c)] /\ Objection(c) \in Why /\ Cause(c)
      BY <1>7, <2>4
    <3>2. moved \in CallState  BY <2>3, <3>1 DEF CallState, Settled
    <3>3. moved.pc = "failed" /\ moved.kernel = begun.kernel /\ moved.groups = begun.groups
      BY <2>3, <3>1 DEF CallState
    <3>. QED  BY <1>6, <2>3, <3>1, <3>2, <3>3
  <2>5. CASE ~ stop
    BY <1>6, <2>1, <2>3, <2>5
  <2>. QED  BY <2>4, <2>5
<1>9. /\ call'[c] = moved /\ \A d \in Call \ {c} : call'[d] = call[d]
       /\ call' \in [Call -> CallState]
  <2>. HIDE DEF moved
  <2>. QED  BY <1>1, <1>2, <1>8 DEF TypeOK
<1>. HIDE DEF moved
<1>10. CallInv(c)'
  <2>1. Bound(c) \subseteq held' /\ held' \cap Staging(c) = {}
    BY <1>1, <1>5, CallFacts
  <2>2. Cause(c) => Cause(c)'
    BY <1>3, <1>5 DEF Cause, Kernel, Invalid, Buffers, Bound, Staging
  <2>3. call'[c].groups \in 1 .. 2 /\ call'[c].groups # 0  BY <1>8, <1>9
  <2>. QED  BY <1>1, <1>3, <1>8, <1>9, <2>1, <2>2, <2>3 DEF CallInv, Kernel, Bound, Staging
<1>11. /\ scopes' \in Seq(ScopeState) /\ Once(scopes')
       /\ \A i \in 1 .. Len(scopes') :
            \/ \E j \in 1 .. Len(scopes) : scopes'[i] = scopes[j]
            \/ \E s \in ScopeState : s = scopes'[i] /\ ScopeInv(s)'
  <2>. DEFINE a == AllocationScopes(c, <<"in", "out">>, bad)
              b == IF stop THEN <<>> ELSE BindScopes(c, ahead, refused')
              q == scopes \o a
  <2>1. /\ a \in Seq(ScopeState)
        /\ \A j \in 1 .. Len(a) : a[j].what \in {"in", "out", "staging"} /\ (a[j].bad => bad # {})
    BY <1>1, <1>4, AllocationScopesType
  <2>2. /\ b \in Seq(ScopeState)
        /\ \A j \in 1 .. Len(b) : /\ b[j].what = "bind" /\ b[j].of = c
                                  /\ b[j].bad => want[c].flaw # "none" \/ refused' \cap Bound(c) # {}
    <3>1. CASE stop
      <4>1. b = <<>>  BY <3>1
      <4>. HIDE DEF b
      <4>. QED  BY <4>1, EmptySeq
    <3>2. CASE ~ stop
      <4>1. refused' \in SUBSET Buffer  BY <1>1, <1>4, <1>5 DEF TypeOK
      <4>2. b = BindScopes(c, ahead, refused')  BY <3>2
      <4>3. TypeOK /\ ahead \in Nat  BY <1>1, <1>6
      <4>. HIDE DEF a, q, b, ahead, stop, begun, moved, waits
      <4>4. \A bad2 \in SUBSET Buffer :
              /\ BindScopes(c, ahead, bad2) \in Seq(ScopeState)
              /\ \A j \in 1 .. Len(BindScopes(c, ahead, bad2)) :
                   /\ BindScopes(c, ahead, bad2)[j].what = "bind"
                   /\ BindScopes(c, ahead, bad2)[j].of = c
                   /\ BindScopes(c, ahead, bad2)[j].bad => want[c].flaw # "none" \/ bad2 \cap Bound(c) # {}
        BY <4>3, BindScopesType
      <4>. QED  BY <4>1, <4>2, <4>4
    <3>. QED  BY <3>1, <3>2
  <2>3. scopes' = q \o b  BY <1>2
  <2>. HIDE DEF a, b, stop, ahead
  <2>4. /\ q \in Seq(ScopeState) /\ Once(q)
        /\ \A i \in 1 .. Len(q) : \/ \E j \in 1 .. Len(scopes) : q[i] = scopes[j]
                                  \/ \E j \in 1 .. Len(a) : q[i] = a[j]
    BY <1>1, <2>1, ManyScopes DEF Single
  <2>. HIDE DEF q
  <2>5. /\ scopes' \in Seq(ScopeState) /\ Once(scopes')
        /\ \A i \in 1 .. Len(scopes') : \/ \E j \in 1 .. Len(q) : scopes'[i] = q[j]
                                        \/ \E j \in 1 .. Len(b) : scopes'[i] = b[j]
    BY <2>2, <2>3, <2>4, ManyScopes DEF Single
  <2>6. ASSUME NEW j \in 1 .. Len(a) PROVE \E s \in ScopeState : s = a[j] /\ ScopeInv(s)'
    <3>1. PICK s \in ScopeState : s = a[j]  BY <2>1, ElementOfSeq
    <3>2. s.bad => refused' # {}  BY <1>5, <2>1, <3>1
    <3>3. s.what \in {"in", "out", "staging"}  BY <2>1, <3>1
    <3>. QED  BY <3>1, <3>2, <3>3 DEF ScopeInv
  <2>7. ASSUME NEW j \in 1 .. Len(b) PROVE \E s \in ScopeState : s = b[j] /\ ScopeInv(s)'
    <3>1. PICK s \in ScopeState : s = b[j]  BY <2>2, ElementOfSeq
    <3>2. s.what = "bind" /\ s.of = c /\ (s.bad => want[c].flaw # "none" \/ refused' \cap Bound(c) # {})
      BY <2>2, <3>1
    <3>3. s.bad => Cause(c)'  BY <1>3, <3>2 DEF Cause, Buffers, Bound, Staging
    <3>. QED  BY <3>1, <3>2, <3>3 DEF ScopeInv
  <2>8. ASSUME NEW i \in 1 .. Len(scopes')
        PROVE  \/ \E j \in 1 .. Len(scopes) : scopes'[i] = scopes[j]
               \/ \E s \in ScopeState : s = scopes'[i] /\ ScopeInv(s)'
    <3>1. CASE \E j \in 1 .. Len(q) : scopes'[i] = q[j]
      <4>1. PICK j \in 1 .. Len(q) : scopes'[i] = q[j]  BY <3>1
      <4>2. CASE \E k \in 1 .. Len(scopes) : q[j] = scopes[k]  BY <4>1, <4>2
      <4>3. CASE \E k \in 1 .. Len(a) : q[j] = a[k]  BY <2>6, <4>1, <4>3
      <4>. QED  BY <2>4, <4>2, <4>3
    <3>2. CASE \E j \in 1 .. Len(b) : scopes'[i] = b[j]  BY <2>7, <3>2
    <3>. QED  BY <2>5, <3>1, <3>2
  <2>. QED  BY <2>5, <2>8
<1>12. \A j \in 1 .. Len(scopes) : ~ (scopes[j].what \in Single /\ scopes[j].of = c)
  BY <1>3, NoSingle
<1>13. \A x \in Buffer : x[1] # c => (x \in held' <=> x \in held)
  BY <1>1, <1>5, CallFacts DEF Bound
<1>14. /\ held' \subseteq Buffer /\ refused' \subseteq Buffer /\ refused \subseteq refused'
       /\ failure' \in BOOLEAN /\ FailureInv'
  BY <1>1, <1>3, <1>4, <1>5 DEF TypeOK, FailureInv
<1>15. /\ pending' \subseteq Buffer /\ lost' \in BOOLEAN /\ loss' \in BOOLEAN
       /\ modules' \subseteq Code \ Broken /\ pipelines' \in [Code -> SUBSET Entry] /\ CacheIsValid'
  BY <1>1, <1>3 DEF IInv, TypeOK, CacheIsValid
<1>16. UNCHANGED <<runtime, want>> /\ (lost => lost')  BY <1>3
<1>17. /\ scopes' \in Seq(ScopeState) /\ Once(scopes')
       /\ \A i \in 1 .. Len(scopes') :
            \/ \E j \in 1 .. Len(scopes) :
                 scopes'[i] = scopes[j] /\ ~ (scopes[j].what \in Single /\ scopes[j].of = c)
            \/ \E s \in ScopeState : s = scopes'[i] /\ ScopeInv(s)'
  BY <1>11, <1>12, Zenon
<1>18. call' \in [Call -> CallState] /\ \A d \in Call \ {c} : call'[d] = call[d]
  BY <1>1, <1>2, <1>8 DEF TypeOK
<1>. HIDE DEF waits, ahead, stop, begun
<1>. QED
  BY <1>10, <1>13, <1>14, <1>15, <1>16, <1>17, <1>18, OneCallStep

(* A call that has waited for its allocations creates no buffer.           *)
LEMMA StepDrain ==
  ASSUME IInv, NEW c \in Call, Drain(c)
  PROVE  IInv'
<1>1. /\ TypeOK /\ call[c] \in CallState /\ CallInv(c) /\ FailureInv
      /\ Once(scopes) /\ scopes \in Seq(ScopeState) /\ refused \in SUBSET Buffer
  BY CallFacts DEF IInv, TypeOK
<1>2. /\ call[c].pc = "draining"
      /\ UNCHANGED <<runtime, want, modules, pipelines, held, refused, pending, failure, lost, loss>>
  BY DEF Drain, caches, buffers, device
<1>3. \A j \in 1 .. Len(scopes) : ~ (scopes[j].what \in Single /\ scopes[j].of = c)
  BY <1>2, NoSingle
<1>4. CASE Objection(c) # ""
  <2>1. call' = Failing(c, Objection(c)) /\ scopes' = scopes  BY <1>4 DEF Drain
  <2>2. PICK why \in Why : why = Objection(c)  BY <1>4 DEF Objection, Why
  <2>3. Cause(c)  BY <1>1, <1>4 DEF Objection, Cause, FailureInv
  <2>4. Once(scopes') /\ scopes' \in Seq(ScopeState)  BY <1>1, <2>1 DEF Once
  <2>. QED  BY <1>1, <1>2, <1>3, <2>1, <2>2, <2>3, <2>4, FailStep DEF TypeOK
<1>5. CASE Objection(c) = ""
  <2>. DEFINE r == [call[c] EXCEPT !.pc = "binding", !.waits = {}]
              b == BindScopes(c, 1, refused)
  <2>1. call' = [call EXCEPT ![c].pc = "binding", ![c].waits = {}] /\ scopes' = scopes \o b
    BY <1>5 DEF Drain
  <2>2. r \in CallState  BY <1>1 DEF CallState, Waiting
  <2>3. /\ call'[c] = r /\ \A d \in Call \ {c} : call'[d] = call[d]
        /\ call' \in [Call -> CallState]
    <3>1. call' = [call EXCEPT ![c] = r]  BY <1>1, <2>1 DEF TypeOK
    <3>. QED  BY <1>1, <2>2, <3>1 DEF TypeOK
  <2>4. call'[c].pc = "binding" /\ call'[c].kernel = call[c].kernel /\ call'[c].groups = call[c].groups
    BY <1>1, <2>3 DEF CallState
  <2>5. CallInv(c)'
    BY <1>1, <1>2, <2>4 DEF CallInv, Kernel, Bound, Staging
  <2>6. /\ b \in Seq(ScopeState)
        /\ \A j \in 1 .. Len(b) : /\ b[j].what = "bind" /\ b[j].of = c
                                  /\ b[j].bad => want[c].flaw # "none" \/ refused \cap Bound(c) # {}
    <3>1. 1 \in Nat /\ refused \in SUBSET Buffer /\ TypeOK  BY <1>1
    <3>. HIDE DEF r
    <3>2. \A bad \in SUBSET Buffer :
            /\ BindScopes(c, 1, bad) \in Seq(ScopeState)
            /\ \A j \in 1 .. Len(BindScopes(c, 1, bad)) :
                 /\ BindScopes(c, 1, bad)[j].what = "bind"
                 /\ BindScopes(c, 1, bad)[j].of = c
                 /\ BindScopes(c, 1, bad)[j].bad => want[c].flaw # "none" \/ bad \cap Bound(c) # {}
      BY <3>1, BindScopesType
    <3>. QED  BY <3>1, <3>2
  <2>. HIDE DEF b
  <2>7. /\ scopes' \in Seq(ScopeState) /\ Once(scopes')
        /\ \A i \in 1 .. Len(scopes') : \/ \E j \in 1 .. Len(scopes) : scopes'[i] = scopes[j]
                                        \/ \E j \in 1 .. Len(b) : scopes'[i] = b[j]
    BY <1>1, <2>1, <2>6, ManyScopes DEF Single
  <2>8. ASSUME NEW j \in 1 .. Len(b) PROVE \E s \in ScopeState : s = b[j] /\ ScopeInv(s)'
    <3>1. PICK s \in ScopeState : s = b[j]  BY <2>6, ElementOfSeq
    <3>2. s.what = "bind" /\ s.of = c /\ (s.bad => want[c].flaw # "none" \/ refused \cap Bound(c) # {})
      BY <2>6, <3>1
    <3>3. s.bad => Cause(c)'  BY <1>2, <3>2 DEF Cause, Buffers, Bound, Staging
    <3>. QED  BY <3>1, <3>2, <3>3 DEF ScopeInv
  <2>9. /\ held' \subseteq Buffer /\ refused' \subseteq Buffer /\ pending' \subseteq Buffer
        /\ failure' \in BOOLEAN /\ FailureInv'
        /\ lost' \in BOOLEAN /\ loss' \in BOOLEAN /\ modules' \subseteq Code \ Broken
        /\ pipelines' \in [Code -> SUBSET Entry] /\ CacheIsValid'
    BY <1>1, <1>2 DEF IInv, TypeOK, CacheIsValid, FailureInv
  <2>. HIDE DEF r
  <2>. QED  BY <1>2, <1>3, <2>3, <2>5, <2>7, <2>8, <2>9, OneCallStep
<1>. QED  BY <1>4, <1>5

(* The scopes after a submission: the older ones, those of the staging     *)
(* buffer and, in the web runtime, its own.                                *)
After(c, bad, popped) == Tail(scopes) \o AllocationScopes(c, <<"staging">>, bad) \o popped

Old(c, x) == \E j \in 1 .. Len(scopes) : x = scopes[j] /\ ~ (scopes[j].what \in Single /\ scopes[j].of = c)

Made(bad, x) == x \in ScopeState /\ x.what \in {"in", "out", "staging"} /\ (x.bad => bad # {})

(* The scopes after a submission: the old ones, the staging buffer's, its  *)
(* own.                                                                    *)
LEMMA SubmitScopes ==
  ASSUME IInv, NEW c \in Call, call[c].pc \in {"binding", "draining"},
         scopes # <<>>, NEW bad \in SUBSET Buffer,
         NEW s \in ScopeState, s.what = "submit", s.of = c,
         NEW popped, popped = <<>> \/ popped = <<s>>
  PROVE  /\ After(c, bad, popped) \in Seq(ScopeState) /\ Once(After(c, bad, popped))
         /\ \A i \in 1 .. Len(After(c, bad, popped)) :
              \/ Old(c, After(c, bad, popped)[i]) \/ Made(bad, After(c, bad, popped)[i])
              \/ popped = <<s>> /\ After(c, bad, popped)[i] = s
<1>. DEFINE a == AllocationScopes(c, <<"staging">>, bad)
            t == Tail(scopes)
            q == t \o a
            new == After(c, bad, popped)
<1>1. TypeOK /\ scopes \in Seq(ScopeState) /\ Once(scopes)  BY DEF IInv, TypeOK
<1>2. \A j \in 1 .. Len(scopes) : ~ (scopes[j].what \in Single /\ scopes[j].of = c)
  BY NoSingle
<1>3. /\ a \in Seq(ScopeState)
      /\ \A j \in 1 .. Len(a) : a[j].what \in {"in", "out", "staging"} /\ (a[j].bad => bad # {})
  BY <1>1, AllocationScopesType
<1>4. /\ t \in Seq(ScopeState) /\ Once(t) /\ Len(scopes) \in Nat
      /\ \A i \in 1 .. Len(t) : i + 1 \in 2 .. Len(scopes) /\ t[i] = scopes[i + 1]
  BY <1>1, TailScopes
<1>5. new = q \o popped  BY DEF After
<1>. HIDE DEF a, t, new
<1>6. \A i \in 1 .. Len(t) : Old(c, t[i])  BY <1>2, <1>4 DEF Old
<1>7. \A j \in 1 .. Len(a) : Made(bad, a[j])  BY <1>3, ElementOfSeq DEF Made
<1>8. /\ q \in Seq(ScopeState) /\ Once(q)
      /\ \A i \in 1 .. Len(q) : \/ \E j \in 1 .. Len(t) : q[i] = t[j]
                                \/ \E j \in 1 .. Len(a) : q[i] = a[j]
  BY <1>3, <1>4, ManyScopes DEF Single
<1>9. \A i \in 1 .. Len(q) : q[i].what \in Single => ~ (q[i].what = s.what /\ q[i].of = s.of)
  BY <1>6, <1>7, <1>8 DEF Single, Old, Made
<1>. HIDE DEF q
<1>10. \A i \in 1 .. Len(q) : Old(c, q[i]) \/ Made(bad, q[i])  BY <1>6, <1>7, <1>8
<1>11. CASE popped = <<>>
  <2>1. new = q  BY <1>5, <1>8, <1>11, ConcatEmptySeq
  <2>. QED  BY <1>8, <1>10, <2>1, Zenon DEF new
<1>12. CASE popped = <<s>>
  <2>1. new = Append(q, s)  BY <1>5, <1>8, <1>12, AppendIsConcat
  <2>2. /\ new \in Seq(ScopeState) /\ Once(new)
        /\ \A i \in 1 .. Len(new) : (\E j \in 1 .. Len(q) : new[i] = q[j]) \/ new[i] = s
    <3>1. /\ Append(q, s) \in Seq(ScopeState) /\ Once(Append(q, s))
          /\ \A i \in 1 .. Len(Append(q, s)) :
               (\E j \in 1 .. Len(q) : Append(q, s)[i] = q[j]) \/ Append(q, s)[i] = s
      BY <1>8, <1>9, OneScope
    <3>. QED  BY <2>1, <3>1, Zenon
  <2>3. \A i \in 1 .. Len(new) : Old(c, new[i]) \/ Made(bad, new[i]) \/ new[i] = s  BY <1>10, <2>2
  <2>4. \A i \in 1 .. Len(new) : Old(c, new[i]) \/ Made(bad, new[i]) \/ (popped = <<s>> /\ new[i] = s)
    BY <1>12, <2>3, Zenon
  <2>. QED  BY <2>2, <2>4, Zenon DEF new
<1>. QED  BY <1>11, <1>12

(* What is left of the scopes once the bind group of a call is answered.   *)
LEMMA TailOfBind ==
  ASSUME IInv, NEW c \in Call, call[c].pc \in {"binding", "draining"}, scopes # <<>>
  PROVE  /\ Tail(scopes) \in Seq(ScopeState) /\ Once(Tail(scopes))
         /\ \A i \in 1 .. Len(Tail(scopes)) :
              \E j \in 1 .. Len(scopes) :
                Tail(scopes)[i] = scopes[j] /\ ~ (scopes[j].what \in Single /\ scopes[j].of = c)
<1>1. scopes \in Seq(ScopeState) /\ Once(scopes)  BY DEF IInv, TypeOK
<1>2. \A j \in 1 .. Len(scopes) : ~ (scopes[j].what \in Single /\ scopes[j].of = c)
  BY NoSingle
<1>. QED  BY <1>1, <1>2, TailScopes

(* The last bind group of a call is answered, and node refuses its grid.   *)
LEMMA RefuseStep ==
  ASSUME IInv, NEW c \in Call, call[c].pc \in {"binding", "draining"}, scopes # <<>>,
         runtime = "node", want[c].flaw = "grid", Submit(c),
         UNCHANGED <<runtime, want, modules, pipelines, failure, lost, loss>>
  PROVE  IInv'
<1>. DEFINE gone == IF want[c].caller = "round" THEN {} ELSE Buffers(c)
            r == [call[c] EXCEPT !.pc = "failed", !.why = "grid", !.groups = 0]
<1>1. /\ TypeOK /\ call[c] \in CallState /\ CallInv(c) /\ held \subseteq Buffer
      /\ Bound(c) \subseteq held /\ held \cap Staging(c) = {}
  BY CallFacts DEF IInv, TypeOK, CallInv
<1>2. /\ Buffers(c) = Bound(c) \cup Staging(c) /\ Staging(c) \subseteq Buffer
      /\ \A b \in Buffers(c) : b[1] = c
  BY <1>1, CallFacts
<1>3. PICK bad \in Refusable(Staging(c)) :
        /\ held' = (held \cup Staging(c)) \ gone
        /\ refused' = refused \cup bad
        /\ scopes' = Tail(scopes) \o AllocationScopes(c, <<"staging">>, bad)
        /\ pending' = pending \cup Staging(c)
        /\ call' = [Failing(c, "grid") EXCEPT ![c].groups = 0]
  BY DEF Submit
<1>4. bad \subseteq Staging(c) /\ bad \in SUBSET Buffer  BY <1>2, <1>3 DEF Refusable
<1>5. gone \in SUBSET (held \cup Staging(c)) /\ (want[c].caller = "runner" => gone = Buffers(c))
      /\ \A b \in gone : b[1] = c
  BY <1>1, <1>2
<1>. HIDE DEF gone
<1>6. r \in CallState
  <2>1. [call[c] EXCEPT !.pc = "failed", !.groups = 0] \in CallState
    <3>1. 0 \in 0 .. 2 /\ "failed" \in {"idle", "built"} \cup Waiting \cup Settled  BY DEF Settled
    <3>. QED  BY <1>1, <3>1, CallMoves
  <2>2. ASSUME NEW k \in CallState PROVE [k EXCEPT !.why = "grid"] \in CallState
    BY <2>2 DEF CallState, Why
  <2>3. r = [[call[c] EXCEPT !.pc = "failed", !.groups = 0] EXCEPT !.why = "grid"]
    BY <1>1 DEF CallState
  <2>. QED  BY <2>1, <2>2, <2>3
<1>7. /\ call'[c] = r /\ \A d \in Call \ {c} : call'[d] = call[d]
      /\ call' \in [Call -> CallState]
  <2>1. call' = [call EXCEPT ![c] = r]  BY <1>1, <1>3 DEF Failing, TypeOK
  <2>. QED  BY <1>1, <1>6, <2>1 DEF TypeOK
<1>8. call'[c].pc = "failed" /\ call'[c].kernel = call[c].kernel
  BY <1>1, <1>7 DEF CallState
<1>9. Cause(c)'  BY DEF Cause
<1>10. want[c].caller = "runner" => held' \cap Buffers(c) = {}
  BY <1>3, <1>5
<1>11. CallInv(c)'
  BY <1>1, <1>8, <1>9, <1>10 DEF CallInv, Kernel, Buffers, Bound, Staging
<1>12. PICK s \in ScopeState : s = [what |-> "submit", of |-> c, bad |-> TRUE]  BY DEF ScopeState
<1>13. /\ scopes' \in Seq(ScopeState) /\ Once(scopes')
       /\ \A i \in 1 .. Len(scopes') : Old(c, scopes'[i]) \/ Made(bad, scopes'[i])
  <2>1. Tail(scopes) \in Seq(ScopeState)  BY TailOfBind
  <2>2. AllocationScopes(c, <<"staging">>, bad) \in Seq(ScopeState)  BY <1>1, <1>4, AllocationScopesType
  <2>3. Tail(scopes) \o AllocationScopes(c, <<"staging">>, bad) \in Seq(ScopeState)
    BY <2>1, <2>2, ConcatProperties
  <2>4. scopes' = After(c, bad, <<>>)  BY <1>3, <2>3, ConcatEmptySeq DEF After
  <2>5. s.what = "submit" /\ s.of = c /\ <<>> # <<s>>  BY <1>12
  <2>6. /\ After(c, bad, <<>>) \in Seq(ScopeState) /\ Once(After(c, bad, <<>>))
        /\ \A i \in 1 .. Len(After(c, bad, <<>>)) :
             \/ Old(c, After(c, bad, <<>>)[i]) \/ Made(bad, After(c, bad, <<>>)[i])
             \/ <<>> = <<s>> /\ After(c, bad, <<>>)[i] = s
    BY <1>4, <2>5, SubmitScopes
  <2>. QED  BY <2>4, <2>5, <2>6, Zenon
<1>14. \A i \in 1 .. Len(scopes') :
         \/ \E j \in 1 .. Len(scopes) :
              scopes'[i] = scopes[j] /\ ~ (scopes[j].what \in Single /\ scopes[j].of = c)
         \/ \E t \in ScopeState : t = scopes'[i] /\ ScopeInv(t)'
  <2>1. ASSUME NEW t \in ScopeState, Made(bad, t) PROVE ScopeInv(t)'
    BY <1>3, <2>1 DEF ScopeInv, Made
  <2>2. \A i \in 1 .. Len(scopes') : scopes'[i] \in ScopeState  BY <1>13, ElementOfSeq
  <2>. QED  BY <1>13, <2>1, <2>2, Zenon DEF Old
<1>15. /\ held' \subseteq Buffer /\ refused' \subseteq Buffer /\ refused \subseteq refused'
       /\ pending' \subseteq Buffer /\ failure' \in BOOLEAN /\ FailureInv'
       /\ \A b \in Buffer : b[1] # c => (b \in held' <=> b \in held)
  <2>1. \A b \in Staging(c) : b[1] = c  BY <1>2
  <2>. QED  BY <1>1, <1>2, <1>3, <1>4, <1>5, <2>1 DEF IInv, TypeOK, FailureInv
<1>. HIDE DEF r
<1>16. /\ lost' \in BOOLEAN /\ loss' \in BOOLEAN /\ modules' \subseteq Code \ Broken
       /\ pipelines' \in [Code -> SUBSET Entry] /\ CacheIsValid'
  BY <1>1 DEF IInv, TypeOK, CacheIsValid
<1>. QED  BY <1>7, <1>11, <1>13, <1>14, <1>15, <1>16, OneCallStep

(* The last bind group of a call is answered, and its work submitted.      *)
LEMMA SubmitStep ==
  ASSUME IInv, NEW c \in Call, call[c].pc \in {"binding", "draining"}, scopes # <<>>,
         ~ (runtime = "node" /\ want[c].flaw = "grid"), Submit(c),
         UNCHANGED <<runtime, want, modules, pipelines, failure, lost, loss>>
  PROVE  IInv'
<1>1. /\ TypeOK /\ call[c] \in CallState /\ CallInv(c) /\ held \subseteq Buffer
      /\ Bound(c) \subseteq held /\ held \cap Staging(c) = {}
  BY CallFacts DEF IInv, TypeOK, CallInv
<1>2. /\ Staging(c) \subseteq Buffer /\ \A b \in Staging(c) : b[1] = c
  BY <1>1, CallFacts
<1>3. PICK bad \in Refusable(Staging(c)) :
        LET ran == bad = {} /\ want[c].flaw # "grid"
            popped == SubmitScope(c, ran)
        IN /\ Create(Staging(c), bad)
           /\ scopes' = Tail(scopes) \o AllocationScopes(c, <<"staging">>, bad) \o popped
           /\ pending' = IF runtime = "node" THEN pending \cup Staging(c) ELSE pending
           /\ call' = [call EXCEPT ![c].pc = IF popped = <<>> THEN "mapping" ELSE "submitting",
                                   ![c].groups = 0, ![c].ran = ran]
  BY DEF Submit
<1>4. bad \subseteq Staging(c) /\ bad \in SUBSET Buffer  BY <1>2, <1>3 DEF Refusable
<1>5. PICK ran \in BOOLEAN : ran = (bad = {} /\ want[c].flaw # "grid")  OBVIOUS
<1>6. PICK nran \in BOOLEAN : nran = ~ ran  OBVIOUS
<1>7. PICK s \in ScopeState : s = [what |-> "submit", of |-> c, bad |-> nran]  BY DEF ScopeState
<1>. DEFINE popped == SubmitScope(c, ran)
            p == IF runtime = "web" THEN "submitting" ELSE "mapping"
            r == [call[c] EXCEPT !.pc = p, !.groups = 0, !.ran = ran]
<1>8. popped = IF runtime = "web" THEN <<s>> ELSE <<>>
  <2>1. Scope("submit", c, ~ ran) = s  BY <1>6, <1>7 DEF Scope
  <2>. QED  BY <2>1 DEF SubmitScope
<1>9. /\ Create(Staging(c), bad)
      /\ scopes' = Tail(scopes) \o AllocationScopes(c, <<"staging">>, bad) \o popped
      /\ pending' = IF runtime = "node" THEN pending \cup Staging(c) ELSE pending
      /\ call' = [call EXCEPT ![c].pc = IF popped = <<>> THEN "mapping" ELSE "submitting",
                              ![c].groups = 0, ![c].ran = ran]
  BY <1>3, <1>5
<1>10. (IF popped = <<>> THEN "mapping" ELSE "submitting") = p
  <2>1. <<s>> # <<>>  OBVIOUS
  <2>. QED  BY <1>8, <2>1
<1>11. popped = <<>> \/ popped = <<s>>  BY <1>8
<1>. HIDE DEF popped
<1>12. p \in {"mapping", "submitting"}  OBVIOUS
<1>13. r \in CallState
  <2>. HIDE DEF p
  <2>1. [call[c] EXCEPT !.pc = p, !.groups = 0] \in CallState
    <3>1. 0 \in 0 .. 2 /\ p \in {"idle", "built"} \cup Waiting \cup Settled  BY <1>12 DEF Waiting
    <3>. QED  BY <1>1, <3>1, CallMoves
  <2>2. ASSUME NEW k \in CallState PROVE [k EXCEPT !.ran = ran] \in CallState
    BY <2>2 DEF CallState
  <2>3. r = [[call[c] EXCEPT !.pc = p, !.groups = 0] EXCEPT !.ran = ran]
    BY <1>1 DEF CallState
  <2>. QED  BY <2>1, <2>2, <2>3
<1>14. /\ call'[c] = r /\ \A d \in Call \ {c} : call'[d] = call[d]
       /\ call' \in [Call -> CallState]
  <2>. HIDE DEF p
  <2>1. call' = [call EXCEPT ![c] = r]  BY <1>1, <1>9, <1>10 DEF TypeOK
  <2>. QED  BY <1>1, <1>13, <2>1 DEF TypeOK
<1>15. call'[c].pc = p /\ call'[c].kernel = call[c].kernel /\ call'[c].ran = ran
  BY <1>1, <1>14 DEF CallState
<1>16. /\ held' = held \cup Staging(c) /\ refused' = refused \cup bad
  BY <1>9 DEF Create
<1>17. ran \/ Staging(c) \cap refused' # {} \/ (want[c].flaw = "grid" /\ runtime # "node")
  BY <1>4, <1>5, <1>16
<1>18. CallInv(c)'
  BY <1>1, <1>12, <1>15, <1>17 DEF CallInv, Kernel, Staging
<1>. DEFINE new == After(c, bad, popped)
<1>19. scopes' = new  BY <1>9 DEF After
<1>20. s.what = "submit" /\ s.of = c /\ (s.bad <=> ~ ran)  BY <1>6, <1>7
<1>21. /\ new \in Seq(ScopeState) /\ Once(new)
       /\ \A i \in 1 .. Len(new) :
            Old(c, new[i]) \/ Made(bad, new[i]) \/ (popped = <<s>> /\ new[i] = s)
  BY <1>4, <1>11, <1>20, SubmitScopes
<1>. HIDE DEF new
<1>22. popped = <<s>> => ScopeInv(s)'
  <2>1. popped = <<s>> => runtime = "web"
    <3>1. <<s>> # <<>>  OBVIOUS
    <3>. QED  BY <1>8, <3>1
  <2>. QED  BY <1>15, <1>20, <2>1 DEF ScopeInv
<1>23. ASSUME NEW t \in ScopeState, Made(bad, t) PROVE ScopeInv(t)'
  BY <1>16, <1>23 DEF ScopeInv, Made
<1>24. \A i \in 1 .. Len(new) :
         \/ \E j \in 1 .. Len(scopes) :
              new[i] = scopes[j] /\ ~ (scopes[j].what \in Single /\ scopes[j].of = c)
         \/ \E t \in ScopeState : t = new[i] /\ ScopeInv(t)'
  <2>1. \A i \in 1 .. Len(new) : new[i] \in ScopeState  BY <1>21, ElementOfSeq
  <2>. QED  BY <1>21, <1>22, <1>23, <2>1, Zenon DEF Old
<1>25. /\ scopes' \in Seq(ScopeState) /\ Once(scopes')
       /\ \A i \in 1 .. Len(scopes') :
            \/ \E j \in 1 .. Len(scopes) :
                 scopes'[i] = scopes[j] /\ ~ (scopes[j].what \in Single /\ scopes[j].of = c)
            \/ \E t \in ScopeState : t = scopes'[i] /\ ScopeInv(t)'
  BY <1>19, <1>21, <1>24, Zenon
<1>26. /\ held' \subseteq Buffer /\ refused' \subseteq Buffer /\ refused \subseteq refused'
       /\ pending' \subseteq Buffer /\ failure' \in BOOLEAN /\ FailureInv'
       /\ \A b \in Buffer : b[1] # c => (b \in held' <=> b \in held)
  BY <1>1, <1>2, <1>4, <1>9, <1>16 DEF IInv, TypeOK, FailureInv
<1>27. /\ lost' \in BOOLEAN /\ loss' \in BOOLEAN /\ modules' \subseteq Code \ Broken
       /\ pipelines' \in [Code -> SUBSET Entry] /\ CacheIsValid'
  BY <1>1 DEF IInv, TypeOK, CacheIsValid
<1>. HIDE DEF r
<1>. QED  BY <1>14, <1>18, <1>25, <1>26, <1>27, OneCallStep

(* The answer to a bind group fails the call that waits, or lets it        *)
(* submit.                                                                 *)
LEMMA StepBindAnswered ==
  ASSUME IInv, BindAnswered
  PROVE  IInv'
<1>1. /\ scopes # <<>> /\ Head(scopes).what = "bind"
      /\ UNCHANGED <<runtime, want, modules, pipelines, failure, lost, loss>>
  BY DEF BindAnswered, caches, device
<1>2. TypeOK /\ scopes \in Seq(ScopeState) /\ Once(scopes)  BY DEF IInv, TypeOK
<1>3. PICK s \in ScopeState : s = Head(scopes) /\ ScopeInv(s)
  BY <1>1, <1>2, TailScopes DEF IInv, ScopesInv
<1>4. PICK c \in Call : c = s.of  BY DEF ScopeState
<1>5. call[c] \in CallState /\ CallInv(c)  BY <1>2, CallFacts DEF IInv
<1>. DEFINE hears == call[c].pc \in {"binding", "draining"}
<1>6. IF hears /\ ~ lost /\ ~ s.bad /\ call[c].groups = 1
        THEN Submit(c)
        ELSE /\ call' = IF ~ hears THEN call
                        ELSE IF lost THEN Failing(c, Dropped)
                        ELSE IF s.bad THEN Failing(c, IF Resident THEN "bind group" ELSE "dispatch")
                        ELSE [call EXCEPT ![c].groups = @ - 1]
             /\ scopes' = Tail(scopes) /\ UNCHANGED <<buffers, pending>>
  BY <1>3, <1>4 DEF BindAnswered
<1>7. modules' \subseteq Code \ Broken /\ lost' \in BOOLEAN /\ loss' \in BOOLEAN
      /\ failure' \in BOOLEAN /\ FailureInv \in BOOLEAN
  BY <1>1, <1>2 DEF TypeOK, FailureInv
<1>8. CASE ~ hears
  <2>1. /\ UNCHANGED <<call, held, refused, pending>> /\ scopes' = Tail(scopes)
    BY <1>6, <1>8 DEF buffers
  <2>2. FailureInv'  BY <1>1, <2>1 DEF IInv, FailureInv
  <2>3. /\ scopes' \in Seq(ScopeState) /\ Once(scopes')
        /\ \A i \in 1 .. Len(scopes') : \E j \in 1 .. Len(scopes) : scopes'[i] = scopes[j]
    BY <1>1, <1>2, <2>1, TailScopes
  <2>. QED  BY <1>1, <1>7, <2>1, <2>2, <2>3, NobodyStep
<1>9. CASE hears /\ ~ lost /\ ~ s.bad /\ call[c].groups = 1
  <2>1. Submit(c)  BY <1>6, <1>9
  <2>2. CASE runtime = "node" /\ want[c].flaw = "grid"  BY <1>1, <1>9, <2>1, <2>2, RefuseStep
  <2>3. CASE ~ (runtime = "node" /\ want[c].flaw = "grid")  BY <1>1, <1>9, <2>1, <2>3, SubmitStep
  <2>. QED  BY <2>2, <2>3
<1>10. CASE hears /\ ~ (~ lost /\ ~ s.bad /\ call[c].groups = 1)
  <2>1. /\ UNCHANGED <<held, refused, pending>> /\ scopes' = Tail(scopes)
        /\ call' = IF lost THEN Failing(c, Dropped)
                   ELSE IF s.bad THEN Failing(c, IF Resident THEN "bind group" ELSE "dispatch")
                   ELSE [call EXCEPT ![c].groups = @ - 1]
    BY <1>6, <1>10 DEF buffers
  <2>2. /\ scopes' \in Seq(ScopeState) /\ Once(scopes')
        /\ \A i \in 1 .. Len(scopes') :
             \E j \in 1 .. Len(scopes) :
               scopes'[i] = scopes[j] /\ ~ (scopes[j].what \in Single /\ scopes[j].of = c)
    BY <1>1, <1>10, <2>1, TailOfBind
  <2>3. CASE lost \/ s.bad
    <3>1. PICK why \in Why : call' = Failing(c, why)  BY <2>1, <2>3 DEF Dropped, Why
    <3>2. Cause(c)
      <4>1. s.bad => Cause(c)  BY <1>1, <1>3, <1>4 DEF ScopeInv
      <4>2. lost => Cause(c)  BY DEF Cause
      <4>. QED  BY <2>3, <4>1, <4>2
    <3>3. call[c].pc \in {"idle", "compiling", "building", "binding", "draining"}  BY <1>10
    <3>. QED  BY <1>1, <1>7, <2>1, <2>2, <3>1, <3>2, <3>3, FailStep
  <2>4. CASE ~ lost /\ ~ s.bad
    <3>. DEFINE r == [call[c] EXCEPT !.groups = 1]
    <3>1. call[c].groups = 2  BY <1>5, <1>10, <2>4 DEF CallInv
    <3>2. r \in CallState /\ r.pc = call[c].pc /\ r.kernel = call[c].kernel /\ r.groups = 1
      <4>1. 1 \in 0 .. 2  OBVIOUS
      <4>2. ASSUME NEW k \in CallState, NEW n \in 0 .. 2
            PROVE  LET m == [k EXCEPT !.groups = n]
                   IN m \in CallState /\ m.pc = k.pc /\ m.kernel = k.kernel /\ m.groups = n
        BY <4>2 DEF CallState
      <4>. QED  BY <1>5, <4>1, <4>2
    <3>3. /\ call'[c] = r /\ \A d \in Call \ {c} : call'[d] = call[d]
          /\ call' \in [Call -> CallState]
      <4>1. call[c].groups - 1 = 1  BY <3>1
      <4>2. call' = [call EXCEPT ![c] = r]  BY <1>2, <2>1, <2>4, <4>1 DEF TypeOK
      <4>. HIDE DEF r
      <4>. QED  BY <1>2, <3>2, <4>2 DEF TypeOK
    <3>. HIDE DEF r
    <3>4. call'[c].pc \in {"binding", "draining"} /\ call'[c].kernel = call[c].kernel /\ call'[c].groups = 1
      BY <1>10, <3>2, <3>3
    <3>5. CallInv(c)'
      <4>1. call[c].pc \in {"binding", "draining"}  BY <1>10
      <4>2. call[c].kernel = Kernel(c) /\ Bound(c) \subseteq held /\ held \cap Staging(c) = {}
        BY <1>5, <4>1 DEF CallInv
      <4>3. held' = held /\ want' = want  BY <1>1, <2>1
      <4>. QED  BY <3>4, <4>2, <4>3 DEF CallInv, Kernel, Bound, Staging
    <3>6. /\ held' \subseteq Buffer /\ refused' \subseteq Buffer /\ pending' \subseteq Buffer
          /\ FailureInv'
          /\ pipelines' \in [Code -> SUBSET Entry] /\ CacheIsValid'
      BY <1>1, <1>2, <2>1 DEF IInv, TypeOK, CacheIsValid, FailureInv
    <3>. HIDE DEF r
    <3>. QED  BY <1>1, <1>7, <2>1, <2>2, <3>3, <3>5, <3>6, OneCallStep
  <2>. QED  BY <2>3, <2>4
<1>. QED  BY <1>8, <1>9, <1>10

(* A call destroys what it has when its work has resolved or rejected.     *)
LEMMA SettleStep ==
  ASSUME IInv, NEW c \in Call, NEW r \in CallState, NEW resolved \in BOOLEAN,
         call' = [call EXCEPT ![c] = r], r.kernel = call[c].kernel,
         r.pc = IF resolved THEN "done" ELSE "failed",
         resolved => r.ran \/ want[c].flaw \in Unchecked, ~ resolved => Cause(c),
         Destroy(Gone(c, resolved)),
         UNCHANGED <<runtime, want, modules, pipelines, pending, failure, lost, loss>>,
         scopes' \in Seq(ScopeState), Once(scopes'),
         \A i \in 1 .. Len(scopes') :
           \E j \in 1 .. Len(scopes) :
             scopes'[i] = scopes[j] /\ ~ (scopes[j].what \in Single /\ scopes[j].of = c)
  PROVE  IInv'
<1>1. TypeOK /\ CallInv(c) /\ held \subseteq Buffer  BY DEF IInv, TypeOK
<1>2. /\ Buffers(c) = Bound(c) \cup Staging(c) /\ \A b \in Buffers(c) : b[1] = c
      /\ want[c].caller \in {"runner", "round"}
  BY <1>1, CallFacts
<1>3. /\ Gone(c, resolved) \in SUBSET held /\ Gone(c, resolved) \subseteq Buffers(c)
      /\ want[c].caller = "runner" /\ (resolved \/ Resident) => Gone(c, resolved) = held \cap Buffers(c)
  BY <1>2 DEF Gone
<1>4. held' = held \ Gone(c, resolved) /\ refused' = refused  BY DEF Destroy
<1>5. /\ call'[c] = r /\ \A d \in Call \ {c} : call'[d] = call[d]
      /\ call' \in [Call -> CallState]
  BY <1>1 DEF TypeOK
<1>6. Cause(c) => Cause(c)'
  BY <1>4 DEF Cause, Kernel, Invalid, Buffers, Bound, Staging
<1>7. want[c].caller = "runner" /\ (resolved \/ Resident) => held' \cap Buffers(c) = {}
  BY <1>3, <1>4
<1>8. CallInv(c)'
  <2>1. CASE resolved
    <3>1. call'[c].pc = "done"  BY <1>5, <2>1
    <3>. QED  BY <1>1, <1>5, <1>7, <2>1, <3>1 DEF CallInv, Kernel, Unchecked, Buffers, Bound, Staging
  <2>2. CASE ~ resolved
    <3>1. call'[c].pc = "failed"  BY <1>5, <2>2
    <3>. QED  BY <1>1, <1>5, <1>6, <1>7, <2>2, <3>1 DEF CallInv, Kernel, Resident, Buffers, Bound, Staging
  <2>. QED  BY <2>1, <2>2
<1>9. \A b \in Buffer : b[1] # c => (b \in held' <=> b \in held)
  BY <1>2, <1>3, <1>4
<1>10. /\ held' \subseteq Buffer /\ refused' \subseteq Buffer /\ pending' \subseteq Buffer
       /\ lost' \in BOOLEAN /\ loss' \in BOOLEAN /\ failure' \in BOOLEAN /\ FailureInv'
       /\ modules' \subseteq Code \ Broken /\ pipelines' \in [Code -> SUBSET Entry] /\ CacheIsValid'
  BY <1>1, <1>4 DEF IInv, TypeOK, CacheIsValid, FailureInv
<1>. QED  BY <1>4, <1>5, <1>8, <1>9, <1>10, OneCallStep

(* The answer to a submission fails it, or lets it map its output.         *)
LEMMA StepSubmitAnswered ==
  ASSUME IInv, SubmitAnswered
  PROVE  IInv'
<1>1. /\ scopes # <<>> /\ Head(scopes).what = "submit" /\ scopes' = Tail(scopes)
      /\ UNCHANGED <<runtime, want, modules, pipelines, pending, failure, lost, loss>>
  BY DEF SubmitAnswered, Answers, caches, device
<1>2. TypeOK /\ scopes \in Seq(ScopeState) /\ Once(scopes)  BY DEF IInv, TypeOK
<1>3. PICK s \in ScopeState : s = Head(scopes) /\ s = scopes[1] /\ ScopeInv(s)
  BY <1>1, <1>2, TailScopes DEF IInv, ScopesInv
<1>4. PICK c \in Call : c = s.of  BY DEF ScopeState
<1>5. CallInv(c) /\ call[c] \in CallState  BY <1>2, CallFacts DEF IInv
<1>6. s.what = "submit" /\ call[c].pc = "submitting" /\ (s.bad <=> ~ call[c].ran)
  BY <1>1, <1>3, <1>4 DEF ScopeInv
<1>7. IF lost \/ s.bad
        THEN /\ call' = Failing(c, IF lost THEN Dropped ELSE "batch")
             /\ Destroy(Gone(c, FALSE))
        ELSE call' = Moved(c, "mapping") /\ UNCHANGED buffers
  BY <1>3, <1>4 DEF SubmitAnswered
<1>8. /\ scopes' \in Seq(ScopeState) /\ Once(scopes')
      /\ \A i \in 1 .. Len(scopes') :
           \E j \in 1 .. Len(scopes) :
             scopes'[i] = scopes[j] /\ ~ (scopes[j].what \in Single /\ scopes[j].of = c)
  <2>1. scopes' \in Seq(ScopeState) /\ Once(scopes')  BY <1>1, <1>2, TailScopes
  <2>2. ASSUME NEW i \in 1 .. Len(scopes')
        PROVE  \E j \in 1 .. Len(scopes) :
                 scopes'[i] = scopes[j] /\ ~ (scopes[j].what \in Single /\ scopes[j].of = c)
    <3>1. /\ i + 1 \in 1 .. Len(scopes) /\ scopes'[i] = scopes[i + 1]
          /\ ~ (scopes[i + 1].what = "submit" /\ scopes[i + 1].of = c)
      BY <1>1, <1>2, <1>3, <1>4, <1>6, TailScopes DEF Single
    <3>2. ~ (scopes[i + 1].what = "pipeline" /\ scopes[i + 1].of = c)
      BY <1>6, <3>1 DEF IInv, ScopesInv, ScopeInv
    <3>. QED  BY <3>1, <3>2 DEF Single
  <2>. QED  BY <2>1, <2>2
<1>9. CASE lost \/ s.bad
  <2>1. PICK why \in Why : call' = Failing(c, why)  BY <1>7, <1>9 DEF Dropped, Why
  <2>. DEFINE r == [call[c] EXCEPT !.pc = "failed", !.why = why]
  <2>2. r \in CallState  BY <1>5 DEF CallState, Settled
  <2>3. r.kernel = call[c].kernel /\ r.pc = "failed"  BY <1>5 DEF CallState
  <2>4. call' = [call EXCEPT ![c] = r]  BY <1>2, <2>1 DEF TypeOK, Failing
  <2>5. Cause(c)
    BY <1>5, <1>6, <1>9 DEF CallInv, Cause, Buffers
  <2>6. Destroy(Gone(c, FALSE))  BY <1>7, <1>9
  <2>. HIDE DEF r
  <2>. QED  BY <1>1, <1>8, <2>2, <2>3, <2>4, <2>5, <2>6, SettleStep
<1>10. CASE ~ (lost \/ s.bad)
  <2>. DEFINE r == [call[c] EXCEPT !.pc = "mapping"]
  <2>1. r \in CallState  BY <1>5 DEF CallState, Waiting
  <2>2. /\ call'[c] = r /\ \A d \in Call \ {c} : call'[d] = call[d]
        /\ call' \in [Call -> CallState]
    BY <1>2, <1>7, <1>10, <2>1 DEF TypeOK, Moved
  <2>3. call'[c].pc = "mapping" /\ call'[c].kernel = call[c].kernel /\ call'[c].ran
    BY <1>5, <1>6, <1>10, <2>2 DEF CallState
  <2>4. UNCHANGED <<held, refused>>  BY <1>7, <1>10 DEF buffers
  <2>5. CallInv(c)'  BY <1>1, <1>5, <2>3 DEF CallInv, Kernel
  <2>6. /\ held' \subseteq Buffer /\ refused' \subseteq Buffer /\ pending' \subseteq Buffer
        /\ failure' \in BOOLEAN /\ FailureInv'
        /\ lost' \in BOOLEAN /\ loss' \in BOOLEAN /\ modules' \subseteq Code \ Broken
        /\ pipelines' \in [Code -> SUBSET Entry] /\ CacheIsValid'
    BY <1>1, <2>4 DEF IInv, TypeOK, CacheIsValid, FailureInv
  <2>. HIDE DEF r
  <2>. QED  BY <1>1, <1>8, <2>2, <2>4, <2>5, <2>6, OneCallStep
<1>. QED  BY <1>9, <1>10

(* A call that ends destroys what it created, and is counted so.           *)
LEMMA StepMapped ==
  ASSUME IInv, NEW c \in Call, Mapped(c)
  PROVE  IInv'
<1>. DEFINE resolved == ~ lost /\ Staging(c) \cap refused = {}
            r == IF resolved THEN [call[c] EXCEPT !.pc = "done"]
                 ELSE [call[c] EXCEPT !.pc = "failed", !.why = "mapping"]
<1>1. /\ call[c].pc = "mapping"
      /\ UNCHANGED <<runtime, want, modules, pipelines, scopes, pending, failure, lost, loss>>
      /\ call' = IF resolved THEN Moved(c, "done") ELSE Failing(c, "mapping")
      /\ Destroy(Gone(c, resolved))
  BY DEF Mapped, caches, device
<1>2. TypeOK /\ CallInv(c) /\ call[c] \in CallState /\ want[c].flaw \in Flaw  BY CallFacts DEF IInv
<1>3. resolved \in BOOLEAN  OBVIOUS
<1>4. r \in CallState /\ r.kernel = call[c].kernel /\ r.pc = (IF resolved THEN "done" ELSE "failed")
      /\ r.ran = call[c].ran
  <2>. HIDE DEF resolved
  <2>1. CASE resolved  BY <1>2, <2>1 DEF CallState, Settled
  <2>2. CASE ~ resolved  BY <1>2, <2>2 DEF CallState, Settled, Why
  <2>. QED  BY <1>3, <2>1, <2>2
<1>5. call' = [call EXCEPT ![c] = r]
  <2>. HIDE DEF resolved
  <2>. QED  BY <1>1, <1>2 DEF TypeOK, Moved, Failing
<1>6. resolved => r.ran \/ want[c].flaw \in Unchecked
  <2>1. SUFFICES ASSUME resolved, ~ call[c].ran PROVE want[c].flaw \in Unchecked
    BY <1>4
  <2>2. want[c].flaw = "grid" /\ runtime \notin {"node", "web"}
    BY <1>1, <1>2, <2>1 DEF CallInv
  <2>3. runtime \in {"node", "web", "demo", "wgsl", "page"}
    BY <1>2, RuntimeAssumption DEF RuntimeAssumption, TypeOK
  <2>. QED  BY <2>2, <2>3 DEF Unchecked
<1>7. ~ resolved => Cause(c)  BY DEF Cause, Buffers
<1>8. \A j \in 1 .. Len(scopes) : ~ (scopes[j].what \in Single /\ scopes[j].of = c)
  BY <1>1, NoSingle
<1>9. scopes' \in Seq(ScopeState) /\ Once(scopes')  BY <1>1 DEF IInv, TypeOK, Once
<1>. HIDE DEF r, resolved
<1>. QED  BY <1>1, <1>3, <1>4, <1>5, <1>6, <1>7, <1>8, <1>9, SettleStep

-----------------------------------------------------------------------------
(* Theorems *)

(* The invariant holds at the start, is kept by every step, and implies    *)
(* the properties.                                                         *)
LEMMA InvInit == Init => IInv
<1>. SUFFICES ASSUME Init PROVE IInv  OBVIOUS
<1>1. want \in [Call -> Dispatch]  BY DEF Init
<1>2. \A c \in Call : Kernel(c) \in Code \X Entry
  BY <1>1, RuntimeAssumption DEF RuntimeAssumption, Kernel
<1>3. call = [c \in Call |-> [pc |-> "idle", saw |-> FALSE, kernel |-> Kernel(c), waits |-> {},
                              groups |-> 0, ran |-> FALSE, why |-> ""]]
  BY DEF Init
<1>4. call \in [Call -> CallState]
  <2>1. 0 \in 0 .. 2 /\ FALSE \in BOOLEAN  OBVIOUS
  <2>2. ASSUME NEW k \in Code \X Entry, NEW n \in 0 .. 2, NEW b \in BOOLEAN
        PROVE  [pc |-> "idle", saw |-> b, kernel |-> k, waits |-> {}, groups |-> n, ran |-> b, why |-> ""]
                 \in CallState
    BY DEF CallState
  <2>3. ASSUME NEW c \in Call
        PROVE  [pc |-> "idle", saw |-> FALSE, kernel |-> Kernel(c), waits |-> {}, groups |-> 0,
                ran |-> FALSE, why |-> ""] \in CallState
    BY <1>2, <2>1, <2>2
  <2>. QED  BY <1>3, <2>3
<1>5. held = {}  BY DEF Init
<1>6. scopes \in Seq(ScopeState) /\ Len(scopes) = 0  BY EmptySeq DEF Init
<1>7. TypeOK
  <2>1. pipelines \in [Code -> SUBSET Entry] /\ runtime \in Runtime  BY DEF Init
  <2>2. /\ modules = {} /\ held = {} /\ refused = {} /\ pending = {}
        /\ failure = FALSE /\ lost = FALSE /\ loss = FALSE
    BY DEF Init
  <2>. QED  BY <1>1, <1>4, <1>6, <2>1, <2>2 DEF TypeOK
<1>8. FailureInv /\ CacheIsValid  BY <1>5 DEF Init, FailureInv, CacheIsValid
<1>9. \A c \in Call : CallInv(c)  BY <1>3, <1>5 DEF CallInv
<1>10. ScopesInv /\ Once(scopes)  BY <1>6 DEF ScopesInv, Once
<1>. QED  BY <1>7, <1>8, <1>9, <1>10 DEF IInv

(* Every step keeps the invariant: one case for each disjunct of Next.     *)
LEMMA InvStep == IInv /\ [Next]_vars => IInv'
<1>1. SUFFICES ASSUME IInv, [Next]_vars PROVE IInv'
  OBVIOUS
<1>2. CASE UNCHANGED vars
  <2>1. UNCHANGED <<runtime, want, call, modules, pipelines, held, refused, scopes, pending,
                    failure, lost, loss>>
    BY <1>2 DEF vars, caches, buffers, device
  <2>2. /\ scopes' \in Seq(ScopeState) /\ Once(scopes') /\ FailureInv'
        /\ lost' \in BOOLEAN /\ loss' \in BOOLEAN /\ failure' \in BOOLEAN
    BY <1>1, <2>1 DEF IInv, TypeOK, FailureInv, Once
  <2>. QED  BY <1>1, <2>1, <2>2, NobodyStep
<1>3. ASSUME NEW c \in Call, FindPipeline(c) PROVE IInv'  BY <1>1, <1>3, StepFindPipeline
<1>4. ASSUME NEW c \in Call, FindModule(c) PROVE IInv'  BY <1>1, <1>4, StepFindModule
<1>5. ASSUME NEW c \in Call, Compile(c) PROVE IInv'  BY <1>1, <1>5, StepCompile
<1>6. ASSUME NEW c \in Call, FindModuleAndBind(c) PROVE IInv'  BY <1>1, <1>6, StepFindModuleAndBind
<1>7. ASSUME NEW c \in Call, Compiled(c) PROVE IInv'  BY <1>1, <1>7, StepCompiled
<1>8. ASSUME NEW c \in Call, Allocate(c) PROVE IInv'  BY <1>1, <1>8, StepAllocate
<1>9. ASSUME NEW c \in Call, Drain(c) PROVE IInv'  BY <1>1, <1>9, StepDrain
<1>10. ASSUME NEW c \in Call, Mapped(c) PROVE IInv'  BY <1>1, <1>10, StepMapped
<1>11. CASE PipelineAnswered  BY <1>1, <1>11, StepPipelineAnswered
<1>12. CASE AllocationAnswered  BY <1>1, <1>12, StepAllocationAnswered
<1>13. CASE BindAnswered  BY <1>1, <1>13, StepBindAnswered
<1>14. CASE SubmitAnswered  BY <1>1, <1>14, StepSubmitAnswered
<1>15. CASE Lose  BY <1>1, <1>15, StepLose
<1>16. CASE LossKnown  BY <1>1, <1>16, StepLossKnown
<1>. QED
  BY <1>1, <1>2, <1>3, <1>4, <1>5, <1>6, <1>7, <1>8, <1>9, <1>10, <1>11, <1>12, <1>13, <1>14,
     <1>15, <1>16
  DEF Next, Proceed

(* What the invariant says of the properties of the run.                   *)
LEMMA InvImplies ==
  IInv => TypeOK /\ CacheIsValid /\ ResolvedIsComputed /\ FailsForCause /\ LeaksOnlyUnbound
<1>. SUFFICES ASSUME IInv
              PROVE  TypeOK /\ CacheIsValid /\ ResolvedIsComputed /\ FailsForCause
                     /\ LeaksOnlyUnbound
  OBVIOUS
<1>1. ResolvedIsComputed  BY DEF IInv, CallInv, ResolvedIsComputed
<1>2. FailsForCause  BY DEF IInv, CallInv, FailsForCause, Cause
<1>3. LeaksOnlyUnbound  BY DEF IInv, CallInv, LeaksOnlyUnbound, Settled
<1>. QED  BY <1>1, <1>2, <1>3 DEF IInv

(* The invariant holds in every reachable state.                           *)
LEMMA Invariance == Spec => []IInv
<1>. QED  BY InvInit, InvStep, PTL DEF Spec

(* Every variable keeps its type: in particular a call never hears of more *)
(* bind groups than it waits for.                                          *)
THEOREM TypeCorrect == Spec => []TypeOK
BY Invariance, InvImplies, PTL

(* However many calls compile the same kernel at once, the cache of        *)
(* pipelines (pipelineFor) never holds an invalid one.                     *)
THEOREM CacheStaysValid == Spec => []CacheIsValid
BY Invariance, InvImplies, PTL

(* A call that resolves returns what its kernel computed, but for the      *)
(* faults its runtime does not look for.                                   *)
THEOREM ResolvesToTheComputed == Spec => []ResolvedIsComputed
BY Invariance, InvImplies, PTL

(* A call that fails has a cause of its own, or the device's.              *)
THEOREM FailuresHaveCauses == Spec => []FailsForCause
BY Invariance, InvImplies, PTL

(* The runners leave a buffer behind only where the code before their try  *)
(* fails.                                                                  *)
THEOREM LeaksAreBounded == Spec => []LeaksOnlyUnbound
BY Invariance, InvImplies, PTL

(* No step takes a pipeline out of the cache: the map of a source is       *)
(* looked up again after the awaits of pipelineFor.                        *)
LEMMA CacheGrows == IInv /\ [Next]_vars => \A s \in Code : pipelines[s] \subseteq pipelines'[s]
<1>1. SUFFICES ASSUME IInv, [Next]_vars PROVE \A s \in Code : pipelines[s] \subseteq pipelines'[s]
  OBVIOUS
<1>2. CASE PipelineAnswered
  <2>1. pipelines \in [Code -> SUBSET Entry]  BY <1>1 DEF IInv, TypeOK
  <2>. QED  BY <1>2, <2>1 DEF PipelineAnswered, PipelinesWith
<1>3. CASE UNCHANGED pipelines
  BY <1>3
<1>4. PipelineAnswered \/ UNCHANGED pipelines
  BY <1>1 DEF Next, Proceed, vars, caches, FindPipeline, FindModule, Compile, FindModuleAndBind,
     Compiled, Allocate, Drain, Mapped, AllocationAnswered, BindAnswered, SubmitAnswered, Lose, LossKnown
<1>. QED  BY <1>2, <1>3, <1>4

(* In particular none of the calls that compile the same source at once    *)
(* loses the pipeline of another.                                          *)
THEOREM CacheNeverShrinks == Spec => CacheKeeps
<1>1. IInv /\ [Next]_vars => [\A s \in Code : pipelines[s] \subseteq pipelines'[s]]_vars
  BY CacheGrows
<1>. QED  BY <1>1, Invariance, PTL DEF Spec, CacheKeeps
=============================================================================
