----------------------- MODULE RuntimeDiagnosisProofs -----------------------
(***************************************************************************)
(* What a call that fails is told: theorems about ResidentRuntime, for any *)
(* number of calls, any kernels and any number of refused buffers.  Both   *)
(* rest on the inductive invariant of ResidentRuntimeProofs.               *)
(***************************************************************************)
EXTENDS ResidentRuntimeProofs

-----------------------------------------------------------------------------
(* The scopes after a step *)

(* The scopes a step leaves of the old ones.                               *)
Left == {scopes} \cup {q \in {Tail(scopes)} : scopes # <<>>}

(* Where a scope stands after a step: one of those left, in the order they *)
(* had, or one of the new ones behind them.                                *)
LEMMA Placed ==
  ASSUME TypeOK, NEW q \in Left, NEW r \in Seq(ScopeState)
  PROVE  /\ q \in Seq(ScopeState) /\ q \o r \in Seq(ScopeState) /\ Len(q) \in Nat /\ Len(r) \in Nat
         /\ Len(scopes) \in Nat /\ Len(q \o r) = Len(q) + Len(r)
         /\ \A i \in 1 .. Len(q) : (q \o r)[i] = q[i]
         /\ \A j \in 1 .. Len(r) : (q \o r)[Len(q) + j] = r[j]
         /\ q = scopes \/ (/\ Len(scopes) = Len(q) + 1 /\ Head(scopes) = scopes[1]
                           /\ \A i \in 1 .. Len(q) : q[i] = scopes[i + 1])
<1>1. scopes \in Seq(ScopeState)  BY DEF TypeOK
<1>2. CASE q = scopes
  BY <1>1, <1>2, ConcatProperties, LenProperties
<1>3. CASE scopes # <<>> /\ q = Tail(scopes)
  <2>1. /\ q \in Seq(ScopeState) /\ Len(q) = Len(scopes) - 1 /\ Head(scopes) = scopes[1]
        /\ \A i \in 1 .. Len(q) : q[i] = scopes[i + 1]
    BY <1>1, <1>3, HeadTailProperties
  <2>2. Len(q) \in Nat /\ Len(r) \in Nat /\ Len(scopes) \in Nat  BY <1>1, <2>1, LenProperties
  <2>3. /\ q \o r \in Seq(ScopeState) /\ Len(q \o r) = Len(q) + Len(r)
        /\ \A i \in 1 .. Len(q) + Len(r) : (q \o r)[i] = IF i <= Len(q) THEN q[i] ELSE r[i - Len(q)]
    BY <2>1, ConcatProperties
  <2>. QED  BY <2>1, <2>2, <2>3
<1>. QED  BY <1>2, <1>3 DEF Left

(* Every scope after a step is an old or a new one.                        *)
LEMMA Origin ==
  ASSUME TypeOK, NEW q \in Left, NEW r \in Seq(ScopeState), NEW i \in 1 .. Len(q \o r)
  PROVE  \/ \E j \in 1 .. Len(scopes) : (q \o r)[i] = scopes[j]
         \/ \E j \in 1 .. Len(r) : (q \o r)[i] = r[j]
<1>1. /\ Len(q) \in Nat /\ Len(r) \in Nat /\ Len(scopes) \in Nat /\ Len(q \o r) = Len(q) + Len(r)
      /\ \A k \in 1 .. Len(q) : (q \o r)[k] = q[k]
      /\ \A j \in 1 .. Len(r) : (q \o r)[Len(q) + j] = r[j]
      /\ q = scopes \/ (/\ Len(scopes) = Len(q) + 1
                        /\ \A k \in 1 .. Len(q) : q[k] = scopes[k + 1])
  BY Placed
<1>2. CASE i <= Len(q)
  <2>1. i \in 1 .. Len(q) /\ (q \o r)[i] = q[i]  BY <1>1, <1>2
  <2>2. CASE q = scopes  BY <2>1, <2>2
  <2>3. CASE Len(scopes) = Len(q) + 1 /\ \A k \in 1 .. Len(q) : q[k] = scopes[k + 1]
    <3>1. i + 1 \in 1 .. Len(scopes) /\ q[i] = scopes[i + 1]  BY <1>1, <2>1, <2>3
    <3>. QED  BY <2>1, <3>1
  <2>. QED  BY <1>1, <2>2, <2>3
<1>3. CASE ~ (i <= Len(q))
  <2>1. i - Len(q) \in 1 .. Len(r) /\ Len(q) + (i - Len(q)) = i  BY <1>1, <1>3
  <2>2. (q \o r)[i] = r[i - Len(q)]  BY <1>1, <2>1
  <2>. QED  BY <2>1, <2>2
<1>. QED  BY <1>2, <1>3

(* A step that pushes nothing, or one scope.                               *)
LEMMA FewScopes ==
  ASSUME TypeOK
  PROVE  /\ scopes \in Left /\ scopes \o <<>> = scopes
         /\ scopes # <<>> => Tail(scopes) \in Left /\ Tail(scopes) \o <<>> = Tail(scopes)
         /\ \A s \in ScopeState : /\ <<s>> \in Seq(ScopeState) /\ Append(scopes, s) = scopes \o <<s>>
                                  /\ Len(<<s>>) = 1 /\ <<s>>[1] = s
         /\ <<>> \in Seq(ScopeState) /\ Len(<<>>) = 0
<1>1. scopes \in Seq(ScopeState)  BY DEF TypeOK
<1>2. scopes \in Left  BY DEF Left
<1>3. scopes \o <<>> = scopes  BY <1>1, ConcatEmptySeq
<1>4. scopes # <<>> => Tail(scopes) \in Left /\ Tail(scopes) \in Seq(ScopeState)
  BY <1>1, HeadTailProperties, Zenon DEF Left
<1>5. scopes # <<>> => Tail(scopes) \o <<>> = Tail(scopes)  BY <1>4, ConcatEmptySeq
<1>6. ASSUME NEW s \in ScopeState
      PROVE  /\ <<s>> \in Seq(ScopeState) /\ Append(scopes, s) = scopes \o <<s>>
             /\ Len(<<s>>) = 1 /\ <<s>>[1] = s
  BY <1>1, AppendIsConcat
<1>. QED  BY <1>2, <1>3, <1>4, <1>5, <1>6, EmptySeq

-----------------------------------------------------------------------------
(* What a step adds *)

(* The scopes around new buffers, in order.                                *)
LEMMA AllocationScopesAre ==
  ASSUME NEW c \in Call, NEW bad \in SUBSET Buffer, runtime \in {"node", "web"}
  PROVE  /\ Len(AllocationScopes(c, <<"in", "out">>, bad)) = 2
         /\ AllocationScopes(c, <<"in", "out">>, bad)[1] = Scope("in", c, <<c, "in">> \in bad)
         /\ AllocationScopes(c, <<"in", "out">>, bad)[2] = Scope("out", c, <<c, "out">> \in bad)
         /\ Len(AllocationScopes(c, <<"staging">>, bad)) = 1
         /\ AllocationScopes(c, <<"staging">>, bad)[1] = Scope("staging", c, <<c, "staging">> \in bad)
<1>1. ASSUME NEW names \in {<<"in", "out">>, <<"staging">>}, NEW n \in {1, 2}, Len(names) = n
      PROVE  /\ Len(AllocationScopes(c, names, bad)) = n
             /\ \A i \in 1 .. n : AllocationScopes(c, names, bad)[i]
                                    = Scope(names[i], c, <<c, names[i]>> \in bad)
  <2>. DEFINE s(i) == Scope(names[i], c, <<c, names[i]>> \in bad)
  <2>1. AllocationScopes(c, names, bad) = [i \in 1 .. n |-> s(i)]
    BY <1>1 DEF AllocationScopes
  <2>. HIDE DEF s
  <2>2. /\ Len(AllocationScopes(c, names, bad)) = n
        /\ \A i \in 1 .. n : AllocationScopes(c, names, bad)[i] = s(i)
    BY <2>1
  <2>. QED  BY <2>2 DEF s
<1>2. Len(<<"in", "out">>) = 2 /\ Len(<<"staging">>) = 1  OBVIOUS
<1>3. /\ Len(AllocationScopes(c, <<"in", "out">>, bad)) = 2
      /\ \A i \in 1 .. 2 : AllocationScopes(c, <<"in", "out">>, bad)[i]
                             = Scope(<<"in", "out">>[i], c, <<c, <<"in", "out">>[i]>> \in bad)
  BY <1>1, <1>2
<1>4. /\ Len(AllocationScopes(c, <<"staging">>, bad)) = 1
      /\ \A i \in 1 .. 1 : AllocationScopes(c, <<"staging">>, bad)[i]
                             = Scope(<<"staging">>[i], c, <<c, <<"staging">>[i]>> \in bad)
  BY <1>1, <1>2
<1>5. <<"in", "out">>[1] = "in" /\ <<"in", "out">>[2] = "out" /\ <<"staging">>[1] = "staging"
      /\ 1 \in 1 .. 2 /\ 2 \in 1 .. 2 /\ 1 \in 1 .. 1
  OBVIOUS
<1>. QED  BY <1>3, <1>4, <1>5, Zenon

(* A step of call c that leaves the others alone.                          *)
Mine(c) == \A d \in Call \ {c} : call'[d] = call[d]

(* What a submission does, whether node refuses its grid or not.           *)
Submission(c, bad, r) ==
  /\ r \in Seq(ScopeState) /\ scopes' = Tail(scopes) \o r
  /\ \A k \in 1 .. Len(r) : r[k].of = c /\ r[k].what \in {"staging", "submit"}
  /\ runtime = "node" => Len(r) = 1 /\ r[1] = Scope("staging", c, <<c, "staging">> \in bad)
  /\ refused' = refused \cup bad
  /\ pending' \subseteq pending \cup Staging(c)
  /\ Mine(c)
  /\ \/ call'[c].pc = "failed" /\ call'[c].why = "grid"
     \/ call'[c].pc \in {"mapping", "submitting"}

LEMMA Submitted ==
  ASSUME TypeOK, NEW c \in Call, scopes # <<>>, Submit(c)
  PROVE  \E bad \in SUBSET Staging(c), r \in Seq(ScopeState) : Submission(c, bad, r)
<1>1. call \in [Call -> CallState] /\ call[c] \in CallState /\ Staging(c) \subseteq Buffer
  BY CallFacts DEF TypeOK
<1>2. ASSUME NEW bad \in SUBSET Staging(c)
      PROVE  LET a == AllocationScopes(c, <<"staging">>, bad)
             IN /\ a \in Seq(ScopeState)
                /\ \A k \in 1 .. Len(a) : a[k].of = c /\ a[k].what = "staging"
                /\ runtime = "node" => Len(a) = 1 /\ a[1] = Scope("staging", c, <<c, "staging">> \in bad)
  <2>. DEFINE a == AllocationScopes(c, <<"staging">>, bad)
  <2>1. bad \in SUBSET Buffer  BY <1>1
  <2>2. a \in Seq(ScopeState)  BY <2>1, AllocationScopesType
  <2>3. CASE runtime \in {"node", "web"}
    <3>1. Len(a) = 1 /\ a[1] = Scope("staging", c, <<c, "staging">> \in bad)
      BY <2>1, <2>3, AllocationScopesAre
    <3>. QED  BY <2>2, <3>1 DEF Scope
  <2>4. CASE runtime \notin {"node", "web"}
    <3>1. a = <<>>  BY <2>4 DEF AllocationScopes
    <3>. QED  BY <2>2, <2>4, <3>1, EmptySeq
  <2>. QED  BY <2>3, <2>4
<1>3. CASE runtime = "node" /\ want[c].flaw = "grid"
  <2>1. PICK bad \in Refusable(Staging(c)) :
          /\ refused' = refused \cup bad
          /\ scopes' = Tail(scopes) \o AllocationScopes(c, <<"staging">>, bad)
          /\ pending' = pending \cup Staging(c)
          /\ call' = [Failing(c, "grid") EXCEPT ![c].groups = 0]
    BY <1>3 DEF Submit
  <2>2. bad \in SUBSET Staging(c)  BY <2>1 DEF Refusable
  <2>3. Mine(c) /\ call'[c].pc = "failed" /\ call'[c].why = "grid"
    BY <1>1, <2>1 DEF Failing, Mine, CallState
  <2>. QED  BY <1>2, <2>1, <2>2, <2>3 DEF Submission
<1>4. CASE ~ (runtime = "node" /\ want[c].flaw = "grid")
  <2>1. PICK bad \in Refusable(Staging(c)), ran \in BOOLEAN :
          /\ Create(Staging(c), bad)
          /\ scopes' = Tail(scopes) \o AllocationScopes(c, <<"staging">>, bad) \o SubmitScope(c, ran)
          /\ pending' = IF runtime = "node" THEN pending \cup Staging(c) ELSE pending
          /\ call' = [call EXCEPT ![c].pc = IF SubmitScope(c, ran) = <<>> THEN "mapping" ELSE "submitting",
                                  ![c].groups = 0, ![c].ran = ran]
    <3>1. PICK bad \in Refusable(Staging(c)) :
            LET ran == bad = {} /\ want[c].flaw # "grid"
                popped == SubmitScope(c, ran)
            IN /\ Create(Staging(c), bad)
               /\ scopes' = Tail(scopes) \o AllocationScopes(c, <<"staging">>, bad) \o popped
               /\ pending' = IF runtime = "node" THEN pending \cup Staging(c) ELSE pending
               /\ call' = [call EXCEPT ![c].pc = IF popped = <<>> THEN "mapping" ELSE "submitting",
                                       ![c].groups = 0, ![c].ran = ran]
      BY <1>4 DEF Submit
    <3>2. PICK ran \in BOOLEAN : ran = (bad = {} /\ want[c].flaw # "grid")  OBVIOUS
    <3>. QED  BY <3>1, <3>2
  <2>2. bad \in SUBSET Staging(c)  BY <2>1 DEF Refusable
  <2>. DEFINE a == AllocationScopes(c, <<"staging">>, bad)
              p == SubmitScope(c, ran)
  <2>3. p \in Seq(ScopeState) /\ (\A k \in 1 .. Len(p) : p[k].of = c /\ p[k].what = "submit")
        /\ (runtime = "node" => p = <<>>)
    <3>1. CASE runtime = "web"
      <4>1. PICK n \in BOOLEAN : n = ~ ran  OBVIOUS
      <4>2. PICK s \in ScopeState : s = [what |-> "submit", of |-> c, bad |-> n]  BY DEF ScopeState
      <4>3. p = <<s>>  BY <3>1, <4>1, <4>2 DEF SubmitScope, Scope
      <4>. HIDE DEF p
      <4>4. p \in Seq(ScopeState) /\ Len(p) = 1 /\ p[1] = s  BY <4>3, FewScopes
      <4>. QED  BY <3>1, <4>2, <4>4
    <3>2. CASE runtime # "web"
      <4>1. p = <<>>  BY <3>2 DEF SubmitScope
      <4>. HIDE DEF p
      <4>. QED  BY <4>1, FewScopes
    <3>. QED  BY <3>1, <3>2
  <2>4. /\ a \in Seq(ScopeState)
        /\ \A k \in 1 .. Len(a) : a[k].of = c /\ a[k].what = "staging"
        /\ runtime = "node" => Len(a) = 1 /\ a[1] = Scope("staging", c, <<c, "staging">> \in bad)
    BY <1>2, <2>2
  <2>5. Mine(c) /\ call'[c].pc \in {"mapping", "submitting"}
    <3>1. PICK e \in {"mapping", "submitting"} :
            call' = [call EXCEPT ![c].pc = e, ![c].groups = 0, ![c].ran = ran]
      BY <2>1
    <3>. QED  BY <1>1, <3>1 DEF Mine, CallState
  <2>6. refused' = refused \cup bad /\ pending' \subseteq pending \cup Staging(c)
    BY <2>1 DEF Create
  <2>7. scopes' = Tail(scopes) \o a \o p  BY <2>1
  <2>. HIDE DEF a, p
  <2>8. scopes \in Seq(ScopeState)  BY DEF TypeOK
  <2>. QED
    <3>1. SUFFICES scopes' = Tail(scopes) \o (a \o p) /\ Submission(c, bad, a \o p)
      BY <2>2, <2>3, <2>4, ConcatProperties
    <3>2. PICK r : r = a \o p  OBVIOUS
    <3>3. /\ r \in Seq(ScopeState)
          /\ \A k \in 1 .. Len(r) : r[k].of = c /\ r[k].what \in {"staging", "submit"}
          /\ runtime = "node" => r = a
      <4>1. /\ r \in Seq(ScopeState) /\ Len(r) = Len(a) + Len(p)
            /\ \A k \in 1 .. Len(a) + Len(p) : r[k] = IF k <= Len(a) THEN a[k] ELSE p[k - Len(a)]
        BY <2>3, <2>4, <3>2, ConcatProperties
      <4>2. Len(a) \in Nat /\ Len(p) \in Nat  BY <2>3, <2>4, LenProperties
      <4>3. \A k \in 1 .. Len(r) : \/ k \in 1 .. Len(a) /\ r[k] = a[k]
                                   \/ k - Len(a) \in 1 .. Len(p) /\ r[k] = p[k - Len(a)]
        BY <4>1, <4>2
      <4>4. runtime = "node" => r = a  BY <2>3, <2>4, <3>2, ConcatEmptySeq
      <4>5. \A k \in 1 .. Len(r) : r[k].of = c /\ r[k].what \in {"staging", "submit"}
        BY <2>3, <2>4, <4>3
      <4>. QED  BY <4>1, <4>4, <4>5
    <3>4. scopes' = Tail(scopes) \o r
      <4>1. Tail(scopes) \in Seq(ScopeState)  BY <2>8, HeadTailProperties
      <4>. QED  BY <2>3, <2>4, <2>7, <3>2, <4>1, ConcatAssociative
    <3>. QED  BY <2>4, <2>5, <2>6, <3>2, <3>3, <3>4 DEF Submission
<1>. QED  BY <1>3, <1>4

(* What a call may fail with before its bind group asks the device.        *)
Objected(c) ==
  \/ call[c].why = "allocation"
  \/ call[c].why = "type" /\ want[c].flaw = "type"

(* What a call that creates its buffers does.                              *)
Allocation(c, bad, r) ==
  /\ r \in Seq(ScopeState) /\ scopes' = scopes \o r
  /\ \A k \in 1 .. Len(r) : r[k].of = c /\ r[k].what \in {"in", "out", "bind"}
  /\ runtime = "node" =>
       /\ Len(r) >= 2 /\ \A k \in 3 .. Len(r) : r[k].what = "bind"
       /\ r[1] = Scope("in", c, <<c, "in">> \in bad)
       /\ r[2] = Scope("out", c, <<c, "out">> \in bad)
       /\ \/ call'[c].pc = "draining" /\ call'[c].waits = pending \cup Bound(c)
          \/ call'[c].pc = "failed" /\ Objected(c)'
  /\ refused' = refused \cup bad
  /\ pending' = {}
  /\ Mine(c)

LEMMA Allocated ==
  ASSUME TypeOK, NEW c \in Call, Allocate(c)
  PROVE  \E bad \in SUBSET Bound(c), r \in Seq(ScopeState) : Allocation(c, bad, r)
<1>. DEFINE waits == IF runtime = "node" THEN Awaited(pending \cup Bound(c)) ELSE {}
            ahead == IF waits = {} THEN GroupCount(c) ELSE GroupCount(c) - 1
            stop  == ahead > 0 /\ Objection(c) # ""
            begun == [call[c] EXCEPT !.pc = IF waits = {} THEN "binding" ELSE "draining",
                                     !.waits = waits, !.groups = GroupCount(c)]
            moved == IF stop THEN [begun EXCEPT !.pc = "failed", !.why = Objection(c)] ELSE begun
<1>1. /\ call \in [Call -> CallState] /\ call[c] \in CallState /\ scopes \in Seq(ScopeState)
      /\ Bound(c) \subseteq Buffer /\ refused \subseteq Buffer
  BY CallFacts DEF TypeOK
<1>2. PICK bad \in Refusable(Bound(c)) :
        /\ Create(Bound(c), bad)
        /\ call' = [call EXCEPT ![c] = moved]
        /\ scopes' = scopes \o AllocationScopes(c, <<"in", "out">>, bad)
                            \o (IF stop THEN <<>> ELSE BindScopes(c, ahead, refused'))
  BY DEF Allocate
<1>3. pending' = {} /\ UNCHANGED <<runtime, want>>  BY DEF Allocate
<1>4. bad \in SUBSET Bound(c) /\ bad \in SUBSET Buffer  BY <1>1, <1>2 DEF Refusable
<1>5. refused' = refused \cup bad /\ refused' \in SUBSET Buffer  BY <1>1, <1>2, <1>4 DEF Create
<1>6. ahead \in Nat  BY DEF GroupCount
<1>7. Mine(c) /\ call'[c] = moved
  <2>. HIDE DEF moved
  <2>. QED  BY <1>1, <1>2 DEF Mine
<1>8. runtime = "node" =>
        \/ call'[c].pc = "draining" /\ call'[c].waits = pending \cup Bound(c)
        \/ call'[c].pc = "failed" /\ Objected(c)'
  <2>. SUFFICES ASSUME runtime = "node"
                PROVE  \/ call'[c].pc = "draining" /\ call'[c].waits = pending \cup Bound(c)
                       \/ call'[c].pc = "failed" /\ Objected(c)'
    OBVIOUS
  <2>1. waits = pending \cup Bound(c) /\ waits # {}  BY DEF Awaited, Bound
  <2>2. begun.pc = "draining" /\ begun.waits = waits
    <3>. HIDE DEF waits
    <3>. QED  BY <1>1, <2>1 DEF CallState
  <2>3. stop => moved.pc = "failed" /\ moved.why = Objection(c)
    <3>. HIDE DEF waits, ahead
    <3>. QED  BY <1>1 DEF CallState
  <2>4. ~ stop => moved = begun  OBVIOUS
  <2>5. stop => Objection(c) = "allocation" \/ (Objection(c) = "type" /\ want[c].flaw = "type")
    BY DEF Objection
  <2>. HIDE DEF moved, begun, stop, waits
  <2>. QED  BY <1>3, <1>7, <2>1, <2>2, <2>3, <2>4, <2>5 DEF Objected
<1>. DEFINE a == AllocationScopes(c, <<"in", "out">>, bad)
            b == IF stop THEN <<>> ELSE BindScopes(c, ahead, refused')
<1>9. /\ a \in Seq(ScopeState) /\ \A k \in 1 .. Len(a) : a[k].of = c /\ a[k].what \in {"in", "out"}
      /\ runtime = "node" => /\ Len(a) = 2 /\ a[1] = Scope("in", c, <<c, "in">> \in bad)
                             /\ a[2] = Scope("out", c, <<c, "out">> \in bad)
  <2>1. a \in Seq(ScopeState)  BY <1>4, AllocationScopesType
  <2>2. CASE runtime \in {"node", "web"}
    <3>1. /\ Len(a) = 2 /\ a[1] = Scope("in", c, <<c, "in">> \in bad)
          /\ a[2] = Scope("out", c, <<c, "out">> \in bad)
      BY <1>4, <2>2, AllocationScopesAre
    <3>. HIDE DEF a
    <3>2. /\ a[1].of = c /\ a[1].what = "in" /\ a[2].of = c /\ a[2].what = "out"
      BY <3>1 DEF Scope
    <3>3. \A k \in 1 .. Len(a) : k = 1 \/ k = 2  BY <3>1
    <3>. QED  BY <2>1, <3>1, <3>2, <3>3
  <2>3. CASE runtime \notin {"node", "web"}
    <3>1. a = <<>>  BY <2>3 DEF AllocationScopes
    <3>. QED  BY <2>1, <2>3, <3>1, EmptySeq
  <2>. QED  BY <2>2, <2>3
<1>10. b \in Seq(ScopeState) /\ \A k \in 1 .. Len(b) : b[k].of = c /\ b[k].what = "bind"
  <2>1. \A x \in SUBSET Buffer, n \in Nat :
          /\ BindScopes(c, n, x) \in Seq(ScopeState)
          /\ \A k \in 1 .. Len(BindScopes(c, n, x)) :
               BindScopes(c, n, x)[k].of = c /\ BindScopes(c, n, x)[k].what = "bind"
    BY BindScopesType
  <2>2. b = <<>> \/ b = BindScopes(c, ahead, refused')  OBVIOUS
  <2>. HIDE DEF b, ahead, stop
  <2>3. CASE b = <<>>  BY <2>3, EmptySeq
  <2>4. CASE b = BindScopes(c, ahead, refused')
    <3>1. PICK x \in SUBSET Buffer : x = refused'  BY <1>5
    <3>. QED  BY <1>6, <2>1, <2>4, <3>1
  <2>. QED  BY <2>2, <2>3, <2>4
<1>11. scopes' = scopes \o a \o b  BY <1>2
<1>. HIDE DEF a, b, ahead, stop, moved, waits
<1>12. PICK r : r = a \o b  OBVIOUS
<1>13. scopes' = scopes \o r
  BY <1>1, <1>9, <1>10, <1>11, <1>12, ConcatAssociative
<1>14. /\ r \in Seq(ScopeState) /\ Len(r) = Len(a) + Len(b)
       /\ \A k \in 1 .. Len(a) + Len(b) : r[k] = IF k <= Len(a) THEN a[k] ELSE b[k - Len(a)]
       /\ Len(a) \in Nat /\ Len(b) \in Nat
  BY <1>9, <1>10, <1>12, ConcatProperties, LenProperties
<1>15. \A k \in 1 .. Len(r) : \/ k \in 1 .. Len(a) /\ r[k] = a[k]
                              \/ k - Len(a) \in 1 .. Len(b) /\ r[k] = b[k - Len(a)]
  BY <1>14
<1>16. \A k \in 1 .. Len(r) : r[k].of = c /\ r[k].what \in {"in", "out", "bind"}
  BY <1>9, <1>10, <1>15
<1>17. runtime = "node" => /\ Len(r) >= 2 /\ r[1] = a[1] /\ r[2] = a[2]
                           /\ \A k \in 3 .. Len(r) : r[k].what = "bind"
  <2>. SUFFICES ASSUME runtime = "node"
                PROVE  /\ Len(r) >= 2 /\ r[1] = a[1] /\ r[2] = a[2]
                       /\ \A k \in 3 .. Len(r) : r[k].what = "bind"
    OBVIOUS
  <2>1. Len(a) = 2  BY <1>9
  <2>2. Len(r) >= 2 /\ r[1] = a[1] /\ r[2] = a[2]  BY <1>14, <2>1
  <2>3. \A k \in 3 .. Len(r) : k \in 1 .. Len(r) /\ k \notin 1 .. Len(a)  BY <1>14, <2>1
  <2>. QED  BY <1>10, <1>15, <2>2, <2>3
<1>. QED
  <2>1. Allocation(c, bad, r)
    BY <1>3, <1>5, <1>7, <1>8, <1>9, <1>13, <1>14, <1>16, <1>17 DEF Allocation
  <2>. QED  BY <1>4, <1>14, <2>1

-----------------------------------------------------------------------------
(* Calls whose kernel is invalid *)

(* A call whose kernel does not compile, or has no such entry point, gets  *)
(* no pipeline; only a one-shot runner takes it as far as its bind group,  *)
(* and there its scope is bad.                                             *)
Unbindable(c) ==
  Invalid(Kernel(c)) =>
    /\ call[c].pc \in {"idle", "compiling", "building", "binding", "failed"}
    /\ want[c].code \in Broken => call[c].pc \in {"idle", "compiling", "failed"}
    /\ call[c].pc = "building" => Resident
    /\ call[c].pc = "binding" => ~ Resident /\ ~ (ChecksTypes /\ want[c].flaw = "type")
    /\ (call[c].pc = "failed" /\ ~ lost) => call[c].why = Diagnosis(c)

CaughtAtBind(s) == (s.what = "bind" /\ ~ Resident /\ Invalid(Kernel(s.of))) => s.bad

DInv ==
  /\ \A c \in Call : Unbindable(c)
  /\ \A i \in 1 .. Len(scopes) : CaughtAtBind(scopes[i])

(* A step of one call keeps this if it keeps what is said of that call,    *)
(* and of the scopes it adds.                                              *)
LEMMA UnboundKeeps ==
  ASSUME TypeOK, DInv, NEW c \in Call, Mine(c), UNCHANGED <<runtime, want>>, lost => lost',
         Unbindable(c)', NEW q \in Left, NEW r \in Seq(ScopeState), scopes' = q \o r,
         \A k \in 1 .. Len(r) : CaughtAtBind(r[k])'
  PROVE  DInv'
<1>1. ASSUME NEW d \in Call PROVE Unbindable(d)'
  <2>1. CASE d = c  BY <2>1
  <2>2. CASE d # c
    <3>1. call'[d] = call[d]  BY <2>2 DEF Mine
    <3>2. Unbindable(d)  BY DEF DInv
    <3>. QED  BY <3>1, <3>2 DEF Unbindable, Diagnosis, Invalid, Kernel, Resident, ChecksTypes
  <2>. QED  BY <2>1, <2>2
<1>2. ASSUME NEW i \in 1 .. Len(scopes') PROVE CaughtAtBind(scopes[i])'
  <2>1. CASE \E j \in 1 .. Len(scopes) : scopes'[i] = scopes[j]
    BY <2>1 DEF DInv, CaughtAtBind, Invalid, Kernel, Resident
  <2>2. CASE \E j \in 1 .. Len(r) : scopes'[i] = r[j]
    BY <2>2 DEF CaughtAtBind
  <2>. QED  BY <2>1, <2>2, Origin
<1>. QED  BY <1>1, <1>2 DEF DInv

(* In particular a step that adds no scope, or one for its pipeline.       *)
LEMMA UnboundKeepsFew ==
  ASSUME TypeOK, DInv, NEW c \in Call, Mine(c), UNCHANGED <<runtime, want>>, lost => lost',
         Unbindable(c)',
         \/ scopes' = scopes
         \/ scopes # <<>> /\ scopes' = Tail(scopes)
         \/ scopes' = PipelineScope(c)
  PROVE  DInv'
<1>1. CASE scopes' = scopes
  <2>1. scopes \in Left /\ <<>> \in Seq(ScopeState) /\ scopes' = scopes \o <<>> /\ Len(<<>>) = 0
    BY <1>1, FewScopes
  <2>2. \A k \in 1 .. Len(<<>>) : FALSE  BY <2>1
  <2>. QED  BY <2>1, <2>2, UnboundKeeps
<1>2. CASE scopes # <<>> /\ scopes' = Tail(scopes)
  <2>1. Tail(scopes) \in Left /\ <<>> \in Seq(ScopeState) /\ scopes' = Tail(scopes) \o <<>> /\ Len(<<>>) = 0
    BY <1>2, FewScopes
  <2>2. \A k \in 1 .. Len(<<>>) : FALSE  BY <2>1
  <2>. QED  BY <2>1, <2>2, UnboundKeeps
<1>3. CASE scopes' = PipelineScope(c)
  <2>1. PICK bad \in BOOLEAN : bad = Invalid(Kernel(c))  BY DEF Invalid
  <2>2. PICK s \in ScopeState : s = [what |-> "pipeline", of |-> c, bad |-> bad]
    BY <2>1 DEF ScopeState
  <2>3. PipelineScope(c) = Append(scopes, s)  BY <2>1, <2>2 DEF PipelineScope, Scope
  <2>4. scopes \in Left /\ <<s>> \in Seq(ScopeState) /\ scopes' = scopes \o <<s>>
        /\ Len(<<s>>) = 1 /\ <<s>>[1] = s
    BY <1>3, <2>3, FewScopes
  <2>5. CaughtAtBind(s)'  BY <2>2 DEF CaughtAtBind
  <2>6. \A k \in 1 .. Len(<<s>>) : <<s>>[k] = s  BY <2>4
  <2>7. \A k \in 1 .. Len(<<s>>) : CaughtAtBind(<<s>>[k])'  BY <2>5, <2>6 DEF CaughtAtBind
  <2>. QED  BY <2>4, <2>7, UnboundKeeps
<1>. QED  BY <1>1, <1>2, <1>3

(* What is said of a call whose kernel is valid says nothing.              *)
LEMMA ValidIsFree ==
  ASSUME NEW c \in Call, ~ Invalid(Kernel(c)), UNCHANGED want
  PROVE  Unbindable(c)'
BY DEF Unbindable, Invalid, Kernel

(* One call begins, or is moved on by an answer.                           *)
LEMMA CallSet ==
  ASSUME TypeOK, NEW c \in Call
  PROVE  /\ \A why \in Why : call' = Failing(c, why) =>
                               Mine(c) /\ call'[c].pc = "failed" /\ call'[c].why = why
         /\ \A p \in {"built", "done"} \cup Waiting : call' = Moved(c, p) => Mine(c) /\ call'[c].pc = p
         /\ \A p \in Waiting : call' = Looked(c, p) => Mine(c) /\ call'[c].pc = p
<1>1. call \in [Call -> CallState] /\ call[c] \in CallState  BY DEF TypeOK
<1>2. ASSUME NEW why \in Why, call' = Failing(c, why)
      PROVE  Mine(c) /\ call'[c].pc = "failed" /\ call'[c].why = why
  BY <1>1, <1>2 DEF Failing, Mine, CallState
<1>3. ASSUME NEW p \in {"built", "done"} \cup Waiting, call' = Moved(c, p)
      PROVE  Mine(c) /\ call'[c].pc = p
  BY <1>1, <1>3 DEF Moved, Mine, CallState
<1>4. ASSUME NEW p \in Waiting, call' = Looked(c, p)
      PROVE  Mine(c) /\ call'[c].pc = p
  <2>1. PICK saw \in BOOLEAN : saw = (pipelines[want[c].code] # {})  OBVIOUS
  <2>2. call' = [call EXCEPT ![c].pc = p, ![c].saw = saw]  BY <1>4, <2>1 DEF Looked
  <2>. QED  BY <1>1, <2>2 DEF Mine, CallState
<1>. QED  BY <1>2, <1>3, <1>4

(* Calls begin: a pipeline in the cache is valid, and so is a module.      *)
LEMMA UnboundBegins ==
  ASSUME IInv, DInv, NEW c \in Call, FindPipeline(c) \/ FindModule(c) \/ Compile(c)
  PROVE  DInv'
<1>1. TypeOK /\ CacheIsValid /\ modules \subseteq Code \ Broken /\ want[c].code \in Code /\ want[c].entry \in Entry
  BY CallFacts DEF IInv, TypeOK
<1>2. UNCHANGED <<runtime, want, lost>>
  BY DEF FindPipeline, FindModule, Compile, device
<1>3. CASE FindPipeline(c)
  <2>1. PICK e \in Hit(c) : call' = [call EXCEPT ![c].pc = "built", ![c].kernel = <<want[c].code, e>>]
    BY <1>3 DEF FindPipeline
  <2>2. ~ Invalid(Kernel(c))  BY <1>1, <2>1 DEF CacheIsValid, Hit, Kernel
  <2>3. Mine(c)  BY <1>1, <2>1 DEF TypeOK, Mine
  <2>4. scopes' = scopes  BY <1>3 DEF FindPipeline
  <2>. QED  BY <1>1, <1>2, <2>2, <2>3, <2>4, ValidIsFree, UnboundKeepsFew
<1>4. CASE FindModule(c)
  <2>1. /\ Resident /\ want[c].code \in modules /\ call' = Looked(c, "building")
        /\ scopes' = PipelineScope(c)
    BY <1>4 DEF FindModule
  <2>2. Mine(c) /\ call'[c].pc = "building"  BY <1>1, <2>1, CallSet DEF Waiting
  <2>3. Unbindable(c)'  BY <1>1, <1>2, <2>1, <2>2 DEF Unbindable, Resident
  <2>. QED  BY <1>1, <1>2, <2>1, <2>2, <2>3, UnboundKeepsFew
<1>5. CASE Compile(c)
  <2>1. call' = Looked(c, "compiling") /\ scopes' = scopes  BY <1>5 DEF Compile
  <2>2. Mine(c) /\ call'[c].pc = "compiling"  BY <1>1, <2>1, CallSet DEF Waiting
  <2>3. Unbindable(c)'  BY <2>2 DEF Unbindable
  <2>. QED  BY <1>1, <1>2, <2>1, <2>2, <2>3, UnboundKeepsFew
<1>. QED  BY <1>3, <1>4, <1>5

(* A one-shot runner with a module that compiles.                          *)
LEMMA UnboundBinds ==
  ASSUME IInv, DInv, NEW c \in Call, ~ Resident, want[c].code \notin Broken, BindAtOnce(c),
         UNCHANGED <<runtime, want, lost>>
  PROVE  DInv'
<1>1. TypeOK /\ call[c] \in CallState  BY CallFacts DEF IInv
<1>2. CASE ChecksTypes /\ want[c].flaw = "type"
  <2>1. call' = Failing(c, "type") /\ scopes' = scopes  BY <1>2 DEF BindAtOnce
  <2>2. Mine(c) /\ call'[c].pc = "failed" /\ call'[c].why = "type"  BY <1>1, <2>1, CallSet DEF Why
  <2>3. Invalid(Kernel(c)) => Diagnosis(c) = "type"
    BY <1>2 DEF Invalid, Kernel, Diagnosis
  <2>4. Unbindable(c)'
    BY <2>2, <2>3 DEF Unbindable, Invalid, Kernel, Diagnosis, Resident, ChecksTypes
  <2>. QED  BY <1>1, <2>1, <2>2, <2>4, UnboundKeepsFew
<1>3. CASE ~ (ChecksTypes /\ want[c].flaw = "type")
  <2>1. PICK bad \in Refusable(Bound(c)) :
          /\ call' = [call EXCEPT ![c].pc = "binding", ![c].groups = 1]
          /\ scopes' = Append(scopes, Scope("bind", c, \/ Invalid(Kernel(c)) \/ bad # {}
                                                       \/ want[c].flaw = "binding"))
    BY <1>3 DEF BindAtOnce
  <2>2. Mine(c) /\ call'[c].pc = "binding"  BY <1>1, <2>1 DEF TypeOK, Mine, CallState
  <2>3. PICK b \in BOOLEAN : b = (Invalid(Kernel(c)) \/ bad # {} \/ want[c].flaw = "binding")
    BY DEF Invalid
  <2>4. PICK s \in ScopeState : s = [what |-> "bind", of |-> c, bad |-> b]  BY DEF ScopeState
  <2>5. scopes' = Append(scopes, s)  BY <2>1, <2>3, <2>4 DEF Scope
  <2>6. scopes \in Left /\ <<s>> \in Seq(ScopeState) /\ scopes' = scopes \o <<s>>
        /\ Len(<<s>>) = 1 /\ <<s>>[1] = s
    BY <1>1, <2>5, FewScopes
  <2>7. CaughtAtBind(s)'
    BY <2>3, <2>4 DEF CaughtAtBind, Invalid, Kernel
  <2>8. \A k \in 1 .. Len(<<s>>) : CaughtAtBind(<<s>>[k])'
    <3>1. \A k \in 1 .. Len(<<s>>) : <<s>>[k] = s  BY <2>6
    <3>. QED  BY <2>7, <3>1 DEF CaughtAtBind
  <2>9. Unbindable(c)'  BY <1>3, <2>2 DEF Unbindable, Resident, ChecksTypes, Kernel
  <2>. QED  BY <1>1, <2>2, <2>6, <2>8, <2>9, UnboundKeeps
<1>. QED  BY <1>2, <1>3

(* The answer to a compilation.                                            *)
LEMMA UnboundCompiled ==
  ASSUME IInv, DInv, NEW c \in Call, Compiled(c)
  PROVE  DInv'
<1>1. TypeOK /\ UNCHANGED <<runtime, want, lost>>  BY DEF IInv, Compiled, device
<1>2. CASE (lost \/ want[c].code \in Broken) /\ call' = Failing(c, IF lost THEN Dropped ELSE "shader") /\ scopes' = scopes
  <2>1. PICK why \in Why : why = IF lost THEN Dropped ELSE "shader"  BY DEF Dropped, Why
  <2>2. Mine(c) /\ call'[c].pc = "failed" /\ call'[c].why = why  BY <1>1, <1>2, <2>1, CallSet
  <2>3. ~ lost => want[c].code \in Broken /\ why = "shader"  BY <1>2, <2>1
  <2>4. Unbindable(c)'  BY <1>1, <2>2, <2>3 DEF Unbindable, Diagnosis
  <2>. QED  BY <1>1, <1>2, <2>2, <2>4, UnboundKeepsFew
<1>3. CASE want[c].code \notin Broken /\ Resident /\ call' = Moved(c, "building") /\ scopes' = PipelineScope(c)
  <2>1. Mine(c) /\ call'[c].pc = "building"  BY <1>1, <1>3, CallSet DEF Waiting
  <2>2. Unbindable(c)'  BY <1>1, <1>3, <2>1 DEF Unbindable, Resident
  <2>. QED  BY <1>1, <1>3, <2>1, <2>2, UnboundKeepsFew
<1>4. CASE want[c].code \notin Broken /\ ~ Resident /\ BindAtOnce(c)
  BY <1>1, <1>4, UnboundBinds
<1>. QED  BY <1>2, <1>3, <1>4 DEF Compiled

(* An invalid kernel fails at its pipeline.                                *)
LEMMA UnboundPipelineAnswered ==
  ASSUME IInv, DInv, PipelineAnswered
  PROVE  DInv'
<1>1. /\ TypeOK /\ UNCHANGED <<runtime, want, lost>> /\ scopes # <<>> /\ Head(scopes).what = "pipeline"
      /\ scopes' = Tail(scopes) /\ scopes \in Seq(ScopeState) /\ Once(scopes)
  BY DEF IInv, TypeOK, PipelineAnswered, Answers, device
<1>2. PICK s \in ScopeState : s = Head(scopes) /\ ScopeInv(s)
  BY <1>1, TailScopes DEF IInv, ScopesInv
<1>3. PICK c \in Call : c = s.of  BY DEF ScopeState
<1>4. call[c].pc = "building" /\ (s.bad <=> Invalid(Kernel(c)))  BY <1>1, <1>2, <1>3 DEF ScopeInv
<1>5. call' = IF lost THEN Failing(c, Dropped)
              ELSE IF s.bad THEN Failing(c, "pipeline")
              ELSE [call EXCEPT ![c].pc = "built", ![c].kernel = Kernel(c)]
  BY <1>2, <1>3 DEF PipelineAnswered
<1>6. CASE lost \/ s.bad
  <2>1. PICK why \in Why : why = IF lost THEN Dropped ELSE "pipeline"  BY DEF Dropped, Why
  <2>2. call' = Failing(c, why)  BY <1>5, <1>6, <2>1
  <2>3. Mine(c) /\ call'[c].pc = "failed" /\ call'[c].why = why  BY <1>1, <2>2, CallSet
  <2>4. ~ lost => why = "pipeline"  BY <2>1
  <2>5. Invalid(Kernel(c)) => Resident /\ want[c].code \notin Broken  BY <1>4 DEF DInv, Unbindable
  <2>6. Invalid(Kernel(c)) => Diagnosis(c) = "pipeline"
    BY <2>5 DEF Invalid, Kernel, Diagnosis
  <2>7. Unbindable(c)'
    BY <1>1, <2>3, <2>4, <2>5, <2>6 DEF Unbindable, Invalid, Kernel, Diagnosis, Resident, ChecksTypes
  <2>. QED  BY <1>1, <2>3, <2>7, UnboundKeepsFew
<1>7. CASE ~ lost /\ ~ s.bad
  <2>1. call' = [call EXCEPT ![c].pc = "built", ![c].kernel = Kernel(c)]  BY <1>5, <1>7
  <2>2. Mine(c)  BY <1>1, <2>1 DEF TypeOK, Mine
  <2>3. ~ Invalid(Kernel(c))  BY <1>4, <1>7
  <2>. QED  BY <1>1, <2>2, <2>3, ValidIsFree, UnboundKeepsFew
<1>. QED  BY <1>6, <1>7

(* Only calls with a pipeline create buffers, drain or map.                *)
LEMMA UnboundWorks ==
  ASSUME IInv, DInv, NEW c \in Call, Allocate(c) \/ Drain(c) \/ Mapped(c)
  PROVE  DInv'
<1>1. TypeOK /\ call[c] \in CallState /\ scopes \in Seq(ScopeState) /\ refused \in SUBSET Buffer
  BY CallFacts DEF IInv, TypeOK
<1>2. UNCHANGED <<runtime, want, lost>>  BY DEF Allocate, Drain, Mapped, device
<1>3. ~ Invalid(Kernel(c))
  BY DEF DInv, Unbindable, Allocate, Drain, Mapped
<1>4. Unbindable(c)'  BY <1>2, <1>3, ValidIsFree
<1>5. CASE Allocate(c)
  <2>1. PICK bad \in SUBSET Bound(c), r \in Seq(ScopeState) : Allocation(c, bad, r)
    BY <1>1, <1>5, Allocated
  <2>2. \A k \in 1 .. Len(r) : CaughtAtBind(r[k])'
    BY <1>2, <1>3, <2>1 DEF Allocation, CaughtAtBind, Invalid, Kernel
  <2>3. scopes \in Left  BY <1>1, FewScopes
  <2>. QED  BY <1>1, <1>2, <1>4, <2>1, <2>2, <2>3, UnboundKeeps DEF Allocation
<1>6. CASE Drain(c)
  <2>1. CASE Objection(c) # ""
    <3>1. PICK why \in Why : why = Objection(c)  BY <2>1 DEF Objection, Why
    <3>2. call' = Failing(c, why) /\ scopes' = scopes  BY <1>6, <2>1, <3>1 DEF Drain
    <3>3. Mine(c)  BY <1>1, <3>2, CallSet
    <3>. QED  BY <1>1, <1>2, <1>4, <3>2, <3>3, UnboundKeepsFew
  <2>2. CASE Objection(c) = ""
    <3>1. PICK r \in Seq(ScopeState) : r = BindScopes(c, 1, refused) /\ \A k \in 1 .. Len(r) : r[k].of = c
      <4>1. /\ BindScopes(c, 1, refused) \in Seq(ScopeState)
            /\ \A k \in 1 .. Len(BindScopes(c, 1, refused)) : BindScopes(c, 1, refused)[k].of = c
        BY <1>1, BindScopesType
      <4>. QED  BY <4>1
    <3>2. scopes' = scopes \o r  BY <1>6, <2>2, <3>1 DEF Drain
    <3>3. Mine(c)  BY <1>1, <1>6, <2>2 DEF Drain, TypeOK, Mine
    <3>4. \A k \in 1 .. Len(r) : CaughtAtBind(r[k])'
      BY <1>2, <1>3, <3>1 DEF CaughtAtBind, Invalid, Kernel
    <3>5. scopes \in Left  BY <1>1, FewScopes
    <3>. QED  BY <1>1, <1>2, <1>4, <3>1, <3>2, <3>3, <3>4, <3>5, UnboundKeeps
  <2>. QED  BY <2>1, <2>2
<1>7. CASE Mapped(c)
  <2>. DEFINE resolved == ~ lost /\ Staging(c) \cap refused = {}
  <2>1. call' = (IF resolved THEN Moved(c, "done") ELSE Failing(c, "mapping")) /\ scopes' = scopes
    BY <1>7 DEF Mapped
  <2>. HIDE DEF resolved
  <2>2. Mine(c)  BY <1>1, <2>1, CallSet DEF Why
  <2>. QED  BY <1>1, <1>2, <1>4, <2>1, <2>2, UnboundKeepsFew
<1>. QED  BY <1>5, <1>6, <1>7

(* The answer to a bind group fails a call whose kernel is invalid.        *)
LEMMA UnboundBindAnswered ==
  ASSUME IInv, DInv, BindAnswered
  PROVE  DInv'
<1>1. /\ TypeOK /\ UNCHANGED <<runtime, want, lost>> /\ scopes # <<>> /\ Head(scopes).what = "bind"
      /\ scopes \in Seq(ScopeState) /\ Once(scopes)
  BY DEF IInv, TypeOK, BindAnswered, device
<1>2. PICK s \in ScopeState : s = Head(scopes) /\ CaughtAtBind(s)
  BY <1>1, TailScopes DEF DInv
<1>3. PICK c \in Call : c = s.of  BY DEF ScopeState
<1>4. call[c] \in CallState /\ Unbindable(c)  BY <1>1 DEF TypeOK, DInv
<1>. DEFINE hears == call[c].pc \in {"binding", "draining"}
            goes == hears /\ ~ lost /\ ~ s.bad /\ call[c].groups = 1
<1>5. IF goes
        THEN Submit(c)
        ELSE /\ call' = IF ~ hears THEN call
                        ELSE IF lost THEN Failing(c, Dropped)
                        ELSE IF s.bad THEN Failing(c, IF Resident THEN "bind group" ELSE "dispatch")
                        ELSE [call EXCEPT ![c].groups = @ - 1]
             /\ scopes' = Tail(scopes)
  BY <1>2, <1>3 DEF BindAnswered
<1>6. (hears /\ Invalid(Kernel(c))) =>
        /\ ~ Resident /\ s.bad /\ Diagnosis(c) = "dispatch" /\ want[c].code \notin Broken
  <2>1. SUFFICES ASSUME hears, Invalid(Kernel(c))
                 PROVE  ~ Resident /\ s.bad /\ Diagnosis(c) = "dispatch" /\ want[c].code \notin Broken
    OBVIOUS
  <2>2. call[c].pc = "binding"  BY <1>4, <2>1 DEF Unbindable
  <2>3. ~ Resident /\ ~ (ChecksTypes /\ want[c].flaw = "type") /\ want[c].code \notin Broken
    BY <1>4, <2>1, <2>2 DEF Unbindable
  <2>4. s.bad  BY <1>1, <1>2, <1>3, <2>1, <2>3 DEF CaughtAtBind
  <2>. QED  BY <2>1, <2>3, <2>4 DEF Diagnosis, Invalid, Kernel
<1>7. CASE goes
  <2>1. Submit(c) /\ ~ Invalid(Kernel(c))  BY <1>5, <1>6, <1>7
  <2>2. PICK bad \in SUBSET Staging(c), r \in Seq(ScopeState) : Submission(c, bad, r)
    BY <1>1, <2>1, Submitted
  <2>3. \A k \in 1 .. Len(r) : CaughtAtBind(r[k])'  BY <2>2 DEF Submission, CaughtAtBind
  <2>4. Unbindable(c)'  BY <1>1, <2>1, ValidIsFree
  <2>5. Tail(scopes) \in Left  BY <1>1, FewScopes
  <2>. QED  BY <1>1, <2>2, <2>3, <2>4, <2>5, UnboundKeeps DEF Submission
<1>8. CASE ~ goes
  <2>1. scopes' = Tail(scopes)  BY <1>5, <1>8
  <2>2. CASE ~ hears
    <3>1. call' = call  BY <1>5, <1>8, <2>2
    <3>2. Mine(c) /\ Unbindable(c)'
      BY <1>1, <1>4, <3>1 DEF Mine, Unbindable, Diagnosis, Invalid, Kernel, Resident, ChecksTypes
    <3>. QED  BY <1>1, <2>1, <3>2, UnboundKeepsFew
  <2>3. CASE hears /\ (lost \/ s.bad)
    <3>1. PICK why \in Why :
            why = IF lost THEN Dropped ELSE IF Resident THEN "bind group" ELSE "dispatch"
      BY DEF Dropped, Why
    <3>2. call' = Failing(c, why)  BY <1>5, <1>8, <2>3, <3>1
    <3>3. Mine(c) /\ call'[c].pc = "failed" /\ call'[c].why = why  BY <1>1, <3>2, CallSet
    <3>4. (Invalid(Kernel(c)) /\ ~ lost) => why = Diagnosis(c) /\ want[c].code \notin Broken
      BY <1>6, <2>3, <3>1
    <3>5. Unbindable(c)'
      BY <1>1, <3>3, <3>4 DEF Unbindable, Invalid, Kernel, Diagnosis, Resident, ChecksTypes
    <3>. QED  BY <1>1, <2>1, <3>3, <3>5, UnboundKeepsFew
  <2>4. CASE hears /\ ~ lost /\ ~ s.bad
    <3>1. call' = [call EXCEPT ![c].groups = @ - 1]  BY <1>5, <1>8, <2>4
    <3>2. Mine(c)  BY <1>1, <3>1 DEF TypeOK, Mine
    <3>3. Unbindable(c)'  BY <1>1, <1>6, <2>4, ValidIsFree
    <3>. QED  BY <1>1, <2>1, <3>2, <3>3, UnboundKeepsFew
  <2>. QED  BY <2>2, <2>3, <2>4
<1>. QED  BY <1>7, <1>8

(* Neither do the other answers find one.                                  *)
LEMMA UnboundSubmitAnswered ==
  ASSUME IInv, DInv, SubmitAnswered
  PROVE  DInv'
<1>1. /\ TypeOK /\ UNCHANGED <<runtime, want, lost>> /\ scopes # <<>> /\ Head(scopes).what = "submit"
      /\ scopes' = Tail(scopes) /\ scopes \in Seq(ScopeState) /\ Once(scopes)
  BY DEF IInv, TypeOK, SubmitAnswered, Answers, device
<1>2. PICK s \in ScopeState : s = Head(scopes) /\ ScopeInv(s)
  BY <1>1, TailScopes DEF IInv, ScopesInv
<1>3. PICK c \in Call : c = s.of  BY DEF ScopeState
<1>4. call[c].pc = "submitting"  BY <1>1, <1>2, <1>3 DEF ScopeInv
<1>5. ~ Invalid(Kernel(c))  BY <1>4 DEF DInv, Unbindable
<1>6. PICK why \in Why : why = IF lost THEN Dropped ELSE "batch"  BY DEF Dropped, Why
<1>7. call' = Failing(c, why) \/ call' = Moved(c, "mapping")
  BY <1>2, <1>3, <1>6 DEF SubmitAnswered
<1>8. Mine(c)  BY <1>1, <1>7, CallSet DEF Waiting
<1>. QED  BY <1>1, <1>5, <1>8, ValidIsFree, UnboundKeepsFew

LEMMA UnboundInit == Init => DInv
<1>. SUFFICES ASSUME Init PROVE DInv  OBVIOUS
<1>1. \A c \in Call : call[c].pc = "idle"  BY DEF Init
<1>2. Len(scopes) = 0  BY EmptySeq DEF Init
<1>. QED  BY <1>1, <1>2 DEF DInv, Unbindable

LEMMA UnboundNext == IInv /\ DInv /\ [Next]_vars => DInv'
<1>1. SUFFICES ASSUME IInv, DInv, [Next]_vars PROVE DInv'
  OBVIOUS
<1>2. TypeOK  BY <1>1 DEF IInv
<1>3. ASSUME UNCHANGED <<runtime, want, call>>, lost => lost',
             scopes' = scopes \/ (scopes # <<>> /\ scopes' = Tail(scopes))
      PROVE  DInv'
  <2>1. CASE \E c \in Call : TRUE
    <3>1. PICK c \in Call : TRUE  BY <2>1
    <3>2. Mine(c) /\ Unbindable(c)'
      BY <1>1, <1>3 DEF DInv, Mine, Unbindable, Diagnosis, Invalid, Kernel, Resident, ChecksTypes
    <3>. QED  BY <1>1, <1>2, <1>3, <3>2, UnboundKeepsFew
  <2>2. CASE Call = {}
    <3>1. scopes \in Seq(ScopeState) /\ ScopeState = {}  BY <1>2, <2>2 DEF TypeOK, ScopeState
    <3>2. \A i \in 1 .. Len(scopes) : FALSE  BY <3>1, ElementOfSeq
    <3>3. scopes' \in Seq(ScopeState)  BY <1>3, <3>1, HeadTailProperties
    <3>4. \A i \in 1 .. Len(scopes') : FALSE  BY <3>1, <3>3, ElementOfSeq
    <3>. QED  BY <2>2, <3>4 DEF DInv
  <2>. QED  BY <2>1, <2>2
<1>4. CASE UNCHANGED vars  BY <1>3, <1>4 DEF vars, device
<1>5. ASSUME NEW c \in Call, FindPipeline(c) \/ FindModule(c) \/ Compile(c) PROVE DInv'
  BY <1>1, <1>5, UnboundBegins
<1>6. ASSUME NEW c \in Call, FindModuleAndBind(c) PROVE DInv'
  <2>1. /\ ~ Resident /\ want[c].code \notin Broken /\ BindAtOnce(c) /\ UNCHANGED <<runtime, want, lost>>
    BY <1>2, <1>6 DEF FindModuleAndBind, TypeOK, device
  <2>. QED  BY <1>1, <2>1, UnboundBinds
<1>7. ASSUME NEW c \in Call, Compiled(c) PROVE DInv'  BY <1>1, <1>7, UnboundCompiled
<1>8. ASSUME NEW c \in Call, Allocate(c) \/ Drain(c) \/ Mapped(c) PROVE DInv'
  BY <1>1, <1>8, UnboundWorks
<1>9. CASE PipelineAnswered  BY <1>1, <1>9, UnboundPipelineAnswered
<1>10. CASE AllocationAnswered  BY <1>3, <1>10 DEF AllocationAnswered, Answers, device
<1>11. CASE BindAnswered  BY <1>1, <1>11, UnboundBindAnswered
<1>12. CASE SubmitAnswered  BY <1>1, <1>12, UnboundSubmitAnswered
<1>13. CASE Lose \/ LossKnown  BY <1>3, <1>13 DEF Lose, LossKnown
<1>. QED
  BY <1>1, <1>4, <1>5, <1>6, <1>7, <1>8, <1>9, <1>10, <1>11, <1>12, <1>13 DEF Next, Proceed

(* A call whose kernel does not compile, or has no such entry point, is    *)
(* told so whoever asked for it before and whatever the caches hold, on    *)
(* each of the five implementations (pipelineFor, runKernel): it is never  *)
(* left to fail later, or to return.                                       *)
THEOREM FaultsAreDiagnosed == Spec => []Diagnosed
<1>1. IInv /\ DInv => Diagnosed
  <2>1. SUFFICES ASSUME DInv, NEW c \in Call, call[c].pc \in Settled, ~ lost, Diagnosis(c) \notin {"", "any"}
                 PROVE  call[c].pc = "failed" /\ call[c].why = Diagnosis(c)
    BY DEF Diagnosed
  <2>2. Invalid(Kernel(c))  BY <2>1 DEF Diagnosis, Invalid, Kernel
  <2>. QED  BY <2>1, <2>2 DEF DInv, Unbindable, Settled
<1>. QED  BY <1>1, Invariance, UnboundInit, UnboundNext, PTL DEF Spec

-----------------------------------------------------------------------------
(* Refused buffers in node *)

(* The buffer a scope of an allocation is around.                          *)
About(s) == <<s.of, s.what>>

Binds(s, c) == s.what = "bind" /\ s.of = c

(* A call before it has created a buffer.                                  *)
Early == {"idle", "compiling", "building", "built"}

(* The call a buffer belongs to is past the step that creates it.          *)
Created(b) ==
  /\ call[b[1]].pc \notin Early
  /\ b[2] = "staging" => call[b[1]].pc \notin {"draining", "binding"}

(* The allocations a call waits for are asked about before its bind group. *)
InTime(q, c, waits) ==
  \A i, j \in 1 .. Len(q) : (Binds(q[i], c) /\ About(q[j]) \in waits) => j < i

(* The runtime knows of a refused buffer, or is yet to hear of it.         *)
Reported(b) == failure \/ \E i \in 1 .. Len(scopes) : About(scopes[i]) = b /\ scopes[i].bad

(* A call of node: no bind group is asked for before it creates its        *)
(* buffers; from its bind group on it knows that they are not refused;     *)
(* while it drains, it waits for them, and its bind group comes later.     *)
NodeCall(c) ==
  /\ call[c].pc \in Early => \A i \in 1 .. Len(scopes) : ~ Binds(scopes[i], c)
  /\ call[c].pc \in Early \cup {"binding", "submitting", "mapping", "done"} => Bound(c) \cap refused = {}
  /\ call[c].pc = "draining" =>
       /\ Bound(c) \subseteq call[c].waits
       /\ \A b \in call[c].waits : Created(b)
       /\ InTime(scopes, c, call[c].waits)
  /\ (call[c].pc = "failed" /\ Bound(c) \cap refused # {}) => Objected(c)

NInv ==
  runtime = "node" =>
    /\ ~ lost
    /\ \A b \in refused : Reported(b)
    /\ \A b \in pending : Created(b)
    /\ \A c \in Call : NodeCall(c)

(* Scopes answered, and scopes added that no waiting call asks about, keep *)
(* the order.                                                              *)
LEMMA InTimeKeeps ==
  ASSUME TypeOK, NEW q \in Left, NEW r \in Seq(ScopeState), NEW d \in Call, NEW waits \in SUBSET Buffer,
         InTime(scopes, d, waits), \A k \in 1 .. Len(r) : About(r[k]) \notin waits
  PROVE  InTime(q \o r, d, waits)
<1>. SUFFICES ASSUME NEW i \in 1 .. Len(q \o r), NEW j \in 1 .. Len(q \o r),
                     Binds((q \o r)[i], d), About((q \o r)[j]) \in waits
              PROVE  j < i
  BY DEF InTime
<1>1. /\ Len(q) \in Nat /\ Len(r) \in Nat /\ Len(scopes) \in Nat /\ Len(q \o r) = Len(q) + Len(r)
      /\ \A k \in 1 .. Len(q) : (q \o r)[k] = q[k]
      /\ \A k \in 1 .. Len(r) : (q \o r)[Len(q) + k] = r[k]
      /\ q = scopes \/ (/\ Len(scopes) = Len(q) + 1
                        /\ \A k \in 1 .. Len(q) : q[k] = scopes[k + 1])
  BY Placed
<1>2. j \in 1 .. Len(q)
  <2>1. SUFFICES ASSUME j \notin 1 .. Len(q) PROVE FALSE  OBVIOUS
  <2>2. j - Len(q) \in 1 .. Len(r) /\ Len(q) + (j - Len(q)) = j  BY <1>1, <2>1
  <2>3. (q \o r)[j] = r[j - Len(q)]  BY <1>1, <2>2
  <2>. QED  BY <2>2, <2>3
<1>3. CASE i \notin 1 .. Len(q)  BY <1>1, <1>2, <1>3
<1>4. CASE i \in 1 .. Len(q)
  <2>1. (q \o r)[i] = q[i] /\ (q \o r)[j] = q[j]  BY <1>1, <1>2, <1>4
  <2>2. CASE q = scopes  BY <1>2, <1>4, <2>1, <2>2 DEF InTime
  <2>3. CASE Len(scopes) = Len(q) + 1 /\ \A k \in 1 .. Len(q) : q[k] = scopes[k + 1]
    <3>1. i + 1 \in 1 .. Len(scopes) /\ j + 1 \in 1 .. Len(scopes)  BY <1>1, <1>2, <1>4, <2>3
    <3>2. q[i] = scopes[i + 1] /\ q[j] = scopes[j + 1]  BY <1>2, <1>4, <2>3
    <3>3. j + 1 < i + 1  BY <2>1, <3>1, <3>2 DEF InTime
    <3>. QED  BY <1>1, <1>2, <1>4, <3>3
  <2>. QED  BY <1>1, <2>2, <2>3
<1>. QED  BY <1>3, <1>4

(* A refusal stays reported: the answer that is heard is remembered.       *)
LEMMA ReportedKeeps ==
  ASSUME TypeOK, NEW q \in Left, NEW r \in Seq(ScopeState), scopes' = q \o r,
         NEW b \in Buffer, Reported(b), failure => failure',
         q = scopes \/ ((Head(scopes).what \in {"in", "out", "staging"} /\ Head(scopes).bad) => failure')
  PROVE  Reported(b)'
<1>1. /\ Len(q) \in Nat /\ Len(r) \in Nat /\ Len(scopes) \in Nat /\ Len(q \o r) = Len(q) + Len(r)
      /\ \A k \in 1 .. Len(q) : (q \o r)[k] = q[k]
      /\ q = scopes \/ (/\ Len(scopes) = Len(q) + 1 /\ Head(scopes) = scopes[1]
                        /\ \A k \in 1 .. Len(q) : q[k] = scopes[k + 1])
  BY Placed
<1>2. CASE failure  BY <1>2 DEF Reported
<1>3. CASE \E i \in 1 .. Len(scopes) : About(scopes[i]) = b /\ scopes[i].bad
  <2>1. PICK i \in 1 .. Len(scopes) : About(scopes[i]) = b /\ scopes[i].bad  BY <1>3
  <2>2. ASSUME NEW k \in 1 .. Len(q), q[k] = scopes[i] PROVE Reported(b)'
    <3>1. k \in 1 .. Len(scopes') /\ scopes'[k] = scopes[i]  BY <1>1, <2>2
    <3>. QED  BY <2>1, <3>1 DEF Reported, About
  <2>3. CASE q = scopes  BY <2>2, <2>3
  <2>4. CASE /\ q # scopes /\ Len(scopes) = Len(q) + 1 /\ Head(scopes) = scopes[1]
             /\ \A k \in 1 .. Len(q) : q[k] = scopes[k + 1]
    <3>1. CASE i = 1
      <4>1. scopes[i].what \in {"in", "out", "staging"}  BY <2>1 DEF About, Buffer
      <4>. QED  BY <2>1, <2>4, <3>1, <4>1 DEF Reported
    <3>2. CASE i # 1
      <4>1. i - 1 \in 1 .. Len(q) /\ (i - 1) + 1 = i  BY <1>1, <2>4, <3>2
      <4>2. q[i - 1] = scopes[i]  BY <2>4, <4>1
      <4>. QED  BY <2>2, <4>1, <4>2
    <3>. QED  BY <3>1, <3>2
  <2>. QED  BY <1>1, <2>3, <2>4
<1>. QED  BY <1>2, <1>3 DEF Reported

(* A step of one call keeps the invariant if it keeps what is said of that *)
(* call and of the buffers it creates, and pushes no scope for a buffer    *)
(* that was there before.                                                  *)
LEMMA NodeKeeps ==
  ASSUME TypeOK, NInv, runtime = "node", NEW c \in Call, Mine(c), UNCHANGED <<runtime, want, lost>>,
         call[c].pc \notin Early => call'[c].pc \notin Early,
         call[c].pc \notin Early \cup {"draining", "binding"} =>
           call'[c].pc \notin Early \cup {"draining", "binding"},
         NEW bad \in SUBSET Buffers(c), refused' = refused \cup bad, \A b \in bad : Reported(b)',
         \A b \in pending' : b \in pending \/ Created(b)',
         NEW q \in Left, NEW r \in Seq(ScopeState), scopes' = q \o r,
         \A k \in 1 .. Len(r) : r[k].of = c /\ (About(r[k]) \in Buffer => ~ Created(About(r[k]))),
         failure => failure',
         q = scopes \/ ((Head(scopes).what \in {"in", "out", "staging"} /\ Head(scopes).bad) => failure'),
         NodeCall(c)'
  PROVE  NInv'
<1>1. ASSUME NEW b \in Buffer, Created(b) PROVE Created(b)'
  <2>1. PICK d \in Call : d = b[1]  BY DEF Buffer
  <2>2. CASE d = c  BY <1>1, <2>1, <2>2 DEF Created
  <2>3. CASE d # c  BY <1>1, <2>1, <2>3 DEF Created, Mine
  <2>. QED  BY <2>2, <2>3
<1>2. \A b \in pending' : Created(b)'
  BY <1>1 DEF NInv, TypeOK
<1>3. ASSUME NEW b \in refused' PROVE Reported(b)'
  <2>1. CASE b \in bad  BY <2>1
  <2>2. CASE b \in refused
    <3>1. b \in Buffer /\ Reported(b)  BY <2>2 DEF NInv, TypeOK
    <3>. QED  BY <3>1, ReportedKeeps
  <2>. QED  BY <2>1, <2>2
<1>4. ASSUME NEW d \in Call, d # c PROVE NodeCall(d)'
  <2>1. NodeCall(d) /\ call'[d] = call[d]  BY <1>4 DEF NInv, Mine
  <2>2. Bound(d) \cap refused' = Bound(d) \cap refused
    BY <1>4 DEF Buffers, Bound, Staging
  <2>3. call[d].pc \in Early => \A i \in 1 .. Len(scopes') : ~ Binds(scopes'[i], d)
    <3>1. \A i \in 1 .. Len(q \o r) : \/ \E j \in 1 .. Len(scopes) : (q \o r)[i] = scopes[j]
                                      \/ \E j \in 1 .. Len(r) : (q \o r)[i] = r[j]
      BY Origin
    <3>2. SUFFICES ASSUME call[d].pc \in Early, NEW i \in 1 .. Len(q \o r), Binds((q \o r)[i], d)
                   PROVE  FALSE
      OBVIOUS
    <3>3. \A j \in 1 .. Len(scopes) : ~ Binds(scopes[j], d)  BY <2>1, <3>2 DEF NodeCall
    <3>4. \A j \in 1 .. Len(r) : ~ Binds(r[j], d)  BY <1>4 DEF Binds
    <3>. QED  BY <3>1, <3>2, <3>3, <3>4
  <2>4. ASSUME call[d].pc = "draining"
        PROVE  /\ Bound(d) \subseteq call[d].waits /\ \A b \in call[d].waits : Created(b)'
               /\ InTime(scopes', d, call[d].waits)
    <3>1. call[d].waits \in SUBSET Buffer  BY DEF TypeOK, CallState
    <3>2. /\ Bound(d) \subseteq call[d].waits /\ \A b \in call[d].waits : Created(b)
          /\ InTime(scopes, d, call[d].waits)
      BY <2>1, <2>4 DEF NodeCall
    <3>3. \A k \in 1 .. Len(r) : About(r[k]) \notin call[d].waits  BY <3>1, <3>2
    <3>. QED  BY <1>1, <3>1, <3>2, <3>3, InTimeKeeps
  <2>5. (call[d].pc = "failed" /\ Bound(d) \cap refused' # {}) => Objected(d)'
    BY <2>1, <2>2 DEF NodeCall, Objected
  <2>. QED  BY <2>1, <2>2, <2>3, <2>4, <2>5 DEF NodeCall, Bound, InTime
<1>. QED  BY <1>2, <1>3, <1>4 DEF NInv

(* A call that is past its bind group, or fails.                           *)
LEMMA NodeLater ==
  ASSUME NEW c \in Call, call'[c].pc \in {"binding", "submitting", "mapping", "done", "failed"},
         Bound(c) \cap refused' = {} \/ (call'[c].pc = "failed" /\ Objected(c)')
  PROVE  NodeCall(c)'
BY DEF NodeCall, Early, Bound

(* Nothing new is refused, and the oldest scope is answered or one pushed. *)
LEMMA NodeKeepsFew ==
  ASSUME TypeOK, NInv, runtime = "node", NEW c \in Call, Mine(c),
         UNCHANGED <<runtime, want, lost, refused, pending>>,
         call[c].pc \notin Early => call'[c].pc \notin Early,
         call[c].pc \notin Early \cup {"draining", "binding"} =>
           call'[c].pc \notin Early \cup {"draining", "binding"},
         failure => failure',
         \/ scopes' = scopes
         \/ /\ scopes # <<>> /\ scopes' = Tail(scopes)
            /\ (Head(scopes).what \in {"in", "out", "staging"} /\ Head(scopes).bad) => failure'
         \/ scopes' = PipelineScope(c),
         NodeCall(c)'
  PROVE  NInv'
<1>1. {} \in SUBSET Buffers(c) /\ refused' = refused \cup {} /\ (\A b \in {} : Reported(b)')
      /\ \A b \in pending' : b \in pending
  OBVIOUS
<1>2. <<>> \in Seq(ScopeState) /\ \A k \in 1 .. Len(<<>>) : FALSE  BY FewScopes
<1>3. CASE scopes' = scopes
  <2>1. scopes \in Left /\ scopes' = scopes \o <<>>  BY <1>3, FewScopes
  <2>. QED  BY <1>1, <1>2, <2>1, NodeKeeps
<1>4. CASE /\ scopes # <<>> /\ scopes' = Tail(scopes)
           /\ (Head(scopes).what \in {"in", "out", "staging"} /\ Head(scopes).bad) => failure'
  <2>1. Tail(scopes) \in Left /\ scopes' = Tail(scopes) \o <<>>  BY <1>4, FewScopes
  <2>. QED  BY <1>1, <1>2, <1>4, <2>1, NodeKeeps
<1>5. CASE scopes' = PipelineScope(c)
  <2>1. PICK bad \in BOOLEAN : bad = Invalid(Kernel(c))  BY DEF Invalid
  <2>2. PICK s \in ScopeState : s = [what |-> "pipeline", of |-> c, bad |-> bad]  BY DEF ScopeState
  <2>3. PipelineScope(c) = Append(scopes, s)  BY <2>1, <2>2 DEF PipelineScope, Scope
  <2>4. scopes \in Left /\ <<s>> \in Seq(ScopeState) /\ scopes' = scopes \o <<s>>
        /\ Len(<<s>>) = 1 /\ <<s>>[1] = s
    BY <1>5, <2>3, FewScopes
  <2>5. s.of = c /\ About(s) \notin Buffer  BY <2>2 DEF About, Buffer
  <2>6. \A k \in 1 .. Len(<<s>>) : <<s>>[k] = s  BY <2>4
  <2>7. \A k \in 1 .. Len(<<s>>) : <<s>>[k].of = c /\ About(<<s>>[k]) \notin Buffer
    BY <2>5, <2>6
  <2>. QED  BY <1>1, <2>4, <2>7, NodeKeeps
<1>. QED  BY <1>3, <1>4, <1>5

(* A call that has created no buffer.                                      *)
LEMMA NodeEarly ==
  ASSUME TypeOK, NInv, runtime = "node", NEW c \in Call, Mine(c),
         UNCHANGED <<runtime, want, lost, refused, pending, failure>>,
         call[c].pc \in Early, call'[c].pc \in Early \cup {"failed"},
         \/ scopes' = scopes
         \/ scopes # <<>> /\ scopes' = Tail(scopes) /\ Head(scopes).what = "pipeline"
         \/ scopes' = PipelineScope(c)
  PROVE  NInv'
<1>1. Bound(c) \cap refused' = {} /\ \A i \in 1 .. Len(scopes) : ~ Binds(scopes[i], c)
  BY DEF NInv, NodeCall
<1>2. \A i \in 1 .. Len(scopes') : ~ Binds(scopes'[i], c)
  <2>1. CASE scopes' = scopes  BY <1>1, <2>1 DEF Binds
  <2>2. CASE scopes # <<>> /\ scopes' = Tail(scopes)
    <3>1. Tail(scopes) \in Left /\ Tail(scopes) \o <<>> = Tail(scopes) /\ <<>> \in Seq(ScopeState)
          /\ \A k \in 1 .. Len(<<>>) : FALSE
      BY <2>2, FewScopes
    <3>2. \A i \in 1 .. Len(Tail(scopes) \o <<>>) :
            \/ \E j \in 1 .. Len(scopes) : (Tail(scopes) \o <<>>)[i] = scopes[j]
            \/ \E j \in 1 .. Len(<<>>) : (Tail(scopes) \o <<>>)[i] = <<>>[j]
      BY <3>1, Origin
    <3>3. \A i \in 1 .. Len(scopes') : \E j \in 1 .. Len(scopes) : scopes'[i] = scopes[j]
      BY <2>2, <3>1, <3>2
    <3>. QED  BY <1>1, <3>3 DEF Binds
  <2>3. CASE scopes' = PipelineScope(c)
    <3>1. PICK bad \in BOOLEAN : bad = Invalid(Kernel(c))  BY DEF Invalid
    <3>2. PICK s \in ScopeState : s = [what |-> "pipeline", of |-> c, bad |-> bad]  BY DEF ScopeState
    <3>3. scopes' = Append(scopes, s)  BY <2>3, <3>1, <3>2 DEF PipelineScope, Scope
    <3>4. scopes \in Seq(ScopeState)  BY DEF TypeOK
    <3>5. \A i \in 1 .. Len(scopes') : scopes'[i] = s \/ (i \in 1 .. Len(scopes) /\ scopes'[i] = scopes[i])
      BY <3>3, <3>4, AppendProperties, LenProperties
    <3>. QED  BY <1>1, <3>2, <3>5 DEF Binds
  <2>. QED  BY <2>1, <2>2, <2>3
<1>3. NodeCall(c)'  BY <1>1, <1>2 DEF NodeCall, Early, Bound
<1>4. failure => failure'  OBVIOUS
<1>5. call[c].pc \notin Early \cup {"draining", "binding"} => FALSE  OBVIOUS
<1>. QED  BY <1>3, <1>4, <1>5, NodeKeepsFew

(* Until it has its pipeline a call does not touch a buffer.               *)
LEMMA NodeBegins ==
  ASSUME IInv, NInv, runtime = "node", NEW c \in Call,
         FindPipeline(c) \/ FindModule(c) \/ Compile(c) \/ Compiled(c)
  PROVE  NInv'
<1>1. TypeOK /\ ~ lost /\ Resident  BY DEF IInv, NInv, Resident
<1>2. UNCHANGED <<runtime, want, lost, pending, failure>>
  BY DEF FindPipeline, FindModule, Compile, Compiled, device
<1>3. call[c].pc \in Early
  BY DEF FindPipeline, FindModule, Compile, Compiled, Begins, Early
<1>4. CASE FindPipeline(c)
  <2>1. PICK e \in Hit(c) : call' = [call EXCEPT ![c].pc = "built", ![c].kernel = <<want[c].code, e>>]
    BY <1>4 DEF FindPipeline
  <2>2. Mine(c) /\ call'[c].pc = "built"  BY <1>1, <2>1 DEF TypeOK, CallState, Mine
  <2>3. scopes' = scopes /\ refused' = refused  BY <1>4 DEF FindPipeline, buffers
  <2>4. call'[c].pc \in Early \cup {"failed"}  BY <2>2 DEF Early
  <2>. QED  BY <1>1, <1>2, <1>3, <2>2, <2>3, <2>4, NodeEarly
<1>5. CASE FindModule(c) \/ Compile(c)
  <2>1. PICK p \in {"building", "compiling"} : call' = Looked(c, p)  BY <1>5 DEF FindModule, Compile
  <2>2. Mine(c) /\ call'[c].pc = p  BY <1>1, <2>1, CallSet DEF Waiting
  <2>3. (scopes' = scopes \/ scopes' = PipelineScope(c)) /\ refused' = refused
    BY <1>5 DEF FindModule, Compile, buffers
  <2>4. call'[c].pc \in Early \cup {"failed"}  BY <2>2 DEF Early
  <2>. QED  BY <1>1, <1>2, <1>3, <2>2, <2>3, <2>4, NodeEarly
<1>6. CASE Compiled(c)
  <2>1. \/ call' = Failing(c, "shader") /\ UNCHANGED <<buffers, scopes>>
        \/ call' = Moved(c, "building") /\ scopes' = PipelineScope(c) /\ UNCHANGED buffers
    BY <1>1, <1>6 DEF Compiled
  <2>2. Mine(c) /\ call'[c].pc \in {"failed", "building"}
    BY <1>1, <2>1, CallSet DEF Why, Waiting
  <2>3. (scopes' = scopes \/ scopes' = PipelineScope(c)) /\ refused' = refused  BY <2>1 DEF buffers
  <2>4. call'[c].pc \in Early \cup {"failed"}  BY <2>2 DEF Early
  <2>. QED  BY <1>1, <1>2, <1>3, <2>2, <2>3, <2>4, NodeEarly
<1>. QED  BY <1>4, <1>5, <1>6

LEMMA NodePipelineAnswered ==
  ASSUME IInv, NInv, runtime = "node", PipelineAnswered
  PROVE  NInv'
<1>1. /\ TypeOK /\ UNCHANGED <<runtime, want, lost, refused, pending, failure>> /\ ~ lost
      /\ scopes # <<>> /\ Head(scopes).what = "pipeline" /\ scopes' = Tail(scopes)
      /\ scopes \in Seq(ScopeState) /\ Once(scopes)
  BY DEF IInv, NInv, TypeOK, PipelineAnswered, Answers, device, buffers
<1>2. PICK s \in ScopeState : s = Head(scopes) /\ ScopeInv(s)
  BY <1>1, TailScopes DEF IInv, ScopesInv
<1>3. PICK c \in Call : c = s.of  BY DEF ScopeState
<1>4. call[c].pc \in Early  BY <1>1, <1>2, <1>3 DEF ScopeInv, Early
<1>5. \/ call' = Failing(c, "pipeline")
      \/ call' = [call EXCEPT ![c].pc = "built", ![c].kernel = Kernel(c)]
  BY <1>1, <1>2, <1>3 DEF PipelineAnswered
<1>6. Mine(c) /\ call'[c].pc \in {"failed", "built"}
  <2>1. CASE call' = Failing(c, "pipeline")  BY <1>1, <2>1, CallSet DEF Why
  <2>2. CASE call' = [call EXCEPT ![c].pc = "built", ![c].kernel = Kernel(c)]
    BY <1>1, <2>2 DEF TypeOK, CallState, Mine
  <2>. QED  BY <1>5, <2>1, <2>2
<1>7. call'[c].pc \in Early \cup {"failed"}  BY <1>6 DEF Early
<1>. QED  BY <1>1, <1>4, <1>6, <1>7, NodeEarly

(* A call left as it is, the oldest scope answered.                        *)
LEMMA NodeStill ==
  ASSUME TypeOK, NEW c \in Call, NodeCall(c), call'[c] = call[c], UNCHANGED <<want, refused>>,
         \A b \in Buffer : Created(b) => Created(b)', scopes # <<>>, scopes' = Tail(scopes)
  PROVE  NodeCall(c)'
<1>1. Tail(scopes) \in Left /\ Tail(scopes) \o <<>> = Tail(scopes) /\ <<>> \in Seq(ScopeState)
      /\ \A k \in 1 .. Len(<<>>) : FALSE
  BY FewScopes
<1>2. call[c].waits \in SUBSET Buffer  BY DEF TypeOK, CallState
<1>3. InTime(scopes, c, call[c].waits) => InTime(scopes', c, call[c].waits)
  <2>1. InTime(scopes, c, call[c].waits) => InTime(Tail(scopes) \o <<>>, c, call[c].waits)
    BY <1>1, <1>2, InTimeKeeps
  <2>. QED  BY <1>1, <2>1
<1>4. call[c].pc \in Early => \A i \in 1 .. Len(scopes') : ~ Binds(scopes'[i], c)
  <2>1. \A i \in 1 .. Len(Tail(scopes) \o <<>>) :
          \/ \E j \in 1 .. Len(scopes) : (Tail(scopes) \o <<>>)[i] = scopes[j]
          \/ \E j \in 1 .. Len(<<>>) : (Tail(scopes) \o <<>>)[i] = <<>>[j]
    BY <1>1, Origin
  <2>2. \A i \in 1 .. Len(scopes') : \E j \in 1 .. Len(scopes) : scopes'[i] = scopes[j]
    BY <1>1, <2>1
  <2>. QED  BY <2>2 DEF NodeCall, Binds
<1>5. call[c].pc = "draining" => \A b \in call[c].waits : Created(b)'
  BY <1>2 DEF NodeCall
<1>. QED  BY <1>3, <1>4, <1>5 DEF NodeCall, Bound, InTime, Objected

(* A refusal that is heard is remembered.                                  *)
LEMMA NodeAllocationAnswered ==
  ASSUME IInv, NInv, runtime = "node", AllocationAnswered
  PROVE  NInv'
<1>1. /\ TypeOK /\ UNCHANGED <<runtime, want, call, lost, refused, pending>>
      /\ scopes # <<>> /\ scopes' = Tail(scopes)
      /\ failure' = (failure \/ Head(scopes).bad)
      /\ scopes \in Seq(ScopeState) /\ Once(scopes)
  BY DEF IInv, TypeOK, AllocationAnswered, Answers, device, buffers, Noted
<1>2. PICK s \in ScopeState : s = Head(scopes)  BY <1>1, TailScopes
<1>3. PICK c \in Call : c = s.of  BY DEF ScopeState
<1>4. Mine(c) /\ call'[c] = call[c]  BY <1>1 DEF Mine
<1>5. \A b \in Buffer : Created(b) => Created(b)'  BY <1>1 DEF Created
<1>6. NodeCall(c)'  BY <1>1, <1>4, <1>5, NodeStill DEF NInv
<1>. QED  BY <1>1, <1>4, <1>6, NodeKeepsFew

(* The scope around a refused buffer is bad.                               *)
LEMMA BadScope ==
  ASSUME NEW c \in Call, NEW w \in {"in", "out", "staging"}, NEW bad \in SUBSET Buffer,
         <<c, w>> \in bad, NEW s, s = Scope(w, c, <<c, w>> \in bad)
  PROVE  About(s) = <<c, w>> /\ s.bad
<1>1. PICK b \in BOOLEAN : b = (<<c, w>> \in bad)  OBVIOUS
<1>2. s = [what |-> w, of |-> c, bad |-> b]  BY <1>1 DEF Scope
<1>3. b  BY <1>1
<1>. QED  BY <1>2, <1>3 DEF About

(* A call creates its buffers: it drains, or knows of a failure before.    *)
LEMMA NodeAllocate ==
  ASSUME IInv, NInv, runtime = "node", NEW c \in Call, Allocate(c)
  PROVE  NInv'
<1>1. /\ TypeOK /\ call[c].pc = "built" /\ UNCHANGED <<runtime, want, lost, failure>>
      /\ pending \subseteq Buffer /\ Bound(c) \subseteq Buffer /\ Bound(c) \subseteq Buffers(c)
  <2>1. TypeOK  BY DEF IInv
  <2>2. pending \subseteq Buffer  BY <2>1 DEF TypeOK
  <2>3. Bound(c) \subseteq Buffer /\ Bound(c) \subseteq Buffers(c)  BY <2>1, CallFacts
  <2>4. call[c].pc = "built" /\ UNCHANGED <<runtime, want, lost, failure>>  BY DEF Allocate, device
  <2>. QED  BY <2>1, <2>2, <2>3, <2>4
<1>2. PICK bad \in SUBSET Bound(c), r \in Seq(ScopeState) : Allocation(c, bad, r)
  BY <1>1, Allocated
<1>3. /\ scopes' = scopes \o r /\ refused' = refused \cup bad /\ pending' = {} /\ Mine(c)
      /\ \A k \in 1 .. Len(r) : r[k].of = c /\ r[k].what \in {"in", "out", "bind"}
      /\ Len(r) >= 2 /\ \A k \in 3 .. Len(r) : r[k].what = "bind"
      /\ r[1] = Scope("in", c, <<c, "in">> \in bad)
      /\ r[2] = Scope("out", c, <<c, "out">> \in bad)
      /\ \/ call'[c].pc = "draining" /\ call'[c].waits = pending \cup Bound(c)
         \/ call'[c].pc = "failed" /\ Objected(c)'
  BY <1>2 DEF Allocation
<1>4. r[1].what = "in" /\ r[1].of = c /\ r[2].what = "out" /\ r[2].of = c  BY <1>3 DEF Scope
<1>5. scopes \in Left  BY <1>1, FewScopes
<1>6. /\ Len(scopes) \in Nat /\ Len(r) \in Nat /\ Len(scopes') = Len(scopes) + Len(r)
      /\ \A k \in 1 .. Len(scopes) : scopes'[k] = scopes[k]
      /\ \A k \in 1 .. Len(r) : scopes'[Len(scopes) + k] = r[k]
  BY <1>1, <1>3, <1>5, Placed
<1>7. call[c].pc \in Early  BY <1>1 DEF Early
<1>8. \A b \in bad : Reported(b)'
  <2>1. ASSUME NEW b \in bad PROVE Reported(b)'
    <3>1. CASE b = <<c, "in">>
      <4>1. About(r[1]) = b /\ r[1].bad  BY <1>1, <1>3, <2>1, <3>1, BadScope
      <4>2. Len(scopes) + 1 \in 1 .. Len(scopes') /\ scopes'[Len(scopes) + 1] = r[1]  BY <1>3, <1>6
      <4>. QED  BY <4>1, <4>2 DEF Reported, About
    <3>2. CASE b = <<c, "out">>
      <4>1. About(r[2]) = b /\ r[2].bad  BY <1>1, <1>3, <2>1, <3>2, BadScope
      <4>2. Len(scopes) + 2 \in 1 .. Len(scopes') /\ scopes'[Len(scopes) + 2] = r[2]  BY <1>3, <1>6
      <4>. QED  BY <4>1, <4>2 DEF Reported, About
    <3>. QED  BY <2>1, <3>1, <3>2 DEF Bound
  <2>. QED  BY <2>1
<1>9. \A k \in 1 .. Len(r) : r[k].of = c /\ (About(r[k]) \in Buffer => ~ Created(About(r[k])))
  BY <1>3, <1>7 DEF Created, About
<1>10. NodeCall(c)'
  <2>1. CASE call'[c].pc = "failed" /\ Objected(c)'  BY <2>1, NodeLater
  <2>2. CASE call'[c].pc = "draining" /\ call'[c].waits = pending \cup Bound(c)
    <3>1. ASSUME NEW b \in pending \cup Bound(c) PROVE Created(b)'
      <4>1. CASE b \in Bound(c)  BY <2>2, <4>1 DEF Created, Bound, Early
      <4>2. CASE b \in pending
        <5>1. b \in Buffer /\ Created(b)  BY <1>1, <4>2 DEF NInv
        <5>2. PICK d \in Call : d = b[1]  BY <5>1 DEF Buffer
        <5>3. d # c  BY <1>7, <5>1, <5>2 DEF Created
        <5>4. call'[d] = call[d]  BY <1>3, <5>3 DEF Mine
        <5>. QED  BY <5>1, <5>2, <5>4 DEF Created
      <4>. QED  BY <4>1, <4>2
    <3>2. \A i \in 1 .. Len(scopes) : ~ Binds(scopes[i], c)  BY <1>7 DEF NInv, NodeCall
    <3>3. ASSUME NEW i \in 1 .. Len(scopes'), Binds(scopes'[i], c)
          PROVE  i > Len(scopes) + 2
      <4>1. i \notin 1 .. Len(scopes)  BY <1>6, <3>2, <3>3
      <4>2. i - Len(scopes) \in 1 .. Len(r) /\ Len(scopes) + (i - Len(scopes)) = i  BY <1>6, <4>1
      <4>3. scopes'[i] = r[i - Len(scopes)]  BY <1>6, <4>2
      <4>4. i - Len(scopes) # 1 /\ i - Len(scopes) # 2  BY <1>4, <3>3, <4>3 DEF Binds
      <4>. QED  BY <1>6, <4>2, <4>4
    <3>4. ASSUME NEW j \in 1 .. Len(scopes'), About(scopes'[j]) \in pending \cup Bound(c)
          PROVE  j <= Len(scopes) + 2
      <4>1. SUFFICES ASSUME j > Len(scopes) + 2 PROVE FALSE  BY <1>6
      <4>2. j - Len(scopes) \in 3 .. Len(r) /\ j - Len(scopes) \in 1 .. Len(r)
            /\ Len(scopes) + (j - Len(scopes)) = j
        BY <1>6, <4>1
      <4>3. scopes'[j] = r[j - Len(scopes)]  BY <1>6, <4>2
      <4>4. scopes'[j].what = "bind"  BY <1>3, <4>2, <4>3
      <4>5. About(scopes'[j]) \in Buffer  BY <1>1, <3>4
      <4>. QED  BY <4>4, <4>5 DEF About, Buffer
    <3>5. InTime(scopes', c, pending \cup Bound(c))
      BY <1>6, <3>3, <3>4 DEF InTime
    <3>6. call'[c].pc \notin Early \cup {"binding", "submitting", "mapping", "done"}
      BY <2>2 DEF Early
    <3>. QED  BY <2>2, <3>1, <3>5, <3>6 DEF NodeCall, Bound, InTime
  <2>. QED  BY <1>3, <2>1, <2>2
<1>11. call[c].pc \notin Early => FALSE  BY <1>7
<1>12. call[c].pc \notin Early \cup {"draining", "binding"} => FALSE  BY <1>7
<1>13. bad \in SUBSET Buffers(c) /\ \A b \in pending' : b \in pending  BY <1>1, <1>3
<1>. QED  BY <1>1, <1>3, <1>5, <1>8, <1>9, <1>10, <1>11, <1>12, <1>13, NodeKeeps

(* A call that has waited for its allocations knows whether one failed.    *)
LEMMA NodeDrain ==
  ASSUME IInv, NInv, runtime = "node", NEW c \in Call, Drain(c)
  PROVE  NInv'
<1>1. /\ TypeOK /\ call[c].pc = "draining" /\ Drained(c) /\ refused \in SUBSET Buffer
      /\ UNCHANGED <<runtime, want, lost, refused, pending, failure>>
  BY DEF IInv, TypeOK, Drain, device, buffers
<1>2. call[c].pc \notin Early  BY <1>1 DEF Early
<1>3. CASE Objection(c) # ""
  <2>1. PICK why \in Why : why = Objection(c)  BY <1>3 DEF Objection, Why
  <2>2. call' = Failing(c, why) /\ scopes' = scopes  BY <1>3, <2>1, <1>1 DEF Drain
  <2>3. Mine(c) /\ call'[c].pc = "failed" /\ call'[c].why = why  BY <1>1, <2>2, CallSet
  <2>4. why = "allocation" \/ (why = "type" /\ want[c].flaw = "type")
    BY <1>3, <2>1 DEF Objection
  <2>5. NodeCall(c)'  BY <1>1, <2>3, <2>4, NodeLater DEF Objected
  <2>6. call'[c].pc \notin Early \cup {"draining", "binding"}  BY <2>3 DEF Early
  <2>. QED  BY <1>1, <2>2, <2>3, <2>5, <2>6, NodeKeepsFew
<1>4. CASE Objection(c) = ""
  <2>1. PICK r \in Seq(ScopeState) : /\ r = BindScopes(c, 1, refused)
                                     /\ \A k \in 1 .. Len(r) : r[k].of = c /\ r[k].what = "bind"
    BY <1>1, BindScopesType
  <2>2. scopes' = scopes \o r  BY <1>1, <1>4, <2>1 DEF Drain
  <2>3. Mine(c) /\ call'[c].pc = "binding"
    <3>1. call' = [call EXCEPT ![c].pc = "binding", ![c].waits = {}]  BY <1>1, <1>4 DEF Drain
    <3>. QED  BY <1>1, <3>1 DEF TypeOK, CallState, Mine
  <2>4. ~ failure  BY <1>4 DEF Objection
  <2>5. Bound(c) \cap refused = {}
    <3>1. SUFFICES ASSUME NEW b \in Bound(c), b \in refused PROVE FALSE  OBVIOUS
    <3>2. PICK i \in 1 .. Len(scopes) : About(scopes[i]) = b  BY <2>4, <3>1 DEF NInv, Reported
    <3>3. b \in call[c].waits  BY <1>1, <3>1 DEF NInv, NodeCall
    <3>4. i \in DOMAIN scopes
      <4>1. scopes \in Seq(ScopeState)  BY <1>1 DEF TypeOK
      <4>. QED  BY <3>2, <4>1, LenProperties
    <3>. QED  BY <1>1, <3>2, <3>3, <3>4 DEF Drained, About
  <2>6. NodeCall(c)'  BY <1>1, <2>3, <2>5, NodeLater
  <2>7. scopes \in Left  BY <1>1, FewScopes
  <2>8. \A k \in 1 .. Len(r) : r[k].of = c /\ (About(r[k]) \in Buffer => ~ Created(About(r[k])))
    BY <2>1 DEF About, Buffer
  <2>9. {} \in SUBSET Buffers(c) /\ refused' = refused \cup {} /\ (\A b \in {} : Reported(b)')
        /\ \A b \in pending' : b \in pending
    BY <1>1
  <2>10. call'[c].pc \notin Early  BY <2>3 DEF Early
  <2>11. call[c].pc \notin Early \cup {"draining", "binding"} => FALSE  BY <1>1
  <2>. QED  BY <1>1, <2>2, <2>3, <2>6, <2>7, <2>8, <2>9, <2>10, <2>11, NodeKeeps
<1>. QED  BY <1>3, <1>4

(* A bind group is never answered to a call that still drains, so the one  *)
(* that is refused is not refused for a buffer.                            *)
LEMMA NodeBindAnswered ==
  ASSUME IInv, NInv, runtime = "node", BindAnswered
  PROVE  NInv'
<1>1. /\ TypeOK /\ UNCHANGED <<runtime, want, lost, failure>> /\ ~ lost /\ Quiet
      /\ scopes # <<>> /\ Head(scopes).what = "bind" /\ scopes \in Seq(ScopeState) /\ Once(scopes)
  BY DEF IInv, NInv, TypeOK, BindAnswered, device
<1>2. PICK s \in ScopeState : s = Head(scopes) /\ s = scopes[1]  BY <1>1, TailScopes
<1>3. PICK c \in Call : c = s.of  BY DEF ScopeState
<1>4. /\ NodeCall(c) /\ Binds(scopes[1], c) /\ Len(scopes) \in Nat /\ Len(scopes) >= 1
      /\ DOMAIN scopes = 1 .. Len(scopes)
  BY <1>1, <1>2, <1>3, TailScopes, LenProperties DEF NInv, Binds
<1>5. call[c].pc # "draining"
  <2>1. SUFFICES ASSUME call[c].pc = "draining" PROVE FALSE  OBVIOUS
  <2>2. PICK j \in 1 .. Len(scopes) : About(scopes[j]) \in call[c].waits
    BY <1>1, <1>4, <2>1 DEF Quiet, Drained, About
  <2>3. InTime(scopes, c, call[c].waits) /\ 1 \in 1 .. Len(scopes)  BY <1>4, <2>1 DEF NodeCall
  <2>4. j < 1  BY <1>4, <2>2, <2>3 DEF InTime
  <2>. QED  BY <1>4, <2>2, <2>4
<1>6. call[c].pc \notin Early  BY <1>4 DEF NodeCall
<1>7. IF call[c].pc = "binding" /\ ~ s.bad /\ call[c].groups = 1
        THEN Submit(c)
        ELSE /\ call' = IF call[c].pc # "binding" THEN call
                        ELSE IF s.bad THEN Failing(c, IF Resident THEN "bind group" ELSE "dispatch")
                        ELSE [call EXCEPT ![c].groups = @ - 1]
             /\ scopes' = Tail(scopes) /\ UNCHANGED <<buffers, pending>>
  BY <1>1, <1>2, <1>3, <1>5 DEF BindAnswered
<1>8. CASE call[c].pc = "binding" /\ ~ s.bad /\ call[c].groups = 1
  <2>1. Submit(c)  BY <1>7, <1>8
  <2>2. PICK bad \in SUBSET Staging(c), r \in Seq(ScopeState) : Submission(c, bad, r)
    BY <1>1, <2>1, Submitted
  <2>3. /\ scopes' = Tail(scopes) \o r
        /\ \A k \in 1 .. Len(r) : r[k].of = c /\ r[k].what \in {"staging", "submit"}
        /\ Len(r) = 1 /\ r[1] = Scope("staging", c, <<c, "staging">> \in bad)
        /\ refused' = refused \cup bad /\ pending' \subseteq pending \cup Staging(c) /\ Mine(c)
        /\ call'[c].pc \in {"failed", "mapping", "submitting"}
    BY <2>2 DEF Submission
  <2>4. Tail(scopes) \in Left  BY <1>1, FewScopes
  <2>5. call'[c].pc \notin Early \cup {"draining", "binding"}  BY <2>3 DEF Early
  <2>6. \A b \in pending' : b \in pending \/ Created(b)'  BY <2>3, <2>5 DEF Staging, Created
  <2>7. bad \in SUBSET Buffers(c)  BY DEF Buffers
  <2>8. \A b \in bad : Reported(b)'
    <3>1. ASSUME NEW b \in bad PROVE Reported(b)'
      <4>1. b = <<c, "staging">>  BY <3>1 DEF Staging
      <4>2. About(r[1]) = b /\ r[1].bad
        <5>1. bad \in SUBSET Buffer  BY <1>1, CallFacts
        <5>. QED  BY <2>3, <3>1, <4>1, <5>1, BadScope
      <4>3. /\ Len(Tail(scopes)) \in Nat /\ Len(Tail(scopes) \o r) = Len(Tail(scopes)) + Len(r)
            /\ \A k \in 1 .. Len(r) : (Tail(scopes) \o r)[Len(Tail(scopes)) + k] = r[k]
        BY <1>1, <2>4, Placed
      <4>4. Len(Tail(scopes)) + 1 \in 1 .. Len(scopes') /\ scopes'[Len(Tail(scopes)) + 1] = r[1]
        BY <2>3, <4>3
      <4>. QED  BY <4>2, <4>4 DEF Reported, About
    <3>. QED  BY <3>1
  <2>9. \A k \in 1 .. Len(r) : r[k].of = c /\ (About(r[k]) \in Buffer => ~ Created(About(r[k])))
    BY <1>8, <2>3 DEF About, Created, Buffer
  <2>10. NodeCall(c)'
    <3>1. Bound(c) \cap refused' = {}
      BY <1>4, <1>8, <2>3 DEF NodeCall, Bound, Staging
    <3>. QED  BY <2>3, <3>1, NodeLater
  <2>11. ~ (Head(scopes).what \in {"in", "out", "staging"} /\ Head(scopes).bad)  BY <1>1
  <2>12. failure => failure'  BY <1>1
  <2>. QED
    BY <1>1, <2>3, <2>4, <2>5, <2>6, <2>7, <2>8, <2>9, <2>10, <2>11, <2>12, NodeKeeps
<1>9. CASE ~ (call[c].pc = "binding" /\ ~ s.bad /\ call[c].groups = 1)
  <2>1. scopes' = Tail(scopes) /\ UNCHANGED <<refused, pending>>  BY <1>7, <1>9 DEF buffers
  <2>2. ~ (Head(scopes).what \in {"in", "out", "staging"} /\ Head(scopes).bad)  BY <1>1
  <2>3. CASE call[c].pc # "binding"
    <3>1. call' = call  BY <1>7, <1>9, <2>3
    <3>2. \A b \in Buffer : Created(b) => Created(b)'  BY <3>1 DEF Created
    <3>3. NodeCall(c)'  BY <1>1, <1>4, <2>1, <3>1, <3>2, NodeStill
    <3>4. Mine(c)  BY <3>1 DEF Mine
    <3>. QED  BY <1>1, <2>1, <2>2, <3>1, <3>3, <3>4, NodeKeepsFew
  <2>4. CASE call[c].pc = "binding"
    <3>1. \/ call' = Failing(c, "bind group")
          \/ call' = [call EXCEPT ![c].groups = @ - 1]
      BY <1>7, <1>9, <2>4 DEF Resident
    <3>2. Mine(c) /\ call'[c].pc \in {"failed", "binding"}
      <4>1. CASE call' = Failing(c, "bind group")  BY <1>1, <4>1, CallSet DEF Why
      <4>2. CASE call' = [call EXCEPT ![c].groups = @ - 1]
        BY <1>1, <2>4, <4>2 DEF TypeOK, CallState, Mine
      <4>. QED  BY <3>1, <4>1, <4>2
    <3>3. Bound(c) \cap refused' = {}  BY <1>4, <2>1, <2>4 DEF NodeCall
    <3>4. NodeCall(c)'  BY <3>2, <3>3, NodeLater
    <3>5. call'[c].pc \notin Early /\ call[c].pc \in Early \cup {"draining", "binding"}
      BY <2>4, <3>2 DEF Early
    <3>. QED  BY <1>1, <2>1, <2>2, <3>2, <3>4, <3>5, NodeKeepsFew
  <2>. QED  BY <2>3, <2>4
<1>. QED  BY <1>8, <1>9

(* A call whose output is mapped has had its bind group.                   *)
LEMMA NodeMapped ==
  ASSUME IInv, NInv, runtime = "node", NEW c \in Call, Mapped(c)
  PROVE  NInv'
<1>. DEFINE resolved == ~ lost /\ Staging(c) \cap refused = {}
<1>1. /\ TypeOK /\ call[c].pc = "mapping"
      /\ UNCHANGED <<runtime, want, lost, refused, pending, failure, scopes>>
      /\ call' = (IF resolved THEN Moved(c, "done") ELSE Failing(c, "mapping"))
  BY DEF IInv, Mapped, device, Destroy
<1>. HIDE DEF resolved
<1>2. Mine(c) /\ call'[c].pc \in {"done", "failed"}
  <2>1. CASE resolved  BY <1>1, <2>1, CallSet
  <2>2. CASE ~ resolved  BY <1>1, <2>2, CallSet DEF Why
  <2>. QED  BY <2>1, <2>2
<1>3. Bound(c) \cap refused' = {}  BY <1>1 DEF NInv, NodeCall
<1>4. NodeCall(c)'  BY <1>2, <1>3, NodeLater
<1>5. call'[c].pc \notin Early \cup {"draining", "binding"}  BY <1>2 DEF Early
<1>. QED  BY <1>1, <1>2, <1>4, <1>5, NodeKeepsFew

LEMMA NodeInit == Init => NInv
<1>. SUFFICES ASSUME Init PROVE NInv  OBVIOUS
<1>1. \A c \in Call : call[c].pc = "idle"  BY DEF Init
<1>2. Len(scopes) = 0 /\ refused = {} /\ pending = {} /\ ~ lost  BY EmptySeq DEF Init
<1>3. \A c \in Call : NodeCall(c)  BY <1>1, <1>2 DEF NodeCall
<1>. QED  BY <1>2, <1>3 DEF NInv

LEMMA NodeNext == IInv /\ NInv /\ [Next]_vars => NInv'
<1>1. SUFFICES ASSUME IInv, NInv, [Next]_vars, runtime = "node" PROVE NInv'
  <2>1. ASSUME [Next]_vars PROVE runtime' = runtime
    BY <2>1 DEF Next, Proceed, vars, FindPipeline, FindModule, Compile, FindModuleAndBind, Compiled,
       Allocate, Drain, Mapped, PipelineAnswered, AllocationAnswered, BindAnswered, SubmitAnswered,
       Lose, LossKnown
  <2>. QED  BY <2>1 DEF NInv
<1>2. TypeOK /\ Resident  BY <1>1 DEF IInv, Resident
<1>3. CASE UNCHANGED vars
  BY <1>1, <1>3
  DEF vars, caches, buffers, device, NInv, NodeCall, Reported, Created, Bound, InTime, Objected
<1>4. ASSUME NEW c \in Call, FindPipeline(c) \/ FindModule(c) \/ Compile(c) \/ Compiled(c) PROVE NInv'
  BY <1>1, <1>4, NodeBegins
<1>5. ASSUME NEW c \in Call, FindModuleAndBind(c) PROVE NInv'
  BY <1>2, <1>5 DEF FindModuleAndBind
<1>6. ASSUME NEW c \in Call, Allocate(c) PROVE NInv'  BY <1>1, <1>6, NodeAllocate
<1>7. ASSUME NEW c \in Call, Drain(c) PROVE NInv'  BY <1>1, <1>7, NodeDrain
<1>8. ASSUME NEW c \in Call, Mapped(c) PROVE NInv'  BY <1>1, <1>8, NodeMapped
<1>9. CASE PipelineAnswered  BY <1>1, <1>9, NodePipelineAnswered
<1>10. CASE AllocationAnswered  BY <1>1, <1>10, NodeAllocationAnswered
<1>11. CASE BindAnswered  BY <1>1, <1>11, NodeBindAnswered
<1>12. CASE SubmitAnswered
  <2>1. /\ scopes # <<>> /\ Head(scopes).what = "submit" /\ scopes \in Seq(ScopeState) /\ Once(scopes)
    BY <1>1, <1>12 DEF SubmitAnswered, Answers, IInv, TypeOK
  <2>2. PICK s \in ScopeState : s = Head(scopes) /\ ScopeInv(s)
    BY <1>1, <2>1, TailScopes DEF IInv, ScopesInv
  <2>3. PICK c \in Call : c = s.of  BY DEF ScopeState
  <2>4. call[c].pc = "submitting"  BY <2>1, <2>2, <2>3 DEF ScopeInv
  <2>. QED  BY <1>1, <2>4 DEF IInv, CallInv
<1>13. CASE Lose \/ LossKnown  BY <1>1, <1>13 DEF Lose, LossKnown
<1>. QED
  BY <1>1, <1>3, <1>4, <1>5, <1>6, <1>7, <1>8, <1>9, <1>10, <1>11, <1>12, <1>13 DEF Next, Proceed

(* In node a call that fails after one of the buffers it binds was refused *)
(* says so (drainAllocationScopes, allocationFailure), however many calls  *)
(* and bind groups share the answers: none is left to fail at a bind group *)
(* that is invalid for a reason nobody names.                              *)
THEOREM RefusalsAreNamed == Spec => []RefusalNamed
<1>1. NInv => RefusalNamed  BY DEF NInv, NodeCall, RefusalNamed, Objected
<1>. QED  BY <1>1, Invariance, NodeInit, NodeNext, PTL DEF Spec
=============================================================================
