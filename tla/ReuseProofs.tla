---------------------------- MODULE ReuseProofs -----------------------------
(***************************************************************************)
(* Theorems about what a call of ResidentForward finds of what the ones    *)
(* before it left.  A model whose weights are read from the source that    *)
(* counts uses never asks it for a weight it has dropped, whatever failed  *)
(* before; one that keeps its pool finds in it a buffer for each of its    *)
(* requests, once a call has gone through; and before a failure the source *)
(* that does not count uses drops no weight that is still to be read.      *)
(***************************************************************************)
EXTENDS ForwardProofs

(* Sequences without repetition *)

Distinct(s) == \A i, j \in 1 .. Len(s) : s[i] = s[j] => i = j

LEMMA SeqFacts ==
  ASSUME NEW T, NEW s \in Seq(T)
  PROVE  /\ Len(s) \in Nat /\ DOMAIN s = 1 .. Len(s) /\ \A i \in 1 .. Len(s) : s[i] \in T
         /\ Range(s) = {s[i] : i \in 1 .. Len(s)} /\ Range(s) \subseteq T
BY DEF Range

LEMMA AppendFacts ==
  ASSUME NEW T, NEW s \in Seq(T), NEW x \in T
  PROVE  /\ Append(s, x) \in Seq(T) /\ Len(Append(s, x)) = Len(s) + 1
         /\ \A i \in 1 .. Len(s) : Append(s, x)[i] = s[i]
         /\ Append(s, x)[Len(s) + 1] = x
OBVIOUS

LEMMA ConcatFacts ==
  ASSUME NEW T, NEW s \in Seq(T), NEW t \in Seq(T)
  PROVE  /\ s \o t \in Seq(T) /\ Len(s \o t) = Len(s) + Len(t)
         /\ \A i \in 1 .. Len(s) : (s \o t)[i] = s[i]
         /\ \A i \in 1 .. Len(t) : (s \o t)[Len(s) + i] = t[i]
OBVIOUS

-----------------------------------------------------------------------------
(* What Chosen returns *)

(* b[n] is what is chosen of the first n elements of s.                    *)
Sifts(s, S, n, b) ==
  b = [i \in 0 .. n |-> IF i = 0 THEN <<>> ELSE IF s[i] \in S THEN Append(b[i - 1], s[i]) ELSE b[i - 1]]

LEMMA SiftExists ==
  ASSUME NEW s, NEW S PROVE \A n \in Nat : \E b : Sifts(s, S, n, b)
<1>. DEFINE K == {n \in Nat : \E b : Sifts(s, S, n, b)}
<1>1. 0 \in K
  <2>. DEFINE b == [i \in 0 .. 0 |-> <<>>]
  <2>1. Sifts(s, S, 0, b)  BY DEF Sifts
  <2>. QED  BY <2>1
<1>2. ASSUME NEW n \in Nat, n \in K PROVE n + 1 \in K
  <2>1. PICK b : Sifts(s, S, n, b)  BY <1>2
  <2>. DEFINE F(g, i) == IF i = 0 THEN <<>> ELSE IF s[i] \in S THEN Append(g[i - 1], s[i]) ELSE g[i - 1]
              c == [i \in 0 .. n + 1 |-> F(b, i)]
  <2>2. ASSUME NEW i \in 0 .. n + 1 PROVE F(b, i) = F(c, i)
    <3>1. CASE i = 0  BY <3>1
    <3>2. CASE i # 0
      <4>1. i - 1 \in 0 .. n /\ i - 1 \in 0 .. n + 1  BY <3>2
      <4>2. c[i - 1] = F(b, i - 1)  BY <4>1
      <4>3. b[i - 1] = F(b, i - 1)
        <5>1. b = [j \in 0 .. n |-> F(b, j)]  BY <2>1 DEF Sifts
        <5>. HIDE DEF F
        <5>. QED  BY <4>1, <5>1
      <4>4. b[i - 1] = c[i - 1]  BY <4>2, <4>3
      <4>. QED  BY <3>2, <4>4
    <3>. QED  BY <3>1, <3>2
  <2>3. c = [i \in 0 .. n + 1 |-> F(c, i)]
    <3>. HIDE DEF F
    <3>. QED  BY <2>2
  <2>4. Sifts(s, S, n + 1, c)
    <3>. HIDE DEF c
    <3>. QED  BY <2>3 DEF Sifts
  <2>. HIDE DEF c
  <2>. QED  BY <2>4
<1>. HIDE DEF K
<1>3. \A n \in Nat : n \in K  BY <1>1, <1>2, SetInduction
<1>. QED  BY <1>3 DEF K

LEMMA SiftSteps ==
  ASSUME NEW s, Len(s) \in Nat, NEW S
  PROVE  \E b : /\ Chosen(s, S) = b[Len(s)] /\ b[0] = <<>>
                /\ \A i \in 1 .. Len(s) : b[i] = IF s[i] \in S THEN Append(b[i - 1], s[i]) ELSE b[i - 1]
<1>. DEFINE n == Len(s)
            b == CHOOSE b : Sifts(s, S, n, b)
<1>1. Chosen(s, S) = b[n]  BY DEF Chosen, Sifts
<1>. HIDE DEF n
<1>2. n \in Nat  BY DEF n
<1>3. \E c : Sifts(s, S, n, c)  BY <1>2, SiftExists
<1>4. Sifts(s, S, n, b)  BY <1>3
<1>. HIDE DEF b
<1>5. b[0] = <<>>  BY <1>2, <1>4 DEF Sifts
<1>6. ASSUME NEW i \in 1 .. n
      PROVE  b[i] = IF s[i] \in S THEN Append(b[i - 1], s[i]) ELSE b[i - 1]
  <2>1. i \in 0 .. n /\ i # 0  BY <1>2
  <2>2. b[i] = [j \in 0 .. n |-> IF j = 0 THEN <<>> ELSE IF s[j] \in S THEN Append(b[j - 1], s[j]) ELSE b[j - 1]][i]
    BY <1>4 DEF Sifts
  <2>. QED  BY <2>1, <2>2
<1>. QED  BY <1>1, <1>5, <1>6 DEF n

(* c is what of the first n elements of s is in S, in their order.         *)
Places(e, s, S, n, c) ==
  /\ \A a \in 1 .. Len(c) : e[a] \in 1 .. n /\ c[a] = s[e[a]] /\ c[a] \in S
  /\ \A a, b \in 1 .. Len(c) : a < b => e[a] < e[b]
  /\ \A i \in 1 .. n : s[i] \in S => \E a \in 1 .. Len(c) : e[a] = i

Sifted(s, S, n, c) == \E e : Places(e, s, S, n, c)

LEMMA SiftedNext ==
  ASSUME NEW T, NEW s \in Seq(T), NEW S, NEW n \in Nat, n + 1 \in 1 .. Len(s), NEW c \in Seq(T),
         Sifted(s, S, n, c), NEW d, d = IF s[n + 1] \in S THEN Append(c, s[n + 1]) ELSE c
  PROVE  d \in Seq(T) /\ Sifted(s, S, n + 1, d)
<1>1. PICK e : Places(e, s, S, n, c)
  BY DEF Sifted
<1>2. s[n + 1] \in T /\ Len(c) \in Nat  BY SeqFacts
<1>3. CASE s[n + 1] \notin S
  <2>1. \A i \in 1 .. n + 1 : s[i] \in S => i \in 1 .. n  BY <1>3
  <2>2. d = c  BY <1>3
  <2>. QED  BY <1>1, <2>1, <2>2 DEF Sifted, Places
<1>4. CASE s[n + 1] \in S
  <2>. DEFINE m == Len(c)
              f == [a \in 1 .. m + 1 |-> IF a = m + 1 THEN n + 1 ELSE e[a]]
  <2>1. /\ d \in Seq(T) /\ Len(d) = m + 1 /\ d[m + 1] = s[n + 1]
        /\ \A a \in 1 .. m : d[a] = c[a]
    BY <1>2, <1>4, AppendFacts
  <2>2. f[m + 1] = n + 1 /\ \A a \in 1 .. m : f[a] = e[a]  BY <1>2
  <2>. HIDE DEF f
  <2>3. ASSUME NEW a \in 1 .. m + 1 PROVE f[a] \in 1 .. n + 1 /\ d[a] = s[f[a]] /\ d[a] \in S
    <3>1. CASE a = m + 1  BY <1>4, <2>1, <2>2, <3>1
    <3>2. CASE a \in 1 .. m
      <4>1. e[a] \in 1 .. n /\ c[a] = s[e[a]] /\ c[a] \in S  BY <1>1, <3>2 DEF Places
      <4>. QED  BY <2>1, <2>2, <3>2, <4>1
    <3>. QED  BY <1>2, <3>1, <3>2
  <2>4. ASSUME NEW a \in 1 .. m + 1, NEW b \in 1 .. m + 1, a < b PROVE f[a] < f[b]
    <3>1. a \in 1 .. m  BY <1>2, <2>4
    <3>2. f[a] = e[a] /\ e[a] \in 1 .. n  BY <1>1, <2>2, <3>1 DEF Places
    <3>3. CASE b = m + 1  BY <2>2, <3>2, <3>3
    <3>4. CASE b \in 1 .. m  BY <1>1, <2>2, <2>4, <3>1, <3>4 DEF Places
    <3>. QED  BY <1>2, <3>3, <3>4
  <2>5. ASSUME NEW i \in 1 .. n + 1, s[i] \in S PROVE \E a \in 1 .. m + 1 : f[a] = i
    <3>1. CASE i = n + 1
      <4>1. m + 1 \in 1 .. m + 1  BY <1>2
      <4>. QED  BY <2>2, <3>1, <4>1
    <3>2. CASE i \in 1 .. n
      <4>1. PICK a \in 1 .. m : e[a] = i  BY <1>1, <2>5, <3>2 DEF Places
      <4>2. a \in 1 .. m + 1 /\ f[a] = i  BY <1>2, <2>2, <4>1
      <4>. QED  BY <4>2
    <3>. QED  BY <3>1, <3>2
  <2>6. Places(f, s, S, n + 1, d)
    <3>. HIDE DEF m
    <3>. QED  BY <2>1, <2>3, <2>4, <2>5 DEF Places
  <2>. QED  BY <2>1, <2>6 DEF Sifted
<1>. QED  BY <1>3, <1>4

LEMMA ChosenIsSifted ==
  ASSUME NEW T, NEW s \in Seq(T), NEW S
  PROVE  Chosen(s, S) \in Seq(T) /\ Sifted(s, S, Len(s), Chosen(s, S))
<1>0. Len(s) \in Nat  BY SeqFacts
<1>1. PICK b : /\ Chosen(s, S) = b[Len(s)] /\ b[0] = <<>>
               /\ \A i \in 1 .. Len(s) : b[i] = IF s[i] \in S THEN Append(b[i - 1], s[i]) ELSE b[i - 1]
  BY <1>0, SiftSteps
<1>. DEFINE K == {n \in Nat : n <= Len(s) => b[n] \in Seq(T) /\ Sifted(s, S, n, b[n])}
<1>2. 0 \in K
  <2>1. <<>> \in Seq(T) /\ Len(<<>>) = 0  OBVIOUS
  <2>2. Sifted(s, S, 0, <<>>)  BY <2>1 DEF Sifted, Places
  <2>. QED  BY <1>1, <2>1, <2>2
<1>3. ASSUME NEW n \in Nat, n \in K PROVE n + 1 \in K
  <2>. SUFFICES ASSUME n + 1 <= Len(s) PROVE b[n + 1] \in Seq(T) /\ Sifted(s, S, n + 1, b[n + 1])
    OBVIOUS
  <2>1. n + 1 \in 1 .. Len(s) /\ (n + 1) - 1 = n /\ n <= Len(s)  BY <1>0
  <2>2. b[n + 1] = IF s[n + 1] \in S THEN Append(b[n], s[n + 1]) ELSE b[n]  BY <1>1, <2>1
  <2>3. b[n] \in Seq(T) /\ Sifted(s, S, n, b[n])  BY <1>3, <2>1
  <2>. QED  BY <2>1, <2>2, <2>3, SiftedNext
<1>4. Len(s) \in K
  <2>. HIDE DEF K
  <2>. QED  BY <1>0, <1>2, <1>3, SetInduction
<1>. QED  BY <1>0, <1>1, <1>4

(* What of a sequence is in S and what is not are together as long as it.  *)
LEMMA LongerByOne ==
  ASSUME NEW T, NEW x \in T, NEW b \in Seq(T), NEW c \in Seq(T), NEW n \in Nat, Len(b) + Len(c) = n
  PROVE  /\ Append(b, x) \in Seq(T) /\ Len(Append(b, x)) + Len(c) = n + 1
         /\ Append(c, x) \in Seq(T) /\ Len(b) + Len(Append(c, x)) = n + 1
<1>1. Len(b) \in Nat /\ Len(c) \in Nat  BY SeqFacts
<1>2. Len(Append(b, x)) = Len(b) + 1 /\ Len(Append(c, x)) = Len(c) + 1  BY AppendFacts
<1>. QED  BY <1>1, <1>2

LEMMA ChosenParts ==
  ASSUME NEW T, NEW s \in Seq(T), NEW S, NEW R, \A i \in 1 .. Len(s) : s[i] \in S <=> s[i] \notin R
  PROVE  Len(Chosen(s, S)) + Len(Chosen(s, R)) = Len(s)
<1>0. Len(s) \in Nat  BY SeqFacts
<1>1. PICK b : /\ Chosen(s, S) = b[Len(s)] /\ b[0] = <<>>
               /\ \A i \in 1 .. Len(s) : b[i] = IF s[i] \in S THEN Append(b[i - 1], s[i]) ELSE b[i - 1]
  BY <1>0, SiftSteps
<1>2. PICK c : /\ Chosen(s, R) = c[Len(s)] /\ c[0] = <<>>
               /\ \A i \in 1 .. Len(s) : c[i] = IF s[i] \in R THEN Append(c[i - 1], s[i]) ELSE c[i - 1]
  BY <1>0, SiftSteps
<1>. DEFINE Adds(n) == b[n] \in Seq(T) /\ c[n] \in Seq(T) /\ Len(b[n]) + Len(c[n]) = n
            K == {n \in Nat : n <= Len(s) => Adds(n)}
<1>3. Adds(0)
  <2>1. <<>> \in Seq(T) /\ Len(<<>>) = 0  OBVIOUS
  <2>. QED  BY <1>1, <1>2, <2>1
<1>4. ASSUME NEW n \in Nat, n + 1 <= Len(s), Adds(n) PROVE Adds(n + 1)
  <2>1. n + 1 \in 1 .. Len(s) /\ (n + 1) - 1 = n /\ s[n + 1] \in T  BY <1>0, <1>4, SeqFacts
  <2>2. /\ b[n + 1] = IF s[n + 1] \in S THEN Append(b[n], s[n + 1]) ELSE b[n]
        /\ c[n + 1] = IF s[n + 1] \in R THEN Append(c[n], s[n + 1]) ELSE c[n]
    BY <1>1, <1>2, <2>1
  <2>3. /\ Append(b[n], s[n + 1]) \in Seq(T) /\ Len(Append(b[n], s[n + 1])) + Len(c[n]) = n + 1
        /\ Append(c[n], s[n + 1]) \in Seq(T) /\ Len(b[n]) + Len(Append(c[n], s[n + 1])) = n + 1
    <3>. DEFINE before == b[n]  rest == c[n]
    <3>1. before \in Seq(T) /\ rest \in Seq(T) /\ Len(before) + Len(rest) = n  BY <1>4
    <3>. HIDE DEF before, rest
    <3>2. /\ Append(before, s[n + 1]) \in Seq(T) /\ Len(Append(before, s[n + 1])) + Len(rest) = n + 1
          /\ Append(rest, s[n + 1]) \in Seq(T) /\ Len(before) + Len(Append(rest, s[n + 1])) = n + 1
      BY <2>1, <3>1, LongerByOne
    <3>. QED  BY <3>2 DEF before, rest
  <2>4. s[n + 1] \in S <=> s[n + 1] \notin R  BY <2>1
  <2>5. CASE s[n + 1] \in S
    <3>1. b[n + 1] = Append(b[n], s[n + 1]) /\ c[n + 1] = c[n]  BY <2>2, <2>4, <2>5
    <3>. QED  BY <1>4, <2>3, <3>1
  <2>6. CASE s[n + 1] \notin S
    <3>1. b[n + 1] = b[n] /\ c[n + 1] = Append(c[n], s[n + 1])  BY <2>2, <2>4, <2>6
    <3>. QED  BY <1>4, <2>3, <3>1
  <2>. QED  BY <2>5, <2>6
<1>5. Adds(Len(s))
  <2>. HIDE DEF Adds
  <2>1. 0 \in K  BY <1>3
  <2>2. ASSUME NEW n \in Nat, n \in K PROVE n + 1 \in K
    <3>1. n + 1 <= Len(s) => Adds(n)  BY <1>0, <2>2
    <3>. QED  BY <1>4, <3>1
  <2>3. \A n \in Nat : n \in K
    <3>. HIDE DEF K
    <3>. QED  BY <2>1, <2>2, SetInduction
  <2>. QED  BY <1>0, <2>3
<1>. QED  BY <1>1, <1>2, <1>5

LEMMA ChosenFacts ==
  ASSUME NEW T, NEW s \in Seq(T), NEW S
  PROVE  /\ Chosen(s, S) \in Seq(T) /\ Range(Chosen(s, S)) = Range(s) \cap S
         /\ Distinct(s) => Distinct(Chosen(s, S))
<1>. DEFINE c == Chosen(s, S)
<1>1. c \in Seq(T) /\ Sifted(s, S, Len(s), c)  BY ChosenIsSifted
<1>. HIDE DEF c
<1>2. PICK e : /\ \A a \in 1 .. Len(c) : e[a] \in 1 .. Len(s) /\ c[a] = s[e[a]] /\ c[a] \in S
               /\ \A a, b \in 1 .. Len(c) : a < b => e[a] < e[b]
               /\ \A i \in 1 .. Len(s) : s[i] \in S => \E a \in 1 .. Len(c) : e[a] = i
  BY <1>1 DEF Sifted, Places
<1>3. Range(c) = {c[i] : i \in 1 .. Len(c)} /\ Range(s) = {s[i] : i \in 1 .. Len(s)} /\ Len(c) \in Nat
  BY <1>1, SeqFacts
<1>4. Range(c) \subseteq Range(s) \cap S  BY <1>2, <1>3
<1>5. Range(s) \cap S \subseteq Range(c)
  <2>1. ASSUME NEW i \in 1 .. Len(s), s[i] \in S PROVE s[i] \in Range(c)
    <3>1. PICK a \in 1 .. Len(c) : e[a] = i  BY <1>2, <2>1
    <3>2. c[a] = s[i]  BY <1>2, <3>1
    <3>. QED  BY <1>3, <3>2
  <2>. QED  BY <1>3, <2>1
<1>6. ASSUME Distinct(s), NEW a \in 1 .. Len(c), NEW b \in 1 .. Len(c), c[a] = c[b] PROVE a = b
  <2>1. e[a] = e[b] /\ e[a] \in 1 .. Len(s)  BY <1>2, <1>6 DEF Distinct
  <2>2. ~ (a < b) /\ ~ (b < a)  BY <1>2, <2>1
  <2>. QED  BY <1>3, <2>2
<1>. QED  BY <1>1, <1>4, <1>5, <1>6 DEF c, Distinct

-----------------------------------------------------------------------------
(* The order in which the tensors of a layer arrive *)

IsArrival(U, g) ==
  g = [s \in SUBSET U |-> IF s = {} THEN <<>> ELSE Append(g[s \ {Pick(s)}], Pick(s))]

LEMMA ArrivalExists ==
  ASSUME NEW U, IsFiniteSet(U) PROVE \E g : IsArrival(U, g)
<1>. DEFINE Small(k) == {s \in SUBSET U : Cardinality(s) <= k}
            Body(g, s) == IF s = {} THEN <<>> ELSE Append(g[s \ {Pick(s)}], Pick(s))
            S == {k \in Nat : \E g : g = [s \in Small(k) |-> Body(g, s)]}
<1>1. 0 \in S
  <2>. DEFINE g == [s \in Small(0) |-> <<>>]
  <2>0. ASSUME NEW s \in Small(0) PROVE s = {}
    <3>1. s \in SUBSET U /\ Cardinality(s) <= 0  OBVIOUS
    <3>2. Cardinality(s) \in Nat /\ (Cardinality(s) = 0 <=> s = {})  BY <3>1, Picking
    <3>. QED  BY <3>1, <3>2
  <2>1. \A s \in Small(0) : Body(g, s) = <<>>  BY <2>0
  <2>2. g = [s \in Small(0) |-> Body(g, s)]
    <3>. HIDE DEF Body, Small
    <3>. QED  BY <2>1
  <2>. HIDE DEF g, Small, Body
  <2>. QED  BY <2>2
<1>2. ASSUME NEW k \in Nat, k \in S PROVE k + 1 \in S
  <2>1. PICK g : g = [s \in Small(k) |-> Body(g, s)]  BY <1>2
  <2>. DEFINE h == [s \in Small(k + 1) |-> Body(g, s)]
  <2>2. ASSUME NEW s \in Small(k + 1) PROVE Body(g, s) = Body(h, s)
    <3>1. CASE s = {}  BY <3>1
    <3>2. CASE s # {}
      <4>. DEFINE r == s \ {Pick(s)}
      <4>1. r \in Small(k) /\ r \in Small(k + 1)  BY <3>2, Picking
      <4>2. h[r] = Body(g, r)  BY <4>1
      <4>3. g[r] = Body(g, r)
        <5>. HIDE DEF Body, Small, r
        <5>. QED  BY <2>1, <4>1
      <4>4. g[r] = h[r]  BY <4>2, <4>3
      <4>. QED  BY <3>2, <4>4
    <3>. QED  BY <3>1, <3>2
  <2>3. h = [s \in Small(k + 1) |-> Body(h, s)]
    <3>. HIDE DEF Body, Small
    <3>. QED  BY <2>2
  <2>. HIDE DEF h, Body, Small
  <2>. QED  BY <2>3
<1>3. Cardinality(U) \in S
  <2>. HIDE DEF S
  <2>. QED  BY <1>1, <1>2, SetInduction, FS_CardinalityType
<1>4. Small(Cardinality(U)) = SUBSET U  BY FS_Subset
<1>5. PICK g : g = [s \in Small(Cardinality(U)) |-> Body(g, s)]  BY <1>3
<1>6. IsArrival(U, g)
  <2>. HIDE DEF Small
  <2>. QED  BY <1>4, <1>5 DEF IsArrival
<1>. QED  BY <1>6

(* s is an enumeration of S.                                               *)
Enumerates(s, S) == s \in Seq(S) /\ Distinct(s) /\ Range(s) = S

LEMMA OneMore ==
  ASSUME NEW S, NEW x \in S, NEW s, Enumerates(s, S \ {x}) PROVE Enumerates(Append(s, x), S)
<1>. DEFINE t == Append(s, x)
<1>1. s \in Seq(S)
  <2>1. s \in Seq(S \ {x})  BY DEF Enumerates
  <2>. QED  BY <2>1
<1>2. /\ t \in Seq(S) /\ Len(t) = Len(s) + 1 /\ t[Len(s) + 1] = x
      /\ \A i \in 1 .. Len(s) : t[i] = s[i]
  BY <1>1, AppendFacts
<1>3. Len(s) \in Nat /\ Range(s) = {s[i] : i \in 1 .. Len(s)}  BY <1>1, SeqFacts
<1>4. Range(t) = {t[i] : i \in 1 .. Len(t)}  BY <1>2, SeqFacts
<1>. HIDE DEF t
<1>5. \A i \in 1 .. Len(s) : s[i] \in S /\ s[i] # x  BY <1>3 DEF Enumerates
<1>6. Range(t) = S
  <2>1. Range(t) \subseteq S  BY <1>2, SeqFacts
  <2>2. x \in Range(t)
    <3>1. Len(s) + 1 \in 1 .. Len(t)  BY <1>2, <1>3
    <3>. QED  BY <1>2, <1>4, <3>1
  <2>3. ASSUME NEW y \in S \ {x} PROVE y \in Range(t)
    <3>1. PICK i \in 1 .. Len(s) : s[i] = y  BY <1>3, <2>3 DEF Enumerates
    <3>2. i \in 1 .. Len(t) /\ t[i] = y  BY <1>2, <1>3, <3>1
    <3>. QED  BY <1>4, <3>2
  <2>. QED  BY <2>1, <2>2, <2>3
<1>7. ASSUME NEW i \in 1 .. Len(t), NEW j \in 1 .. Len(t), t[i] = t[j] PROVE i = j
  <2>1. i \in 1 .. Len(s) \/ i = Len(s) + 1  BY <1>2, <1>3
  <2>2. j \in 1 .. Len(s) \/ j = Len(s) + 1  BY <1>2, <1>3
  <2>3. CASE i \in 1 .. Len(s) /\ j \in 1 .. Len(s)  BY <1>2, <1>7, <2>3 DEF Enumerates, Distinct
  <2>4. CASE i = Len(s) + 1 /\ j \in 1 .. Len(s)  BY <1>2, <1>5, <1>7, <2>4
  <2>5. CASE i \in 1 .. Len(s) /\ j = Len(s) + 1  BY <1>2, <1>5, <1>7, <2>5
  <2>. QED  BY <2>1, <2>2, <2>3, <2>4, <2>5
<1>. QED  BY <1>2, <1>6, <1>7 DEF t, Enumerates, Distinct

LEMMA ArrivalEnumerates ==
  ASSUME NEW U, IsFiniteSet(U)
  PROVE  Enumerates(Arrival(U), U)
<1>. DEFINE g == CHOOSE g : g = [s \in SUBSET U |-> IF s = {} THEN <<>> ELSE Append(g[s \ {Pick(s)}], Pick(s))]
<1>1. Arrival(U) = g[U]
  BY DEF Arrival, FoldSet, MapThenFoldSet, Pick
<1>2. IsArrival(U, g)
  <2>1. \E h : IsArrival(U, h)  BY ArrivalExists
  <2>. QED  BY <2>1 DEF IsArrival
<1>. HIDE DEF g
<1>3. ASSUME NEW s \in SUBSET U PROVE g[s] = IF s = {} THEN <<>> ELSE Append(g[s \ {Pick(s)}], Pick(s))
  BY <1>2 DEF IsArrival
<1>. DEFINE K == {k \in Nat : \A s \in SUBSET U : Cardinality(s) = k => Enumerates(g[s], s)}
<1>4. 0 \in K
  <2>1. Enumerates(<<>>, {})  BY DEF Enumerates, Distinct, Range
  <2>2. \A s \in SUBSET U : Cardinality(s) = 0 => s = {} /\ g[s] = <<>>  BY <1>3, Picking
  <2>. QED  BY <2>1, <2>2
<1>5. ASSUME NEW k \in Nat, k \in K PROVE k + 1 \in K
  <2>. SUFFICES ASSUME NEW s \in SUBSET U, Cardinality(s) = k + 1 PROVE Enumerates(g[s], s)
    OBVIOUS
  <2>1. s # {} /\ Pick(s) \in s /\ s \ {Pick(s)} \in SUBSET U /\ Cardinality(s \ {Pick(s)}) = k
    BY Picking
  <2>2. Enumerates(g[s \ {Pick(s)}], s \ {Pick(s)})  BY <1>5, <2>1
  <2>3. g[s] = Append(g[s \ {Pick(s)}], Pick(s))  BY <1>3, <2>1
  <2>. QED  BY <2>1, <2>2, <2>3, OneMore
<1>6. \A k \in Nat : k \in K
  <2>. HIDE DEF K
  <2>. QED  BY <1>4, <1>5, SetInduction
<1>. QED  BY <1>1, <1>6, FS_CardinalityType

(* A model reads finitely many weights.                                    *)
LEMMA FamilyIsFinite ==
  ASSUME NEW n \in Nat, NEW f, \A i \in 1 .. n : IsFiniteSet(f[i])
  PROVE  IsFiniteSet(UNION {f[i] : i \in 1 .. n})
<1>. DEFINE F == {f[i] : i \in 1 .. n}
            g == [i \in 1 .. n |-> f[i]]
<1>1. IsFiniteSet(1 .. n)  BY FS_Interval
<1>2. g \in Surjection(1 .. n, F)  BY DEF Surjection
<1>3. IsFiniteSet(F)
  <2>. HIDE DEF g, F
  <2>. QED  BY <1>1, <1>2, FS_Surjection
<1>4. \A T \in F : IsFiniteSet(T)  OBVIOUS
<1>. HIDE DEF F
<1>5. IsFiniteSet(UNION F)  BY <1>3, <1>4, FS_UNION
<1>. QED  BY <1>5 DEF F

LEMMA WeightsAreFinite == ASSUME NEW m \in Model PROVE IsFiniteSet(AllWeights(m))
<1>1. Len(Forward[m]) \in Nat  BY ForwardAssumption
<1>2. ASSUME NEW k \in 1 .. Len(Forward[m]) PROVE IsFiniteSet(WeightsOf(Forward[m][k]))
  <2>. DEFINE program == Forward[m][k]
              f == [i \in 1 .. Len(program) |-> Needs(program[i])]
  <2>1. Len(program) \in Nat  BY ForwardAssumption
  <2>2. \A i \in 1 .. Len(program) : IsFiniteSet(Needs(program[i]))  BY WeightAssumption
  <2>. HIDE DEF program
  <2>3. \A i \in 1 .. Len(program) : f[i] = Needs(program[i])  OBVIOUS
  <2>. HIDE DEF f
  <2>6. \A i \in 1 .. Len(program) : IsFiniteSet(f[i])  BY <2>2, <2>3
  <2>4. IsFiniteSet(UNION {f[i] : i \in 1 .. Len(program)})  BY <2>1, <2>6, FamilyIsFinite
  <2>5. UNION {f[i] : i \in 1 .. Len(program)} = WeightsOf(program)  BY <2>3 DEF WeightsOf
  <2>. QED  BY <2>4, <2>5 DEF program
<1>. DEFINE f == [k \in 1 .. Len(Forward[m]) |-> WeightsOf(Forward[m][k])]
<1>3. \A k \in 1 .. Len(Forward[m]) : f[k] = WeightsOf(Forward[m][k])  OBVIOUS
<1>. HIDE DEF f
<1>6. \A k \in 1 .. Len(Forward[m]) : IsFiniteSet(f[k])  BY <1>2, <1>3
<1>4. IsFiniteSet(UNION {f[k] : k \in 1 .. Len(Forward[m])})  BY <1>1, <1>6, FamilyIsFinite
<1>5. UNION {f[k] : k \in 1 .. Len(Forward[m])} = AllWeights(m)  BY <1>3 DEF AllWeights
<1>. QED  BY <1>4, <1>5

LEMMA ManifestFacts ==
  ASSUME NEW m \in Model
  PROVE  /\ DOMAIN Manifest[m] = {w[1] : w \in AllWeights(m)}
         /\ \A p \in DOMAIN Manifest[m] :
              /\ Enumerates(Manifest[m][p], {w \in AllWeights(m) : w[1] = p})
              /\ Tensors(m, p) = {w \in AllWeights(m) : w[1] = p}
<1>1. m \in DOMAIN Forward  BY ForwardAssumption
<1>2. Manifest[m] = [p \in {w[1] : w \in AllWeights(m)} |-> Arrival({w \in AllWeights(m) : w[1] = p})]
  BY <1>1 DEF Manifest
<1>3. ASSUME NEW p \in {w[1] : w \in AllWeights(m)}
      PROVE  Enumerates(Manifest[m][p], {w \in AllWeights(m) : w[1] = p})
  <2>. DEFINE U == {w \in AllWeights(m) : w[1] = p}
  <2>1. IsFiniteSet(U)  BY WeightsAreFinite, FS_Subset
  <2>2. Manifest[m][p] = Arrival(U)  BY <1>2
  <2>. HIDE DEF U
  <2>. QED  BY <2>1, <2>2, ArrivalEnumerates DEF U
<1>4. DOMAIN Manifest[m] = {w[1] : w \in AllWeights(m)}  BY <1>2
<1>. QED  BY <1>3, <1>4 DEF Enumerates, Tensors

-----------------------------------------------------------------------------
(* What the source holds *)

(* w is in s, and only elements of B follow it: it is dropped after them.  *)
Young(s, w, B) ==
  \E k \in 1 .. Len(s) : s[k] = w /\ \A i \in 1 .. Len(s) : k <= i => s[i] \in B

LEMMA YoungIsHeld ==
  ASSUME NEW T, NEW s \in Seq(T), NEW w, NEW B, Young(s, w, B) PROVE w \in Range(s)
BY SeqFacts DEF Young

LEMMA YoungChosen ==
  ASSUME NEW T, NEW s \in Seq(T), NEW S, NEW w \in S, NEW B, Young(s, w, B)
  PROVE  Young(Chosen(s, S), w, B)
<1>. DEFINE c == Chosen(s, S)
<1>1. c \in Seq(T) /\ Sifted(s, S, Len(s), c)  BY ChosenIsSifted
<1>. HIDE DEF c
<1>2. PICK e : /\ \A a \in 1 .. Len(c) : e[a] \in 1 .. Len(s) /\ c[a] = s[e[a]] /\ c[a] \in S
               /\ \A a, b \in 1 .. Len(c) : a < b => e[a] < e[b]
               /\ \A i \in 1 .. Len(s) : s[i] \in S => \E a \in 1 .. Len(c) : e[a] = i
  BY <1>1 DEF Sifted, Places
<1>3. PICK k \in 1 .. Len(s) : s[k] = w /\ \A i \in 1 .. Len(s) : k <= i => s[i] \in B
  BY DEF Young
<1>4. PICK a \in 1 .. Len(c) : e[a] = k  BY <1>2, <1>3
<1>5. Len(c) \in Nat /\ Len(s) \in Nat  BY <1>1, SeqFacts
<1>6. ASSUME NEW b \in 1 .. Len(c), a <= b PROVE c[b] \in B
  <2>1. e[b] \in 1 .. Len(s) /\ c[b] = s[e[b]]  BY <1>2
  <2>2. k <= e[b]
    <3>1. CASE a = b  BY <1>3, <1>4, <1>5, <3>1
    <3>2. CASE a < b
      <4>1. e[a] < e[b]  BY <1>2, <3>2
      <4>. QED  BY <1>3, <1>4, <1>5, <2>1, <4>1
    <3>. QED  BY <1>5, <1>6, <3>1, <3>2
  <2>. QED  BY <1>3, <2>1, <2>2
<1>7. c[a] = w  BY <1>2, <1>3, <1>4
<1>. QED  BY <1>6, <1>7 DEF c, Young

LEMMA RangeOfConcat ==
  ASSUME NEW T, NEW s \in Seq(T), NEW t \in Seq(T)
  PROVE  /\ Range(s \o t) = Range(s) \cup Range(t)
         /\ Distinct(s) /\ Distinct(t) /\ Range(s) \cap Range(t) = {} => Distinct(s \o t)
<1>1. /\ s \o t \in Seq(T) /\ Len(s \o t) = Len(s) + Len(t)
      /\ \A i \in 1 .. Len(s) : (s \o t)[i] = s[i]
      /\ \A i \in 1 .. Len(t) : (s \o t)[Len(s) + i] = t[i]
  BY ConcatFacts
<1>. DEFINE u == s \o t
<1>2. /\ Len(s) \in Nat /\ Range(s) = {s[i] : i \in 1 .. Len(s)}
      /\ Len(t) \in Nat /\ Range(t) = {t[i] : i \in 1 .. Len(t)}
      /\ Len(u) \in Nat /\ Range(u) = {u[i] : i \in 1 .. Len(u)}
  BY <1>1, SeqFacts
<1>3. /\ Len(u) = Len(s) + Len(t)
      /\ \A i \in 1 .. Len(s) : u[i] = s[i]
      /\ \A i \in 1 .. Len(t) : u[Len(s) + i] = t[i]
  BY <1>1
<1>. HIDE DEF u
<1>4. ASSUME NEW i \in 1 .. Len(u)
      PROVE  \/ i \in 1 .. Len(s) /\ u[i] = s[i]
             \/ i - Len(s) \in 1 .. Len(t) /\ u[i] = t[i - Len(s)]
  <2>1. CASE i <= Len(s)  BY <1>2, <1>3, <2>1
  <2>2. CASE ~ (i <= Len(s))
    <3>1. i - Len(s) \in 1 .. Len(t) /\ Len(s) + (i - Len(s)) = i  BY <1>2, <1>3, <2>2
    <3>2. u[Len(s) + (i - Len(s))] = t[i - Len(s)]  BY <1>3, <3>1
    <3>. QED  BY <3>1, <3>2
  <2>. QED  BY <2>1, <2>2
<1>5. Range(u) \subseteq Range(s) \cup Range(t)
  <2>1. ASSUME NEW i \in 1 .. Len(u) PROVE u[i] \in Range(s) \cup Range(t)
    BY <1>2, <1>4
  <2>. QED  BY <1>2, <2>1
<1>6. ASSUME NEW i \in 1 .. Len(s) PROVE s[i] \in Range(u)
  <2>1. i \in 1 .. Len(u) /\ u[i] = s[i]  BY <1>2, <1>3
  <2>. QED  BY <1>2, <2>1
<1>7. ASSUME NEW i \in 1 .. Len(t) PROVE t[i] \in Range(u)
  <2>1. Len(s) + i \in 1 .. Len(u) /\ u[Len(s) + i] = t[i]  BY <1>2, <1>3
  <2>. QED  BY <1>2, <2>1
<1>8. Range(u) = Range(s) \cup Range(t)  BY <1>2, <1>5, <1>6, <1>7
<1>9. ASSUME Distinct(s), Distinct(t), Range(s) \cap Range(t) = {},
             NEW i \in 1 .. Len(u), NEW j \in 1 .. Len(u), u[i] = u[j]
      PROVE  i = j
  <2>1. CASE i \in 1 .. Len(s) /\ j \in 1 .. Len(s)  BY <1>3, <1>9, <2>1 DEF Distinct
  <2>2. CASE i - Len(s) \in 1 .. Len(t) /\ j - Len(s) \in 1 .. Len(t)
    <3>1. u[i] = t[i - Len(s)] /\ u[j] = t[j - Len(s)]  BY <1>2, <1>4, <2>2
    <3>2. i - Len(s) = j - Len(s)  BY <1>9, <2>2, <3>1 DEF Distinct
    <3>. QED  BY <1>2, <3>2
  <2>3. CASE i \in 1 .. Len(s) /\ j - Len(s) \in 1 .. Len(t)
    <3>1. u[i] = s[i] /\ u[j] = t[j - Len(s)]  BY <1>2, <1>4, <2>3
    <3>2. u[i] \in Range(s) /\ u[j] \in Range(t)  BY <1>2, <2>3, <3>1
    <3>. QED  BY <1>9, <3>2
  <2>4. CASE j \in 1 .. Len(s) /\ i - Len(s) \in 1 .. Len(t)
    <3>1. u[j] = s[j] /\ u[i] = t[i - Len(s)]  BY <1>2, <1>4, <2>4
    <3>2. u[j] \in Range(s) /\ u[i] \in Range(t)  BY <1>2, <2>4, <3>1
    <3>. QED  BY <1>9, <3>2
  <2>. QED  BY <1>4, <2>1, <2>2, <2>3, <2>4
<1>. QED  BY <1>8, <1>9 DEF u, Distinct

LEMMA YoungBefore ==
  ASSUME NEW T, NEW s \in Seq(T), NEW t \in Seq(T), NEW w, NEW B, Young(s, w, B), Range(t) \subseteq B
  PROVE  Young(s \o t, w, B)
<1>. DEFINE u == s \o t
<1>1. /\ Len(u) = Len(s) + Len(t)
      /\ \A i \in 1 .. Len(s) : u[i] = s[i]
      /\ \A i \in 1 .. Len(t) : u[Len(s) + i] = t[i]
  BY ConcatFacts
<1>. HIDE DEF u
<1>2. Len(s) \in Nat /\ Len(t) \in Nat /\ \A i \in 1 .. Len(t) : t[i] \in B  BY SeqFacts
<1>3. PICK k \in 1 .. Len(s) : s[k] = w /\ \A i \in 1 .. Len(s) : k <= i => s[i] \in B
  BY DEF Young
<1>4. ASSUME NEW i \in 1 .. Len(u), k <= i PROVE u[i] \in B
  <2>1. CASE i <= Len(s)  BY <1>1, <1>2, <1>3, <1>4, <2>1
  <2>2. CASE ~ (i <= Len(s))
    <3>1. i - Len(s) \in 1 .. Len(t) /\ Len(s) + (i - Len(s)) = i  BY <1>1, <1>2, <2>2
    <3>2. u[Len(s) + (i - Len(s))] = t[i - Len(s)]  BY <1>1, <3>1
    <3>. QED  BY <1>2, <3>1, <3>2
  <2>. QED  BY <2>1, <2>2
<1>5. k \in 1 .. Len(u) /\ u[k] = w  BY <1>1, <1>2, <1>3
<1>. QED  BY <1>4, <1>5 DEF u, Young

LEMMA YoungAfter ==
  ASSUME NEW T, NEW s \in Seq(T), NEW t \in Seq(T), NEW B, Range(t) \subseteq B, NEW w \in Range(t)
  PROVE  Young(s \o t, w, B)
<1>. DEFINE u == s \o t
<1>1. Len(u) = Len(s) + Len(t) /\ \A i \in 1 .. Len(t) : u[Len(s) + i] = t[i]
  BY ConcatFacts
<1>. HIDE DEF u
<1>2. Len(s) \in Nat /\ Len(t) \in Nat /\ \A i \in 1 .. Len(t) : t[i] \in B  BY SeqFacts
<1>3. PICK k \in 1 .. Len(t) : t[k] = w  BY SeqFacts
<1>4. ASSUME NEW i \in 1 .. Len(u), Len(s) + k <= i PROVE u[i] \in B
  <2>1. i - Len(s) \in 1 .. Len(t) /\ Len(s) + (i - Len(s)) = i  BY <1>1, <1>2, <1>3, <1>4
  <2>2. u[Len(s) + (i - Len(s))] = t[i - Len(s)]  BY <1>1, <2>1
  <2>. QED  BY <1>2, <2>1, <2>2
<1>5. Len(s) + k \in 1 .. Len(u) /\ u[Len(s) + k] = w  BY <1>1, <1>2, <1>3
<1>. QED  BY <1>4, <1>5 DEF u, Young

LEMMA LastFacts ==
  ASSUME NEW T, NEW s \in Seq(T), NEW n \in Nat
  PROVE  /\ LastOf(s, n) \in Seq(T) /\ Len(LastOf(s, n)) <= n
         /\ Range(LastOf(s, n)) \subseteq Range(s)
         /\ Distinct(s) => Distinct(LastOf(s, n))
         /\ \E d \in Nat : /\ d + Len(LastOf(s, n)) = Len(s)
                           /\ \A i \in 1 .. Len(LastOf(s, n)) : LastOf(s, n)[i] = s[d + i]
                           /\ d # 0 => Len(LastOf(s, n)) = n
<1>. DEFINE t == LastOf(s, n)
<1>0. Len(s) \in Nat /\ Range(s) = {s[i] : i \in 1 .. Len(s)}  BY SeqFacts
<1>1. \E d \in Nat : /\ t \in Seq(T) /\ d + Len(t) = Len(s) /\ Len(t) <= n
                     /\ \A i \in 1 .. Len(t) : t[i] = s[d + i]
                     /\ d # 0 => Len(t) = n
  <2>1. CASE Len(s) > n
    <3>. DEFINE d == Len(s) - n
    <3>1. t = SubSeq(s, d + 1, Len(s))  BY <2>1 DEF LastOf
    <3>2. d \in Nat /\ d + n = Len(s)  BY <1>0, <2>1
    <3>. HIDE DEF d, t
    <3>3. t \in Seq(T) /\ Len(t) = n /\ \A i \in 1 .. n : t[i] = s[d + i]
      BY <1>0, <3>1, <3>2
    <3>4. d + Len(t) = Len(s) /\ Len(t) <= n /\ (d # 0 => Len(t) = n)
      BY <3>2, <3>3
    <3>5. \A i \in 1 .. Len(t) : t[i] = s[d + i]  BY <3>3
    <3>. QED  BY <3>2, <3>3, <3>4, <3>5
  <2>2. CASE ~ (Len(s) > n)
    <3>1. t = s  BY <2>2 DEF LastOf
    <3>. QED  BY <1>0, <2>2, <3>1
  <2>. QED  BY <2>1, <2>2
<1>. HIDE DEF t
<1>2. PICK d \in Nat : /\ t \in Seq(T) /\ d + Len(t) = Len(s) /\ Len(t) <= n
                       /\ \A i \in 1 .. Len(t) : t[i] = s[d + i]
                       /\ d # 0 => Len(t) = n
  BY <1>1
<1>3. Len(t) \in Nat /\ Range(t) = {t[i] : i \in 1 .. Len(t)}  BY <1>2, SeqFacts
<1>4. \A i \in 1 .. Len(t) : d + i \in 1 .. Len(s)  BY <1>0, <1>2, <1>3
<1>5. Range(t) \subseteq Range(s)  BY <1>0, <1>2, <1>3, <1>4
<1>6. ASSUME Distinct(s), NEW i \in 1 .. Len(t), NEW j \in 1 .. Len(t), t[i] = t[j] PROVE i = j
  <2>1. d + i = d + j  BY <1>2, <1>4, <1>6 DEF Distinct
  <2>. QED  BY <1>2, <1>3, <2>1
<1>. QED  BY <1>2, <1>5, <1>6 DEF t, Distinct

(* The last n elements hold a young one, when no more than n can be young. *)
LEMMA YoungLast ==
  ASSUME NEW T, NEW s \in Seq(T), Distinct(s), NEW B, IsFiniteSet(B), NEW n \in Nat,
         Cardinality(B) <= n, NEW w, Young(s, w, B)
  PROVE  Young(LastOf(s, n), w, B)
<1>. DEFINE t == LastOf(s, n)
<1>1. PICK d \in Nat : /\ d + Len(t) = Len(s) /\ \A i \in 1 .. Len(t) : t[i] = s[d + i]
                       /\ d # 0 => Len(t) = n
  BY LastFacts
<1>2. Len(s) \in Nat /\ Len(t) \in Nat  BY LastFacts, SeqFacts
<1>. HIDE DEF t
<1>3. PICK k \in 1 .. Len(s) : s[k] = w /\ \A i \in 1 .. Len(s) : k <= i => s[i] \in B
  BY DEF Young
<1>4. d < k
  <2>1. SUFFICES ASSUME k <= d PROVE FALSE  BY <1>1, <1>2, <1>3
  <2>2. Len(t) = n /\ Len(s) = d + n /\ k \in Nat  BY <1>1, <1>2, <1>3, <2>1
  <2>. DEFINE I == k .. Len(s)
              f == [i \in I |-> s[i]]
  <2>3. IsFiniteSet(I) /\ Cardinality(I) = Len(s) - k + 1  BY <1>2, <1>3, FS_Interval
  <2>4. f \in Injection(I, B)
    <3>1. \A i \in I : i \in 1 .. Len(s) /\ s[i] \in B  BY <1>2, <1>3, <2>2
    <3>2. \A i, j \in I : s[i] = s[j] => i = j  BY <3>1 DEF Distinct
    <3>. QED  BY <3>1, <3>2 DEF Injection, IsInjective
  <2>. HIDE DEF f
  <2>5. Cardinality(I) <= Cardinality(B) /\ Cardinality(B) \in Nat  BY <2>4, FS_Injection, FS_CardinalityType
  <2>. QED  BY <1>1, <1>2, <2>1, <2>2, <2>3, <2>5
<1>5. k - d \in 1 .. Len(t) /\ d + (k - d) = k  BY <1>1, <1>2, <1>3, <1>4
<1>6. t[k - d] = w  BY <1>1, <1>3, <1>5
<1>7. ASSUME NEW i \in 1 .. Len(t), k - d <= i PROVE t[i] \in B
  <2>1. d + i \in 1 .. Len(s) /\ k <= d + i  BY <1>1, <1>2, <1>3, <1>7
  <2>. QED  BY <1>1, <1>3, <2>1
<1>. QED  BY <1>5, <1>6, <1>7 DEF t, Young

-----------------------------------------------------------------------------
(* Whatever it does, a cache of the source holds no more than its limit. *)

Stored ==
  /\ source \in [Kinds -> Seq(AllWeights(model))]
  /\ \A k \in Kinds : Len(source[k]) <= policy.limit[k]

LEMMA KindKnown == ASSUME NEW m, NEW w PROVE Kind(m, w) \in Kinds
BY DEF Kind, Kinds

LEMMA LimitKnown == ASSUME Counters, NEW k \in Kinds PROVE policy.limit[k] \in Nat
<1>1. policy.limit \in [dense : Nat, packed : Nat]  BY PolicyKnown DEF Pooling
<1>. QED  BY <1>1 DEF Kinds

LEMMA TouchedFacts ==
  ASSUME NEW T, NEW s \in Seq(T), NEW S
  PROVE  /\ Touched(s, S) \in Seq(T) /\ Len(Touched(s, S)) = Len(s) /\ Range(Touched(s, S)) = Range(s)
         /\ Distinct(s) => Distinct(Touched(s, S))
<1>1. CASE policy.source # "lru"
  <2>1. Touched(s, S) = s  BY <1>1 DEF Touched
  <2>. QED  BY <2>1
<1>2. CASE policy.source = "lru"
  <2>. DEFINE rest == Chosen(s, Range(s) \ S)
              hits == Chosen(s, S)
  <2>1. Touched(s, S) = rest \o hits  BY <1>2 DEF Touched
  <2>2. /\ rest \in Seq(T) /\ Range(rest) = Range(s) \ S
        /\ hits \in Seq(T) /\ Range(hits) = Range(s) \cap S
        /\ Distinct(s) => Distinct(rest) /\ Distinct(hits)
    BY ChosenFacts
  <2>3. Len(rest) + Len(hits) = Len(s)
    <3>1. \A i \in 1 .. Len(s) : s[i] \in Range(s) \ S <=> s[i] \notin S
      BY SeqFacts
    <3>. QED  BY <3>1, ChosenParts
  <2>. HIDE DEF rest, hits
  <2>4. Len(rest \o hits) = Len(rest) + Len(hits) /\ rest \o hits \in Seq(T)  BY <2>2, ConcatFacts
  <2>5. Range(rest \o hits) = Range(rest) \cup Range(hits)  BY <2>2, RangeOfConcat
  <2>6. Range(rest \o hits) = Range(s)  BY <2>2, <2>5
  <2>7. ASSUME Distinct(s) PROVE Distinct(rest \o hits)
    <3>1. Range(rest) \cap Range(hits) = {}  BY <2>2
    <3>. QED  BY <2>2, <2>7, <3>1, RangeOfConcat
  <2>. QED  BY <2>1, <2>3, <2>4, <2>6, <2>7
<1>. QED  BY <1>1, <1>2

LEMMA AddedFacts ==
  ASSUME NEW T, NEW s \in Seq(T), NEW S, NEW t \in Seq(T), NEW n \in Nat
  PROVE  /\ Added(s, S, t, n) \in Seq(T) /\ Len(Added(s, S, t, n)) <= n
         /\ Range(Added(s, S, t, n)) \subseteq Range(s) \cup Range(t)
         /\ Distinct(s) /\ Distinct(t) /\ Range(s) \cap Range(t) = {} => Distinct(Added(s, S, t, n))
<1>. DEFINE u == Touched(s, S)
            v == u \o t
<1>1. u \in Seq(T) /\ Range(u) = Range(s) /\ (Distinct(s) => Distinct(u))  BY TouchedFacts
<1>2. Added(s, S, t, n) = LastOf(v, n)  BY DEF Added
<1>. HIDE DEF u
<1>3. v \in Seq(T) /\ Range(v) = Range(u) \cup Range(t)  BY <1>1, ConcatFacts, RangeOfConcat
<1>4. Distinct(s) /\ Distinct(t) /\ Range(s) \cap Range(t) = {} => Distinct(v)
  BY <1>1, RangeOfConcat
<1>. HIDE DEF v
<1>5. /\ LastOf(v, n) \in Seq(T) /\ Len(LastOf(v, n)) <= n /\ Range(LastOf(v, n)) \subseteq Range(v)
      /\ Distinct(v) => Distinct(LastOf(v, n))
  BY <1>3, LastFacts
<1>. QED  BY <1>1, <1>2, <1>3, <1>4, <1>5

LEMMA NewFacts ==
  ASSUME Counters, NEW p \in DOMAIN Manifest[model], NEW k
  PROVE  /\ New(p, k) \in Seq(AllWeights(model)) /\ Distinct(New(p, k))
         /\ Range(New(p, k)) = OfKind(model, Tensors(model, p), k) \ Range(source[k])
         /\ Tensors(model, p) = {w \in AllWeights(model) : w[1] = p}
<1>. DEFINE all == Manifest[model][p]
            gone == OfKind(model, Tensors(model, p), k) \ Range(source[k])
<1>1. model \in Model  BY DEF Counters
<1>2. /\ Enumerates(all, {w \in AllWeights(model) : w[1] = p})
      /\ Tensors(model, p) = {w \in AllWeights(model) : w[1] = p}
  BY <1>1, ManifestFacts
<1>3. all \in Seq(AllWeights(model)) /\ Distinct(all) /\ Range(all) = Tensors(model, p)
  <2>1. all \in Seq({w \in AllWeights(model) : w[1] = p})  BY <1>2 DEF Enumerates
  <2>2. {w \in AllWeights(model) : w[1] = p} \subseteq AllWeights(model)  OBVIOUS
  <2>. HIDE DEF all
  <2>3. all \in Seq(AllWeights(model))  BY <2>1, <2>2
  <2>. QED  BY <1>2, <2>3 DEF Enumerates
<1>4. New(p, k) = Chosen(all, gone) /\ gone \subseteq Tensors(model, p)  BY DEF New, OfKind
<1>. HIDE DEF all, gone
<1>5. /\ Chosen(all, gone) \in Seq(AllWeights(model)) /\ Range(Chosen(all, gone)) = Range(all) \cap gone
      /\ Distinct(Chosen(all, gone))
  BY <1>3, ChosenFacts
<1>6. Range(New(p, k)) = gone  BY <1>3, <1>4, <1>5
<1>. QED  BY <1>2, <1>4, <1>5, <1>6 DEF gone

(* What a preload brings in of one kind.                                   *)
Fetched(p, k, lost) == Chosen(New(p, k), Tensors(model, p) \ lost)

LEMMA PreloadedFacts ==
  ASSUME Counters, source \in [Kinds -> Seq(AllWeights(model))], NEW p \in DOMAIN Manifest[model], NEW lost
  PROVE  /\ Preloaded(p, lost) \in [Kinds -> Seq(AllWeights(model))]
         /\ \A k \in Kinds :
              /\ Preloaded(p, lost)[k] = Added(source[k], OfKind(model, Tensors(model, p), k),
                                               Fetched(p, k, lost), policy.limit[k])
              /\ Fetched(p, k, lost) \in Seq(AllWeights(model)) /\ Distinct(Fetched(p, k, lost))
              /\ Range(Fetched(p, k, lost)) =
                   (OfKind(model, Tensors(model, p), k) \ Range(source[k])) \cap (Tensors(model, p) \ lost)
              /\ Len(Preloaded(p, lost)[k]) <= policy.limit[k]
              /\ Distinct(source[k]) => Distinct(Preloaded(p, lost)[k])
<1>. DEFINE A(k) == Added(source[k], OfKind(model, Tensors(model, p), k), Fetched(p, k, lost), policy.limit[k])
<1>1. Preloaded(p, lost) = [k \in Kinds |-> A(k)]  BY DEF Preloaded, Fetched
<1>2. ASSUME NEW k \in Kinds
      PROVE  /\ Fetched(p, k, lost) \in Seq(AllWeights(model)) /\ Distinct(Fetched(p, k, lost))
             /\ Range(Fetched(p, k, lost)) =
                  (OfKind(model, Tensors(model, p), k) \ Range(source[k])) \cap (Tensors(model, p) \ lost)
             /\ A(k) \in Seq(AllWeights(model)) /\ Len(A(k)) <= policy.limit[k]
             /\ Distinct(source[k]) => Distinct(A(k))
  <2>. DEFINE T == AllWeights(model)
              t == Fetched(p, k, lost)
              fine == Tensors(model, p) \ lost
              new == New(p, k)
              gone == OfKind(model, Tensors(model, p), k) \ Range(source[k])
  <2>1. new \in Seq(T) /\ Distinct(new) /\ Range(new) = gone
    BY NewFacts
  <2>2. t = Chosen(new, fine)  BY DEF Fetched
  <2>. HIDE DEF t, fine, new, gone
  <2>3. t \in Seq(T) /\ Distinct(t) /\ Range(t) = gone \cap fine
    BY <2>1, <2>2, ChosenFacts
  <2>4. source[k] \in Seq(T) /\ policy.limit[k] \in Nat  BY LimitKnown
  <2>5. Range(source[k]) \cap Range(t) = {}  BY <2>3 DEF gone
  <2>6. LET a == Added(source[k], OfKind(model, Tensors(model, p), k), t, policy.limit[k])
        IN a \in Seq(T) /\ Len(a) <= policy.limit[k] /\ (Distinct(source[k]) => Distinct(a))
    BY <2>3, <2>4, <2>5, AddedFacts
  <2>. QED  BY <2>3, <2>6 DEF t, fine, gone
<1>. HIDE DEF A
<1>3. \A k \in Kinds : Preloaded(p, lost)[k] = A(k)  BY <1>1
<1>4. Preloaded(p, lost) \in [Kinds -> Seq(AllWeights(model))]  BY <1>1, <1>2
<1>. QED  BY <1>2, <1>3, <1>4 DEF A

(* What of the tensors in S goes through the dense cache when they are     *)
(* read.                                                                   *)
ReadWhole(S) == {w \in S : Kind(model, w) = "dense" \/ IsPermuted(w)}

LEMMA AfterReadFacts ==
  ASSUME Counters, source \in [Kinds -> Seq(AllWeights(model))],
         NEW S \in SUBSET AllWeights(model)
  PROVE  /\ AfterRead(S) \in [Kinds -> Seq(AllWeights(model))]
         /\ AfterRead(S)["packed"] = source["packed"]
         /\ \E t \in Seq(AllWeights(model)) :
              /\ Distinct(t) /\ Range(t) = ReadWhole(S) \ Range(source["dense"])
              /\ AfterRead(S)["dense"] = Added(source["dense"], ReadWhole(S), t, policy.limit["dense"])
         /\ Len(AfterRead(S)["dense"]) <= policy.limit["dense"]
         /\ Distinct(source["dense"]) => Distinct(AfterRead(S)["dense"])
<1>. DEFINE T == AllWeights(model)
            d == source["dense"]
            new == ReadWhole(S) \ Range(d)
            t == Arrival(new)
            a == Added(d, ReadWhole(S), t, policy.limit["dense"])
<1>1. /\ d \in Seq(T) /\ policy.limit["dense"] \in Nat
      /\ new \subseteq T /\ IsFiniteSet(new)
  <2>1. "dense" \in Kinds  BY DEF Kinds
  <2>2. new \subseteq T  BY DEF ReadWhole
  <2>3. IsFiniteSet(T)  BY WeightsAreFinite DEF Counters
  <2>4. IsFiniteSet(new)
    <3>. HIDE DEF new, T
    <3>. QED  BY <2>2, <2>3, FS_Subset
  <2>. QED  BY <2>1, <2>2, <2>4, LimitKnown
<1>2. AfterRead(S) = [source EXCEPT !["dense"] = a]  BY DEF AfterRead, ReadWhole
<1>. HIDE DEF d, new, T
<1>3. Enumerates(t, new)  BY <1>1, ArrivalEnumerates
<1>. HIDE DEF t
<1>4. t \in Seq(T) /\ Distinct(t) /\ Range(t) = new  BY <1>1, <1>3 DEF Enumerates
<1>5. Range(d) \cap Range(t) = {}  BY <1>4 DEF new
<1>6. a \in Seq(T) /\ Len(a) <= policy.limit["dense"] /\ (Distinct(d) => Distinct(a))
  BY <1>1, <1>4, <1>5, AddedFacts
<1>. HIDE DEF a
<1>7. AfterRead(S)["dense"] = a /\ AfterRead(S)["packed"] = source["packed"]
  BY <1>2 DEF Kinds
<1>8. AfterRead(S) \in [Kinds -> Seq(T)]  BY <1>2, <1>6 DEF T
<1>. QED  BY <1>4, <1>6, <1>7, <1>8 DEF a, d, new, T

LEMMA ProgramKnown ==
  ASSUME Counters
  PROVE  /\ Len(Forward[model]) \in Nat /\ Program \in Shapes(model)
         /\ \A i \in 1 .. Len(Program) : Needs(Program[i]) \subseteq AllWeights(model)
         /\ \A i \in 1 .. Len(Program) :
              Program[i].op = "announce" => Program[i].prefix \in Layers(model)
<1>. DEFINE L == Len(Forward[model])
            k == ((calls - 1) % L) + 1
<1>1. L \in Nat \ {0} /\ model \in Model  BY ForwardAssumption DEF Counters
<1>2. k \in 1 .. L
  <2>1. calls - 1 \in Int  BY DEF Counters
  <2>. HIDE DEF L
  <2>. QED  BY <1>1, <2>1
<1>3. Program = Forward[model][k]  BY DEF Program
<1>. HIDE DEF k
<1>4. Program \in Shapes(model)  BY <1>2, <1>3 DEF Shapes
<1>5. ASSUME NEW i \in 1 .. Len(Program)
      PROVE  /\ Needs(Program[i]) \subseteq AllWeights(model)
             /\ Program[i].op = "announce" => Program[i].prefix \in Layers(model)
  <2>1. Needs(Program[i]) \subseteq WeightsOf(Program)  BY DEF WeightsOf
  <2>2. WeightsOf(Program) \subseteq AllWeights(model)  BY <1>2, <1>3 DEF AllWeights
  <2>3. Program[i].op = "announce" => Program[i].prefix \in {w[1] : w \in AllWeights(model)} \ {"#"}
    BY <1>1, <1>2, <1>3, WeightAssumption
  <2>4. DOMAIN Manifest[model] = {w[1] : w \in AllWeights(model)}  BY <1>1, ManifestFacts
  <2>. QED  BY <2>1, <2>2, <2>3, <2>4 DEF Layers
<1>. QED  BY <1>1, <1>4, <1>5

Reading == At("into") \/ At("write") \/ At("rewrite")

LEMMA AskedFacts ==
  ASSUME Counters, Reading PROVE Asked(Step.weights) \subseteq AllWeights(model)
<1>1. Step = Program[at] /\ at \in 1 .. Len(Program)
  BY DEF Step, Reading, At, Counters
<1>2. Step.weights = Needs(Program[at])  BY <1>1 DEF Reading, At, Needs
<1>3. Needs(Program[at]) \subseteq AllWeights(model)  BY <1>1, ProgramKnown
<1>. QED  BY <1>2, <1>3 DEF Asked, Missing

(* What a step makes of the source.                                        *)
LEMMA SourceNext ==
  ASSUME Counters, [Next]_vars
  PROVE  /\ model' = model
         /\ \/ source' = source
            \/ Reading /\ source' = AfterRead(Asked(Step.weights))
            \/ At("announce") /\ \E lost : source' = Preloaded(Step.prefix, lost)
<1>1. CASE Call  BY <1>1 DEF Call, weights
<1>2. CASE TakeBuffer  BY <1>2 DEF TakeBuffer, Advance, weights
<1>3. CASE WriteFromHost  BY <1>3 DEF WriteFromHost, Advance, weights
<1>4. CASE FixBuffer  BY <1>4 DEF FixBuffer, Advance, weights
<1>5. CASE RecordInto  BY <1>5 DEF RecordInto, HoldWeights, ReadWeights, Advance, Unread, Reject, Reading
<1>6. CASE Record  BY <1>6 DEF Record, HoldWeights, ReadWeights, Advance, Unread, Reject, Reading
<1>7. CASE RecordAgain  BY <1>7 DEF RecordAgain, HoldWeights, ReadWeights, Advance, Unread, Reject, Reading
<1>8. CASE NameTensor  BY <1>8 DEF NameTensor, Advance, weights
<1>9. CASE RecycleBuffer  BY <1>9 DEF RecycleBuffer, Advance, weights
<1>10. CASE Preload  BY <1>10 DEF Preload, Advance, Unread, Reject
<1>11. CASE Submit  BY <1>11 DEF Submit, Advance, weights
<1>12. CASE SubmitOne  BY <1>12 DEF SubmitOne, Advance, weights
<1>13. CASE Finish  BY <1>13 DEF Finish
<1>14. CASE RecordFails  BY <1>14 DEF RecordFails, ReadWeights, Reject, Reading
<1>15. CASE PreloadFails
  <2>1. At("announce") /\ model' = model  BY <1>15 DEF PreloadFails, Reject
  <2>2. \E lost : source' = Preloaded(Step.prefix, lost)  BY <1>15 DEF PreloadFails
  <2>. QED  BY <2>1, <2>2
<1>16. CASE SubmitFails  BY <1>16 DEF SubmitFails, Reject
<1>17. CASE ReleaseWeights  BY <1>17 DEF ReleaseWeights
<1>18. CASE Over  BY <1>18 DEF Over, vars, weights
<1>19. CASE UNCHANGED vars  BY <1>19 DEF vars, weights
<1>. QED  BY <1>1, <1>2, <1>3, <1>4, <1>5, <1>6, <1>7, <1>8, <1>9, <1>10, <1>11, <1>12, <1>13,
             <1>14, <1>15, <1>16, <1>17, <1>18, <1>19 DEF Next

LEMMA StoredNext == ASSUME Counters, Stored, [Next]_vars PROVE Stored'
<1>1. /\ model' = model
      /\ \/ source' = source
         \/ Reading /\ source' = AfterRead(Asked(Step.weights))
         \/ At("announce") /\ \E lost : source' = Preloaded(Step.prefix, lost)
  BY SourceNext
<1>2. policy' = policy /\ AllWeights(model)' = AllWeights(model)  BY <1>1 DEF policy
<1>. DEFINE Fine(src) == /\ src \in [Kinds -> Seq(AllWeights(model))]
                         /\ \A k \in Kinds : Len(src[k]) <= policy.limit[k]
<1>3. Fine(source')
  <2>1. CASE source' = source  BY <2>1 DEF Stored
  <2>2. ASSUME Reading, source' = AfterRead(Asked(Step.weights)) PROVE Fine(source')
    <3>1. Asked(Step.weights) \in SUBSET AllWeights(model)  BY <2>2, AskedFacts
    <3>2. /\ source' \in [Kinds -> Seq(AllWeights(model))] /\ source'["packed"] = source["packed"]
          /\ Len(source'["dense"]) <= policy.limit["dense"]
      BY <2>2, <3>1, AfterReadFacts DEF Stored
    <3>3. Len(source["packed"]) <= policy.limit["packed"]  BY DEF Stored, Kinds
    <3>. QED  BY <3>2, <3>3 DEF Kinds
  <2>3. ASSUME At("announce"), NEW lost, source' = Preloaded(Step.prefix, lost) PROVE Fine(source')
    <3>1. Step.prefix \in DOMAIN Manifest[model]
      BY <2>3, ProgramKnown DEF At, Step, Counters, Layers
    <3>. QED  BY <2>3, <3>1, PreloadedFacts DEF Stored
  <2>. QED  BY <1>1, <2>1, <2>2, <2>3
<1>. QED  BY <1>1, <1>2, <1>3 DEF Stored

(* The source that counts uses has been filled, each of its caches to its  *)
(* limit.                                                                  *)
LEMMA OpenedStored ==
  ASSUME Counters, source = Opened PROVE Stored /\ \A k \in Kinds : Distinct(source[k])
<1>. DEFINE all(k) == OfKind(model, {w \in AllWeights(model) : ~ IsMade(w)}, k)
            held(k) == IF policy.source = "lru" THEN LastOf(Arrival(all(k)), policy.limit[k]) ELSE <<>>
<1>1. source = [k \in Kinds |-> held(k)]  BY DEF Opened
<1>2. ASSUME NEW k \in Kinds
      PROVE  held(k) \in Seq(AllWeights(model)) /\ Len(held(k)) <= policy.limit[k] /\ Distinct(held(k))
  <2>1. all(k) \subseteq AllWeights(model)  BY DEF OfKind
  <2>2. IsFiniteSet(all(k))  BY <2>1, WeightsAreFinite, FS_Subset DEF Counters
  <2>3. policy.limit[k] \in Nat  BY LimitKnown
  <2>4. CASE policy.source = "lru"
    <3>. DEFINE t == Arrival(all(k))
    <3>1. held(k) = LastOf(t, policy.limit[k])  BY <2>4
    <3>2. Enumerates(t, all(k))  BY <2>2, ArrivalEnumerates
    <3>. HIDE DEF t, all, held
    <3>3. t \in Seq(AllWeights(model)) /\ Distinct(t)  BY <2>1, <3>2 DEF Enumerates
    <3>. QED  BY <2>3, <3>1, <3>3, LastFacts
  <2>5. CASE policy.source # "lru"
    <3>1. held(k) = <<>>  BY <2>5
    <3>2. <<>> \in Seq(AllWeights(model)) /\ Len(<<>>) = 0 /\ Distinct(<<>>)  BY DEF Distinct
    <3>. HIDE DEF held
    <3>. QED  BY <2>3, <3>1, <3>2
  <2>. QED  BY <2>4, <2>5
<1>. HIDE DEF held
<1>3. source \in [Kinds -> Seq(AllWeights(model))]  BY <1>1, <1>2
<1>4. \A k \in Kinds : source[k] = held(k)  BY <1>1
<1>. QED  BY <1>2, <1>3, <1>4 DEF Stored

(* A call is counted before it begins, and has no next step once it ends.  *)
Counted == calls <= MaxCalls /\ (status # "running" => at = 0)

LEMMA CountedNext == ASSUME Counters, Counted, [Next]_vars PROVE Counted'
<1>0. calls \in Nat /\ MaxCalls \in Nat  BY ForwardAssumption DEF Counters
<1>1. CASE Call
  <2>1. calls' = calls + 1 /\ calls < MaxCalls /\ status' = "running"  BY <1>1 DEF Call
  <2>. QED  BY <1>0, <2>1 DEF Counted
<1>2. CASE calls' = calls /\ status' = "running"  BY <1>2 DEF Counted
<1>3. CASE calls' = calls /\ at' = 0  BY <1>3 DEF Counted
<1>4. CASE UNCHANGED <<calls, at, status>>  BY <1>4 DEF Counted
<1>5. \/ Call
      \/ calls' = calls /\ status' = "running"
      \/ calls' = calls /\ at' = 0
      \/ UNCHANGED <<calls, at, status>>
  <2>1. Next => \/ Call
                \/ TakeBuffer \/ WriteFromHost \/ FixBuffer \/ NameTensor \/ RecycleBuffer \/ Submit \/ SubmitOne
                \/ RecordInto \/ Record \/ RecordAgain \/ Preload
                \/ Finish \/ RecordFails \/ PreloadFails \/ SubmitFails
                \/ ReleaseWeights \/ Over
    BY DEF Next
  <2>2. CASE TakeBuffer \/ WriteFromHost \/ FixBuffer \/ NameTensor \/ RecycleBuffer \/ Submit \/ SubmitOne
    <3>1. Advance /\ status = "running"
      BY <2>2 DEF TakeBuffer, WriteFromHost, FixBuffer, NameTensor, RecycleBuffer, Submit, SubmitOne, At
    <3>. QED  BY <3>1 DEF Advance
  <2>3. CASE RecordInto \/ Record \/ RecordAgain \/ Preload
    <3>1. status = "running" /\ (Advance \/ Unread)
      BY <2>3 DEF RecordInto, Record, RecordAgain, Preload, At
    <3>. QED  BY <3>1 DEF Advance, Unread, Reject
  <2>4. CASE Finish \/ RecordFails \/ PreloadFails \/ SubmitFails
    BY <2>4 DEF Finish, RecordFails, PreloadFails, SubmitFails, Reject
  <2>5. CASE ReleaseWeights \/ Over \/ UNCHANGED vars
    BY <2>5 DEF ReleaseWeights, Over, vars
  <2>. QED  BY <2>1, <2>2, <2>3, <2>4, <2>5
<1>. QED  BY <1>1, <1>2, <1>3, <1>4, <1>5

(* Whatever the calls and the faults, the state is well-formed: every      *)
(* buffer that is free, lent, waiting or named by a variable exists, no    *)
(* call goes past its program, and neither preload() nor a read leaves     *)
(* more tensors in a cache of the source than it may hold.                 *)
THEOREM WellFormed == Spec /\ []Follows => []TypeOK
<1>1. Init => Counted /\ Stored
  <2>. SUFFICES ASSUME Init PROVE Counted /\ Stored
    OBVIOUS
  <2>1. Counters  BY FInvInit DEF FInv
  <2>2. MaxCalls \in Nat  BY ForwardAssumption
  <2>3. Stored  BY <2>1, OpenedStored DEF Init
  <2>. QED  BY <2>2, <2>3 DEF Init, Counted
<1>2. FInv /\ Counted /\ Stored /\ [Next]_vars => Counted' /\ Stored'
  BY CountedNext, StoredNext DEF FInv
<1>3. FInv /\ Counted /\ Stored /\ Follows => TypeOK
  <2>. SUFFICES ASSUME FInv, Counted, Stored, Follows PROVE TypeOK
    OBVIOUS
  <2>1. Counters /\ Owned /\ Named  BY DEF FInv
  <2>2. Len(Program) \in Nat  BY <2>1, ProgramLength
  <2>3. at \in 0 .. Len(Program)  BY <2>1, <2>2 DEF Counters, Counted
  <2>4. calls \in 0 .. MaxCalls  BY <2>1, ForwardAssumption DEF Counters, Counted
  <2>5. pool.free \cup pool.lent \cup pool.quarantine \cup destroyed \subseteq DOMAIN size
    BY <2>1 DEF Owned
  <2>. QED  BY <2>1, <2>3, <2>4, <2>5 DEF TypeOK, Counters, Owned, Named, Stored
<1>. QED  BY <1>1, <1>2, <1>3, FInvAlways, PTL DEF Spec

-----------------------------------------------------------------------------
(* What a forward that asks for its weights as the source that counts uses *)
(* needs finds there: the layers it has begun to read, or announced, and   *)
(* not read to their end.                                                  *)

WellRead ==
  policy.source = "lru" /\ AnnouncesOnce(model) /\ ReadsAlike(model) /\ Fits(model)

(* The weights on the device under their own names.                        *)
OwnHeld == {w \in resident : ~ IsMade(w) /\ OwnName(w)}

Begun(p) == \E w \in resident : w[1] = p /\ OwnName(w)

Entered(p) == Begun(p) \/ (status = "running" /\ \E j \in AnnouncedAt(Program, p) : j < at)

Absent(p) == Tensors(model, p) \ resident

(* What is on the device is what some point of a forward has read, ...     *)
AtFront == \A program \in Shapes(model) : OwnHeld \in Fronts(program)

(* ... and at least what this call has.                                    *)
ReadSoFar ==
  status = "running" =>
    \A b \in 1 .. at - 1 : \A w \in Needs(Program[b]) : ~ IsMade(w) => w \in resident

(* w is dropped after all of its kind that is not of the layers read       *)
(* beside p.                                                               *)
Outlasts(src, p, w) ==
  Young(src[Kind(model, w)], w, OfKind(model, BesideTensors(model, p), Kind(model, w)))

(* So is what is still to be read of a layer.                              *)
Ready ==
  \A p \in Layers(model) : Entered(p) => \A w \in Absent(p) : Outlasts(source, p, w)

Apart(src) == \A k \in Kinds : Distinct(src[k])

Loading == Apart(source) /\ AtFront /\ ReadSoFar /\ Ready

LEMMA LayerFacts ==
  ASSUME Counters, NEW p \in Layers(model)
  PROVE  /\ p \in DOMAIN Manifest[model] /\ p # "#"
         /\ Tensors(model, p) = {w \in AllWeights(model) : w[1] = p} /\ Tensors(model, p) # {}
         /\ \A w \in Tensors(model, p) : ~ IsMade(w)
<1>1. model \in Model /\ p \in DOMAIN Manifest[model] /\ p # "#"  BY DEF Counters, Layers
<1>2. DOMAIN Manifest[model] = {w[1] : w \in AllWeights(model)} /\ Tensors(model, p) = {w \in AllWeights(model) : w[1] = p}
  BY <1>1, ManifestFacts
<1>3. Tensors(model, p) # {}  BY <1>1, <1>2
<1>4. \A w \in Tensors(model, p) : ~ IsMade(w)  BY <1>1, <1>2 DEF IsMade
<1>. QED  BY <1>1, <1>2, <1>3, <1>4

LEMMA BesideFacts ==
  ASSUME Counters, Fits(model), NEW p \in Layers(model)
  PROVE  /\ \A k \in Kinds :
              /\ IsFiniteSet(OfKind(model, BesideTensors(model, p), k))
              /\ Cardinality(OfKind(model, BesideTensors(model, p), k)) <= policy.limit[k]
         /\ \A q \in Beside(model, p) : Tensors(model, q) \subseteq BesideTensors(model, p)
<1>1. \A q \in Beside(model, p) : Tensors(model, q) \subseteq BesideTensors(model, p)  BY DEF BesideTensors
<1>2. BesideTensors(model, p) \subseteq AllWeights(model)
  <2>1. \A q \in Beside(model, p) : Tensors(model, q) \subseteq AllWeights(model)  BY LayerFacts DEF Beside
  <2>. QED  BY <2>1 DEF BesideTensors
<1>3. ASSUME NEW k \in Kinds PROVE IsFiniteSet(OfKind(model, BesideTensors(model, p), k))
  <2>1. OfKind(model, BesideTensors(model, p), k) \subseteq AllWeights(model)  BY <1>2 DEF OfKind
  <2>. QED  BY <2>1, WeightsAreFinite, FS_Subset DEF Counters
<1>4. \A k \in Kinds : Cardinality(OfKind(model, BesideTensors(model, p), k)) <= policy.limit[k]
  BY DEF Fits, policy
<1>. QED  BY <1>1, <1>3, <1>4

LEMMA ShapeLength == ASSUME Counters, NEW program \in Shapes(model) PROVE Len(program) \in Nat
BY ForwardAssumption DEF Counters, Shapes

(* A weight a step reads belongs to a layer that was announced before.     *)
LEMMA AnnouncedFirst ==
  ASSUME Counters, AnnouncesOnce(model), NEW program \in Shapes(model), NEW i \in 1 .. Len(program),
         NEW w \in Needs(program[i]), ~ IsMade(w)
  PROVE  /\ w[1] \in Layers(model) /\ w \in Tensors(model, w[1]) /\ i \in ReadAt(program, w[1])
         /\ \E j \in AnnouncedAt(program, w[1]) : j < i
<1>1. w \in AllWeights(model)
  <2>1. w \in WeightsOf(program)  BY DEF WeightsOf
  <2>. QED  BY <2>1 DEF AllWeights, Shapes
<1>2. w[1] \in Layers(model)
  <2>1. DOMAIN Manifest[model] = {u[1] : u \in AllWeights(model)}  BY ManifestFacts DEF Counters
  <2>. QED  BY <1>1, <2>1 DEF Layers, IsMade
<1>3. w \in Tensors(model, w[1])  BY <1>1, <1>2, LayerFacts
<1>4. i \in ReadAt(program, w[1])  BY DEF ReadAt
<1>5. \E j \in AnnouncedAt(program, w[1]) : j < i  BY <1>2, <1>4 DEF AnnouncesOnce
<1>. QED  BY <1>2, <1>3, <1>4, <1>5

LEMMA TakenFacts ==
  ASSUME NEW program, NEW i \in Nat, NEW w
  PROVE  w \in TakenBefore(program, i) <=>
           ~ IsMade(w) /\ OwnName(w) /\ \E b \in 1 .. i - 1 : w \in Needs(program[b])
BY DEF TakenBefore

LEMMA TakenGrows ==
  ASSUME NEW program, NEW i \in Nat, NEW j \in Nat, i <= j
  PROVE  TakenBefore(program, i) \subseteq TakenBefore(program, j)
<1>1. 1 .. i - 1 \subseteq 1 .. j - 1  OBVIOUS
<1>. QED  BY <1>1 DEF TakenBefore

(* What this call has read is on the device.                               *)
LEMMA TakenIsHeld ==
  ASSUME Counters, status = "running", ReadSoFar PROVE TakenBefore(Program, at) \subseteq resident
BY TakenFacts DEF Counters, ReadSoFar

(* A layer that is entered and not all on the device was announced when    *)
(* nothing was read that is not on the device now, and is still to be      *)
(* read.                                                                   *)
LEMMA EnteredAt ==
  ASSUME Counters, WellRead, Loading, status = "running", NEW p \in Layers(model), Entered(p),
         NEW w \in Absent(p)
  PROVE  /\ \E j \in AnnouncedAt(Program, p) : TakenBefore(Program, j) \subseteq resident
         /\ \E i \in ReadAt(Program, p) : at <= i
<1>0. /\ at \in 1 .. Len(Program) /\ at \in Nat /\ Program \in Shapes(model) /\ Len(Program) \in Nat
      /\ AnnouncesOnce(model)
  BY ProgramKnown, ShapeLength DEF Counters, WellRead
<1>1. \E j \in AnnouncedAt(Program, p) : TakenBefore(Program, j) \subseteq resident
  <2>1. CASE \E j \in AnnouncedAt(Program, p) : j < at
    <3>1. PICK j \in AnnouncedAt(Program, p) : j < at  BY <2>1
    <3>2. j \in Nat  BY DEF AnnouncedAt
    <3>3. TakenBefore(Program, j) \subseteq TakenBefore(Program, at)  BY <1>0, <3>1, <3>2, TakenGrows
    <3>. QED  BY <3>1, <3>3, TakenIsHeld DEF Loading
  <2>2. CASE Begun(p)
    <3>1. PICK u \in resident : u[1] = p /\ OwnName(u)  BY <2>2 DEF Begun
    <3>2. ~ IsMade(u)  BY <3>1, LayerFacts DEF IsMade
    <3>3. PICK n \in 1 .. Len(Program) + 1 : OwnHeld = TakenBefore(Program, n)
      BY <1>0 DEF Loading, AtFront, Fronts
    <3>4. n \in Nat /\ u \in TakenBefore(Program, n)  BY <3>1, <3>2, <3>3 DEF OwnHeld
    <3>5. PICK b \in 1 .. n - 1 : u \in Needs(Program[b])  BY <3>4, TakenFacts
    <3>6. b \in 1 .. Len(Program) /\ b < n  BY <1>0, <3>4
    <3>7. PICK j \in AnnouncedAt(Program, p) : j < b  BY <1>0, <3>1, <3>2, <3>5, <3>6, AnnouncedFirst
    <3>8. j \in Nat /\ j <= n  BY <3>4, <3>6, <3>7 DEF AnnouncedAt
    <3>9. TakenBefore(Program, j) \subseteq OwnHeld  BY <3>3, <3>4, <3>8, TakenGrows
    <3>. QED  BY <3>9 DEF OwnHeld
  <2>. QED  BY <2>1, <2>2 DEF Entered
<1>2. \E i \in ReadAt(Program, p) : at <= i
  <2>1. w \in Tensors(model, p) /\ w \notin resident /\ ~ IsMade(w)  BY LayerFacts DEF Absent
  <2>2. PICK i \in ReadAt(Program, p) : w \in Needs(Program[i])  BY <1>0, <1>1, <2>1 DEF AnnouncesOnce
  <2>3. i \in 1 .. Len(Program)  BY DEF ReadAt
  <2>4. i \notin 1 .. at - 1  BY <2>1, <2>2 DEF Loading, ReadSoFar
  <2>. QED  BY <1>0, <2>3, <2>4
<1>. QED  BY <1>1, <1>2

(* The layer that is announced, or read from the source, is beside it.     *)
LEMMA BesideNow ==
  ASSUME Counters, WellRead, Loading, status = "running", NEW p \in Layers(model), Entered(p),
         NEW w \in Absent(p), NEW q \in Layers(model), NEW j \in AnnouncedAt(Program, q), j <= at,
         {u \in Tensors(model, q) : OwnName(u)} \subseteq resident => {u \in Tensors(model, q) : OwnName(u)} = {}
  PROVE  q \in Beside(model, p)
<1>0. at \in Nat /\ Program \in Shapes(model) /\ ReadsAlike(model) /\ j \in Nat
  BY ProgramKnown DEF Counters, WellRead, AnnouncedAt
<1>1. PICK k \in AnnouncedAt(Program, p) : TakenBefore(Program, k) \subseteq resident  BY EnteredAt
<1>2. PICK i \in ReadAt(Program, p) : at <= i  BY EnteredAt
<1>3. j < i
  <2>1. i \in Nat /\ Needs(Program[i]) # {}  BY DEF ReadAt
  <2>2. Needs(Program[j]) = {}  BY DEF AnnouncedAt, Needs
  <2>. QED  BY <1>0, <1>2, <2>1, <2>2
<1>4. ~ Past(model, q, p)
  <2>. DEFINE own == {u \in Tensors(model, q) : OwnName(u)}
  <2>1. SUFFICES ASSUME own # {}, NEW program \in Shapes(model), NEW b \in AnnouncedAt(program, p),
                        own \subseteq TakenBefore(program, b)
                 PROVE  FALSE
    BY DEF Past
  <2>2. TakenBefore(program, b) = TakenBefore(Program, k)  BY <1>0, <1>1 DEF ReadsAlike
  <2>. QED  BY <1>1, <2>1, <2>2
<1>. QED  BY <1>0, <1>3, <1>4 DEF Beside

(* A layer is beside itself.                                               *)
LEMMA BesideItself ==
  ASSUME Counters, WellRead, NEW q \in Layers(model), NEW j \in AnnouncedAt(Program, q)
  PROVE  q \in Beside(model, q)
<1>0. Program \in Shapes(model) /\ AnnouncesOnce(model) /\ j \in Nat
  BY ProgramKnown DEF WellRead, AnnouncedAt
<1>1. PICK w \in Tensors(model, q) : TRUE  BY LayerFacts
<1>2. PICK i \in ReadAt(Program, q) : w \in Needs(Program[i])  BY <1>0 DEF AnnouncesOnce
<1>3. j < i  BY <1>0, <1>2 DEF AnnouncesOnce
<1>4. ~ Past(model, q, q)
  <2>1. SUFFICES ASSUME NEW u \in Tensors(model, q), NEW program \in Shapes(model),
                        NEW b \in AnnouncedAt(program, q), u \in TakenBefore(program, b)
                 PROVE  FALSE
    BY DEF Past
  <2>2. b \in 1 .. Len(program) /\ Len(program) \in Nat /\ b \in Nat  BY ShapeLength DEF AnnouncedAt
  <2>3. PICK c \in 1 .. b - 1 : u \in Needs(program[c])  BY <2>1, <2>2, TakenFacts
  <2>4. u[1] = q  BY LayerFacts
  <2>5. c \in ReadAt(program, q) /\ c < b /\ c \in Nat  BY <2>2, <2>3, <2>4 DEF ReadAt
  <2>6. PICK a \in AnnouncedAt(program, q) : a < c  BY <1>0, <2>5 DEF AnnouncesOnce
  <2>7. a = b  BY <1>0 DEF AnnouncesOnce
  <2>8. a \in Nat  BY DEF AnnouncedAt
  <2>. QED  BY <2>2, <2>5, <2>6, <2>7, <2>8
<1>. QED  BY <1>0, <1>2, <1>3, <1>4 DEF Beside

(* A use keeps young what is, and moves to the end what it is of.          *)
LEMMA YoungTouched ==
  ASSUME NEW T, NEW s \in Seq(T), policy.source = "lru", NEW S, NEW B, Range(s) \cap S \subseteq B,
         NEW w, Young(s, w, B) \/ w \in Range(s) \cap S
  PROVE  Young(Touched(s, S), w, B)
<1>. DEFINE rest == Chosen(s, Range(s) \ S)
            hits == Chosen(s, S)
<1>1. Touched(s, S) = rest \o hits  BY DEF Touched
<1>2. rest \in Seq(T) /\ hits \in Seq(T) /\ Range(hits) = Range(s) \cap S  BY ChosenFacts
<1>3. CASE w \in S
  <2>1. w \in Range(hits)  BY <1>2, <1>3, YoungIsHeld
  <2>. HIDE DEF rest, hits
  <2>. QED  BY <1>1, <1>2, <2>1, YoungAfter
<1>4. CASE w \notin S
  <2>1. Young(s, w, B)  BY <1>4
  <2>2. w \in Range(s) \ S  BY <1>4, <2>1, YoungIsHeld
  <2>3. Young(rest, w, B)  BY <2>1, <2>2, YoungChosen
  <2>. HIDE DEF rest, hits
  <2>. QED  BY <1>1, <1>2, <2>3, YoungBefore
<1>. QED  BY <1>3, <1>4

(* What arrives keeps young what is, as long as there is room for all that *)
(* can be, and is young itself.                                            *)
LEMMA YoungAdded ==
  ASSUME NEW T, NEW s \in Seq(T), Distinct(s), policy.source = "lru", NEW S,
         NEW t \in Seq(T), Distinct(t), Range(s) \cap Range(t) = {},
         NEW B, IsFiniteSet(B), NEW n \in Nat, Cardinality(B) <= n,
         Range(s) \cap S \subseteq B, Range(t) \subseteq B,
         NEW w, Young(s, w, B) \/ w \in Range(s) \cap S \/ w \in Range(t)
  PROVE  Young(Added(s, S, t, n), w, B)
<1>. DEFINE u == Touched(s, S)
            v == u \o t
<1>1. u \in Seq(T) /\ Range(u) = Range(s) /\ Distinct(u)  BY TouchedFacts
<1>2. Young(s, w, B) \/ w \in Range(s) \cap S => Young(u, w, B)  BY YoungTouched
<1>3. Added(s, S, t, n) = LastOf(v, n)  BY DEF Added
<1>. HIDE DEF u
<1>4. Young(v, w, B)
  <2>1. CASE Young(u, w, B)  BY <1>1, <2>1, YoungBefore
  <2>2. CASE ~ Young(u, w, B)
    <3>1. w \in Range(t)  BY <1>2, <2>2
    <3>. QED  BY <1>1, <3>1, YoungAfter
  <2>. QED  BY <2>1, <2>2
<1>5. v \in Seq(T) /\ Distinct(v)  BY <1>1, ConcatFacts, RangeOfConcat
<1>. HIDE DEF v
<1>. QED  BY <1>3, <1>4, <1>5, YoungLast

(* A preload keeps fresh what is, as long as its layer is beside p, and    *)
(* brings in the layer it was asked for.                                   *)
LEMMA OutlastsPreload ==
  ASSUME Counters, Stored, policy.source = "lru", Apart(source), Fits(model), NEW p \in Layers(model),
         NEW q \in DOMAIN Manifest[model], Tensors(model, q) \subseteq BesideTensors(model, p), NEW lost,
         NEW w, Outlasts(source, p, w) \/ w \in Tensors(model, q) \ lost
  PROVE  Outlasts(Preloaded(q, lost), p, w)
<1>. DEFINE k == Kind(model, w)
            T == AllWeights(model)
            B == OfKind(model, BesideTensors(model, p), k)
            S == OfKind(model, Tensors(model, q), k)
            t == Fetched(q, k, lost)
            old == source[k]
<1>0. k \in Kinds  BY KindKnown
<1>. HIDE DEF k
<1>1. /\ Preloaded(q, lost)[k] = Added(old, S, t, policy.limit[k])
      /\ t \in Seq(T) /\ Distinct(t) /\ Range(t) = (S \ Range(old)) \cap (Tensors(model, q) \ lost)
  <2>1. source \in [Kinds -> Seq(AllWeights(model))]  BY DEF Stored
  <2>2. /\ Preloaded(q, lost)[k] = Added(source[k], OfKind(model, Tensors(model, q), k),
                                         Fetched(q, k, lost), policy.limit[k])
        /\ Fetched(q, k, lost) \in Seq(AllWeights(model)) /\ Distinct(Fetched(q, k, lost))
        /\ Range(Fetched(q, k, lost)) =
             (OfKind(model, Tensors(model, q), k) \ Range(source[k])) \cap (Tensors(model, q) \ lost)
    BY <1>0, <2>1, PreloadedFacts
  <2>. QED  BY <2>2
<1>2. IsFiniteSet(B) /\ Cardinality(B) <= policy.limit[k]  BY <1>0, BesideFacts
<1>3. S \subseteq B  BY DEF OfKind
<1>4. old \in Seq(T) /\ Distinct(old) /\ policy.limit[k] \in Nat
  BY <1>0, LimitKnown DEF Stored, Apart
<1>5. Young(old, w, B) \/ w \in Range(old) \cap S \/ w \in Range(t)
  <2>1. CASE Outlasts(source, p, w)  BY <2>1 DEF Outlasts, k
  <2>2. CASE w \in Tensors(model, q) \ lost
    <3>1. w \in S  BY <2>2 DEF OfKind, k
    <3>. QED  BY <1>1, <2>2, <3>1
  <2>. QED  BY <2>1, <2>2
<1>. HIDE DEF B, S, t, T, old
<1>6. Young(Added(old, S, t, policy.limit[k]), w, B)
  <2>1. Range(old) \cap Range(t) = {} /\ Range(t) \subseteq B /\ Range(old) \cap S \subseteq B  BY <1>1, <1>3
  <2>. QED  BY <1>1, <1>2, <1>4, <1>5, <2>1, YoungAdded
<1>. QED  BY <1>1, <1>6 DEF Outlasts, B, k

-----------------------------------------------------------------------------
(* The steps of a call *)

LEMMA StepKnown ==
  ASSUME Counters, status = "running"
  PROVE  /\ at \in 1 .. Len(Program) /\ at \in Nat /\ Step = Program[at] /\ Program \in Shapes(model)
         /\ Len(Program) \in Nat
         /\ Reading => Step.weights = Needs(Program[at])
         /\ ~ Reading => Needs(Program[at]) = {}
         /\ At("announce") => Step.prefix \in Layers(model) /\ at \in AnnouncedAt(Program, Step.prefix)
<1>1. at \in 1 .. Len(Program) /\ at \in Nat /\ Program \in Shapes(model) /\ Len(Program) \in Nat
  BY ProgramKnown, ShapeLength DEF Counters
<1>2. Step = Program[at]  BY DEF Step
<1>3. Reading => Step.weights = Needs(Program[at])  BY <1>2 DEF Reading, At, Needs
<1>4. ~ Reading => Needs(Program[at]) = {}  BY <1>2 DEF Reading, At, Needs
<1>5. At("announce") => Step.prefix \in Layers(model) /\ at \in AnnouncedAt(Program, Step.prefix)
  BY <1>1, <1>2, ProgramKnown DEF At, AnnouncedAt
<1>. QED  BY <1>1, <1>2, <1>3, <1>4, <1>5

(* What a dispatch still needs is of a layer that this call has announced. *)
LEMMA MissingFacts ==
  ASSUME Counters, WellRead, Loading, Reading, NEW v \in Missing(Step.weights)
  PROVE  /\ v[1] \in Layers(model) /\ v \in Absent(v[1]) /\ Entered(v[1])
         /\ \E j \in AnnouncedAt(Program, v[1]) : j < at
<1>0. status = "running" /\ AnnouncesOnce(model)  BY DEF Reading, At, WellRead
<1>1. v \in Needs(Program[at]) /\ v \notin resident /\ ~ IsMade(v)  BY <1>0, StepKnown DEF Missing
<1>2. /\ v[1] \in Layers(model) /\ v \in Tensors(model, v[1])
      /\ \E j \in AnnouncedAt(Program, v[1]) : j < at
  BY <1>0, <1>1, StepKnown, AnnouncedFirst
<1>. QED  BY <1>0, <1>1, <1>2 DEF Absent, Entered

(* What it asks the source for is in the cache of its kind.                *)
LEMMA EveryReadIsServed ==
  ASSUME Counters, Stored, WellRead, Loading, Reading
  PROVE  /\ CanRead(Step.weights)
         /\ \A v \in Asked(Step.weights) : v \in Range(source[Kind(model, v)])
<1>1. ASSUME NEW v \in Asked(Step.weights) PROVE v \in Range(source[Kind(model, v)])
  <2>1. v[1] \in Layers(model) /\ v \in Absent(v[1]) /\ Entered(v[1])  BY MissingFacts DEF Asked
  <2>2. Outlasts(source, v[1], v)  BY <2>1 DEF Loading, Ready
  <2>3. source[Kind(model, v)] \in Seq(AllWeights(model))  BY KindKnown DEF Stored
  <2>. QED  BY <2>2, <2>3, YoungIsHeld DEF Outlasts
<1>. QED  BY <1>1 DEF CanRead

LEMMA OutlastsRead ==
  ASSUME Counters, Stored, WellRead, Loading, Reading, NEW p \in Layers(model), Entered(p),
         NEW w \in Absent(p)
  PROVE  Outlasts(AfterRead(Asked(Step.weights)), p, w)
<1>. DEFINE B(k) == OfKind(model, BesideTensors(model, p), k)
            S == Asked(Step.weights)
<1>0. status = "running" /\ AnnouncesOnce(model) /\ Fits(model) /\ policy.source = "lru"
  BY DEF Reading, At, WellRead
<1>1. ASSUME NEW v \in S PROVE v \in BesideTensors(model, p)
  <2>. DEFINE q == v[1]
  <2>0. v \in Missing(Step.weights)  BY DEF Asked
  <2>1. q \in Layers(model) /\ v \in Absent(q)  BY <2>0, MissingFacts
  <2>2. PICK j \in AnnouncedAt(Program, q) : j < at  BY <2>0, MissingFacts
  <2>3. v \in Tensors(model, q) /\ v \notin resident  BY <2>1 DEF Absent
  <2>. HIDE DEF q
  <2>4. {u \in Tensors(model, q) : OwnName(u)} \subseteq resident => {u \in Tensors(model, q) : OwnName(u)} = {}
    <3>1. \A u \in Tensors(model, q) : OwnName(u) <=> OwnName(v)
      BY <1>0, <2>1, <2>3, StepKnown DEF AnnouncesOnce
    <3>. QED  BY <2>3, <3>1
  <2>5. j <= at  BY <1>0, <2>2, StepKnown DEF AnnouncedAt
  <2>6. q \in Beside(model, p)  BY <1>0, <2>1, <2>4, <2>5, BesideNow
  <2>. QED  BY <1>0, <2>3, <2>6, BesideFacts
<1>2. Outlasts(source, p, w)  BY DEF Loading, Ready
<1>3. S \in SUBSET AllWeights(model)  BY AskedFacts
<1>4. source \in [Kinds -> Seq(AllWeights(model))]  BY DEF Stored
<1>. HIDE DEF S
<1>5. CASE Kind(model, w) = "packed"
  <2>1. AfterRead(S)["packed"] = source["packed"]  BY <1>3, <1>4, AfterReadFacts
  <2>2. Outlasts(AfterRead(S), p, w)  BY <1>2, <1>5, <2>1 DEF Outlasts
  <2>. QED  BY <2>2 DEF S
<1>6. CASE Kind(model, w) = "dense"
  <2>. DEFINE d == source["dense"]
              R == ReadWhole(S)
              n == policy.limit["dense"]
              T == AllWeights(model)
              D == B("dense")
  <2>1. PICK t \in Seq(T) : /\ Distinct(t) /\ Range(t) = R \ Range(d)
                            /\ AfterRead(S)["dense"] = Added(d, R, t, n)
    BY <1>3, <1>4, AfterReadFacts
  <2>2. \A v \in R : v \in S /\ Kind(model, v) = "dense"
    <3>1. policy.permutes = {}  BY <1>0 DEF Fits, policy
    <3>. QED  BY <3>1 DEF ReadWhole, IsPermuted
  <2>3. R \subseteq D  BY <1>1, <2>2 DEF OfKind
  <2>4. "dense" \in Kinds  BY DEF Kinds
  <2>5. IsFiniteSet(D) /\ Cardinality(D) <= n  BY <1>0, <2>4, BesideFacts
  <2>6. d \in Seq(T) /\ Distinct(d) /\ n \in Nat  BY <1>4, <2>4, LimitKnown DEF Loading, Apart
  <2>7. Young(d, w, D)  BY <1>2, <1>6 DEF Outlasts
  <2>. HIDE DEF d, R, n, T, D
  <2>8. Range(d) \cap Range(t) = {} /\ Range(t) \subseteq D /\ Range(d) \cap R \subseteq D  BY <2>1, <2>3
  <2>9. Young(Added(d, R, t, n), w, D)  BY <1>0, <2>1, <2>5, <2>6, <2>7, <2>8, YoungAdded
  <2>10. Young(AfterRead(S)["dense"], w, D)  BY <2>1, <2>9
  <2>. QED  BY <1>6, <2>10 DEF Outlasts, D, S
<1>. QED  BY <1>5, <1>6, KindKnown DEF Kinds

(* What the dispatch reads takes the device to the next point of a forward.*)
LEMMA FrontAfterRead ==
  ASSUME Counters, WellRead, Loading, Reading, model' = model, resident' = resident \cup Step.weights
  PROVE  AtFront'
<1>. DEFINE own == {w \in resident' : ~ IsMade(w) /\ OwnName(w)}
<1>0. status = "running" /\ ReadsAlike(model)  BY DEF Reading, At, WellRead
<1>1. /\ at \in 1 .. Len(Program) /\ at \in Nat /\ Program \in Shapes(model) /\ Len(Program) \in Nat
      /\ Step.weights = Needs(Program[at])
  BY <1>0, StepKnown
<1>2. PICK n \in 1 .. Len(Program) + 1 : OwnHeld = TakenBefore(Program, n)
  BY <1>1 DEF Loading, AtFront, Fronts
<1>3. own = OwnHeld \cup {w \in Needs(Program[at]) : ~ IsMade(w) /\ OwnName(w)}
  BY <1>1 DEF OwnHeld
<1>4. TakenBefore(Program, at + 1) = TakenBefore(Program, at) \cup {w \in Needs(Program[at]) : ~ IsMade(w) /\ OwnName(w)}
  <2>1. 1 .. (at + 1) - 1 = (1 .. at - 1) \cup {at}  BY <1>1
  <2>. QED  BY <2>1 DEF TakenBefore
<1>5. TakenBefore(Program, at) \subseteq OwnHeld
  <2>1. TakenBefore(Program, at) \subseteq resident  BY <1>0, TakenIsHeld DEF Loading
  <2>2. \A w \in TakenBefore(Program, at) : ~ IsMade(w) /\ OwnName(w)  BY DEF TakenBefore
  <2>. QED  BY <2>1, <2>2 DEF OwnHeld
<1>6. own \in Fronts(Program)
  <2>1. n \in Nat  BY <1>1
  <2>2. CASE n <= at
    <3>1. OwnHeld = TakenBefore(Program, at)  BY <1>1, <1>2, <1>5, <2>1, <2>2, TakenGrows
    <3>2. own = TakenBefore(Program, at + 1)  BY <1>3, <1>4, <3>1
    <3>3. at + 1 \in 1 .. Len(Program) + 1  BY <1>1
    <3>. QED  BY <3>2, <3>3 DEF Fronts
  <2>3. CASE at + 1 <= n
    <3>1. TakenBefore(Program, at + 1) \subseteq OwnHeld  BY <1>1, <1>2, <2>1, <2>3, TakenGrows
    <3>2. own = TakenBefore(Program, n)  BY <1>2, <1>3, <1>4, <3>1
    <3>. QED  BY <1>2, <3>2 DEF Fronts
  <2>. QED  BY <1>1, <2>1, <2>2, <2>3
<1>7. \A program \in Shapes(model) : own \in Fronts(program)
  BY <1>0, <1>1, <1>6 DEF ReadsAlike
<1>. HIDE DEF own
<1>8. OwnHeld' = own  BY DEF OwnHeld, own
<1>. QED  BY <1>7, <1>8 DEF AtFront

(* A preload keeps ready every other layer, and brings in its own.         *)
LEMMA ReadyAfterPreload ==
  ASSUME Counters, Stored, WellRead, Loading, At("announce"), ~ Skips(Step.prefix), NEW lost
  PROVE  /\ \A p \in Layers(model) : Entered(p) => \A w \in Absent(p) : Outlasts(Preloaded(Step.prefix, lost), p, w)
         /\ \A w \in Tensors(model, Step.prefix) \ lost : Outlasts(Preloaded(Step.prefix, lost), Step.prefix, w)
<1>. DEFINE q == Step.prefix
<1>0. status = "running" /\ Fits(model) /\ policy.source = "lru" /\ Apart(source)
  BY DEF At, WellRead, Loading
<1>1. q \in Layers(model) /\ at \in AnnouncedAt(Program, q) /\ at \in Nat  BY <1>0, StepKnown
<1>2. ~ Begun(q)  BY <1>0 DEF Skips, Begun
<1>. HIDE DEF q
<1>3. q \in DOMAIN Manifest[model]  BY <1>1 DEF Layers
<1>4. {u \in Tensors(model, q) : OwnName(u)} \subseteq resident => {u \in Tensors(model, q) : OwnName(u)} = {}
  <2>1. \A u \in Tensors(model, q) : u[1] = q  BY <1>1, LayerFacts
  <2>. QED  BY <1>2, <2>1 DEF Begun
<1>5. ASSUME NEW p \in Layers(model), Entered(p), NEW w \in Absent(p)
      PROVE  Outlasts(Preloaded(q, lost), p, w)
  <2>1. q \in Beside(model, p)  BY <1>0, <1>1, <1>4, <1>5, BesideNow
  <2>2. Tensors(model, q) \subseteq BesideTensors(model, p)  BY <1>0, <2>1, BesideFacts
  <2>3. Outlasts(source, p, w)  BY <1>5 DEF Loading, Ready
  <2>. QED  BY <1>0, <1>3, <2>2, <2>3, OutlastsPreload
<1>6. ASSUME NEW w \in Tensors(model, q) \ lost
      PROVE  Outlasts(Preloaded(q, lost), q, w)
  <2>1. q \in Beside(model, q)  BY <1>1, BesideItself
  <2>2. Tensors(model, q) \subseteq BesideTensors(model, q)  BY <1>0, <1>1, <2>1, BesideFacts
  <2>. QED  BY <1>0, <1>1, <1>3, <1>6, <2>2, OutlastsPreload
<1>. QED  BY <1>5, <1>6 DEF q

LEMMA EveryPreloadHolds ==
  ASSUME Counters, Stored, WellRead, Loading, At("announce"), ~ Skips(Step.prefix)
  PROVE  Holds(Preloaded(Step.prefix, {}), Step.prefix)
<1>. DEFINE src == Preloaded(Step.prefix, {})
<1>0. Step.prefix \in DOMAIN Manifest[model]  BY StepKnown DEF At, Layers
<1>1. src \in [Kinds -> Seq(AllWeights(model))]  BY <1>0, PreloadedFacts DEF Stored
<1>2. ASSUME NEW w \in Tensors(model, Step.prefix) PROVE \E k \in Kinds : w \in Range(src[k])
  <2>1. Outlasts(src, Step.prefix, w)  BY ReadyAfterPreload
  <2>. HIDE DEF src
  <2>2. src[Kind(model, w)] \in Seq(AllWeights(model)) /\ Kind(model, w) \in Kinds  BY <1>1, KindKnown
  <2>. QED  BY <2>1, <2>2, YoungIsHeld DEF Outlasts
<1>. HIDE DEF src
<1>3. Holds(src, Step.prefix)  BY <1>2 DEF Holds
<1>. QED  BY <1>3 DEF src

-----------------------------------------------------------------------------
(* The invariant of what is loaded, step by step *)

LEMMA EmptyFront ==
  ASSUME Counters, model' = model, resident' = {} PROVE AtFront'
<1>1. OwnHeld' = {}  BY DEF OwnHeld
<1>2. ASSUME NEW program \in Shapes(model) PROVE {} \in Fronts(program)
  <2>1. 1 \in 1 .. Len(program) + 1  BY ShapeLength
  <2>2. TakenBefore(program, 1) = {}
    <3>1. 1 .. 1 - 1 = {}  OBVIOUS
    <3>. QED  BY <3>1 DEF TakenBefore
  <2>. QED  BY <2>1, <2>2 DEF Fronts
<1>. QED  BY <1>1, <1>2 DEF AtFront

(* A call that stops.                                                      *)
LEMMA StopKeeps ==
  ASSUME model' = model, status' # "running", Apart(source'), AtFront',
         \A p \in Layers(model) : Begun(p)' => \A w \in Tensors(model, p) \ resident' :
           Outlasts(source', p, w)
  PROVE  Loading'
<1>1. ReadSoFar'  BY DEF ReadSoFar
<1>2. Layers(model') = Layers(model) /\ \A p : Entered(p)' <=> Begun(p)'  BY DEF Entered
<1>3. Ready'  BY <1>2 DEF Ready, Absent, Outlasts
<1>. QED  BY <1>1, <1>3 DEF Loading

LEMMA StopAsItIs ==
  ASSUME Loading, UNCHANGED <<model, source, resident>>, status' # "running" PROVE Loading'
<1>1. AtFront'  BY DEF Loading, AtFront, OwnHeld
<1>2. \A p : Begun(p)' <=> Begun(p)  BY DEF Begun
<1>3. \A p \in Layers(model) : Begun(p)' => \A w \in Tensors(model, p) \ resident' :
        Outlasts(source', p, w)
  BY <1>2 DEF Loading, Ready, Entered, Absent, Outlasts
<1>. QED  BY <1>1, <1>3, StopKeeps DEF Loading, Apart

LEMMA StopEmptied ==
  ASSUME Counters, model' = model, Apart(source'), resident' = {}, status' # "running" PROVE Loading'
<1>1. \A p : ~ Begun(p)'  BY DEF Begun
<1>. QED  BY <1>1, EmptyFront, StopKeeps

(* A call that goes on.                                                    *)
LEMMA GoOnKeeps ==
  ASSUME Counters, status = "running", Loading, Advance, Apart(source'), AtFront',
         resident \subseteq resident', \A w \in Needs(Program[at]) : ~ IsMade(w) => w \in resident',
         \A p \in Layers(model) : Begun(p)' \/ Entered(p) \/ at \in AnnouncedAt(Program, p) =>
           \A w \in Tensors(model, p) \ resident' : Outlasts(source', p, w)
  PROVE  Loading'
<1>1. /\ model' = model /\ calls' = calls /\ status' = "running" /\ at' = at + 1
      /\ Program' = Program /\ at \in Nat
  BY DEF Advance, Program, Counters
<1>2. ReadSoFar'
  <2>1. ASSUME NEW b \in 1 .. at' - 1, NEW w \in Needs(Program[b]), ~ IsMade(w) PROVE w \in resident'
    <3>1. CASE b = at  BY <2>1, <3>1
    <3>2. CASE b # at
      <4>1. b \in 1 .. at - 1  BY <1>1, <3>2
      <4>. QED  BY <2>1, <4>1 DEF Loading, ReadSoFar
    <3>. QED  BY <3>1, <3>2
  <2>. QED  BY <1>1, <2>1 DEF ReadSoFar
<1>3. ASSUME NEW p, Entered(p)' PROVE Begun(p)' \/ Entered(p) \/ at \in AnnouncedAt(Program, p)
  <2>1. Begun(p)' \/ \E j \in AnnouncedAt(Program, p) : j < at + 1  BY <1>1, <1>3 DEF Entered
  <2>2. ASSUME NEW j \in AnnouncedAt(Program, p), j < at + 1 PROVE Entered(p) \/ at \in AnnouncedAt(Program, p)
    <3>1. j = at \/ j < at  BY <1>1, <2>2 DEF AnnouncedAt
    <3>. QED  BY <3>1 DEF Entered
  <2>. QED  BY <2>1, <2>2
<1>4. Ready'
  <2>1. Layers(model') = Layers(model)  BY <1>1
  <2>. QED  BY <1>1, <1>3, <2>1 DEF Ready, Absent, Outlasts
<1>. QED  BY <1>2, <1>4 DEF Loading

(* A step that reads no weight and announces no layer.                     *)
LEMMA PassKeeps ==
  ASSUME Counters, Loading, status = "running", Advance, ~ Reading, ~ At("announce"),
         UNCHANGED <<source, resident>>
  PROVE  Loading'
<1>1. model' = model  BY DEF Advance
<1>2. AtFront'  BY <1>1 DEF Loading, AtFront, OwnHeld
<1>3. \A p : Begun(p)' <=> Begun(p)  BY DEF Begun
<1>4. \A p : at \notin AnnouncedAt(Program, p)  BY DEF At, Step, AnnouncedAt
<1>5. Needs(Program[at]) = {}  BY StepKnown
<1>6. ASSUME NEW p \in Layers(model), Begun(p)' \/ Entered(p) \/ at \in AnnouncedAt(Program, p)
      PROVE  \A w \in Tensors(model, p) \ resident' : Outlasts(source', p, w)
  <2>1. Entered(p)  BY <1>3, <1>4, <1>6 DEF Entered
  <2>. QED  BY <2>1 DEF Loading, Ready, Absent
<1>. QED  BY <1>2, <1>5, <1>6, GoOnKeeps DEF Loading

(* A layer a dispatch begins has been entered.                             *)
LEMMA ReadIsEntered ==
  ASSUME Counters, WellRead, Loading, Reading, resident' = resident \cup Step.weights,
         NEW p \in Layers(model), Begun(p)'
  PROVE  Entered(p)
<1>0. status = "running" /\ AnnouncesOnce(model)  BY DEF Reading, At, WellRead
<1>1. PICK w \in resident' : w[1] = p /\ OwnName(w)  BY DEF Begun
<1>2. CASE w \in resident  BY <1>1, <1>2 DEF Begun, Entered
<1>3. CASE w \in Step.weights
  <2>1. w \in Needs(Program[at]) /\ ~ IsMade(w)  BY <1>0, <1>1, <1>3, StepKnown, LayerFacts DEF IsMade
  <2>2. \E j \in AnnouncedAt(Program, p) : j < at  BY <1>0, <1>1, <2>1, StepKnown, AnnouncedFirst
  <2>. QED  BY <1>0, <2>2 DEF Entered
<1>. QED  BY <1>2, <1>3

LEMMA ApartAfterRead ==
  ASSUME Counters, Stored, Loading, Reading PROVE Apart(AfterRead(Asked(Step.weights)))
<1>. DEFINE src == AfterRead(Asked(Step.weights))
<1>1. Asked(Step.weights) \in SUBSET AllWeights(model) /\ source \in [Kinds -> Seq(AllWeights(model))]
  BY AskedFacts DEF Stored
<1>2. src["packed"] = source["packed"] /\ (Distinct(source["dense"]) => Distinct(src["dense"]))
  BY <1>1, AfterReadFacts
<1>. HIDE DEF src
<1>3. Distinct(source["dense"]) /\ Distinct(source["packed"])  BY DEF Loading, Apart, Kinds
<1>4. Apart(src)  BY <1>2, <1>3 DEF Apart, Kinds
<1>. QED  BY <1>4 DEF src

LEMMA ReadKeeps ==
  ASSUME Counters, Stored, WellRead, Loading, Reading, model' = model,
         resident' = resident \cup Step.weights, source' = AfterRead(Asked(Step.weights))
  PROVE  /\ Advance => Loading'
         /\ status' # "running" => Loading'
<1>0. status = "running" /\ policy.source = "lru"  BY DEF Reading, At, WellRead
<1>1. Apart(source')  BY ApartAfterRead
<1>2. AtFront'  BY FrontAfterRead
<1>3. ASSUME NEW p \in Layers(model), Begun(p)' \/ Entered(p)
      PROVE  \A w \in Tensors(model, p) \ resident' : Outlasts(source', p, w)
  <2>1. Entered(p)  BY <1>3, ReadIsEntered
  <2>. QED  BY <2>1, OutlastsRead DEF Absent
<1>4. ASSUME Advance PROVE Loading'
  <2>1. \A w \in Needs(Program[at]) : ~ IsMade(w) => w \in resident'  BY <1>0, StepKnown
  <2>2. \A p : at \notin AnnouncedAt(Program, p)  BY DEF Reading, At, Step, AnnouncedAt
  <2>. QED  BY <1>0, <1>1, <1>2, <1>3, <1>4, <2>1, <2>2, GoOnKeeps
<1>5. ASSUME status' # "running" PROVE Loading'
  BY <1>1, <1>2, <1>3, <1>5, StopKeeps
<1>. QED  BY <1>4, <1>5

LEMMA CallLoads == ASSUME Counters, Loading, Call PROVE Loading'
<1>1. model' = model /\ at' = 1 /\ source' = source /\ resident' = resident  BY DEF Call, weights
<1>2. AtFront'  BY <1>1 DEF Loading, AtFront, OwnHeld
<1>3. ReadSoFar'
  <2>1. 1 .. at' - 1 = {}  BY <1>1
  <2>. QED  BY <2>1 DEF ReadSoFar
<1>4. ASSUME NEW p, Entered(p)' PROVE Entered(p)
  <2>1. \A j \in AnnouncedAt(Program', p) : ~ (j < at')  BY <1>1 DEF AnnouncedAt
  <2>2. Begun(p)'  BY <1>4, <2>1 DEF Entered
  <2>. QED  BY <1>1, <2>2 DEF Begun, Entered
<1>5. Ready'
  <2>1. Layers(model') = Layers(model)  BY <1>1
  <2>. QED  BY <1>1, <1>4, <2>1 DEF Loading, Ready, Absent, Outlasts
<1>. QED  BY <1>1, <1>2, <1>3, <1>5 DEF Loading, Apart

LEMMA RejectLoads ==
  ASSUME Counters, Loading, Reject(resident), Apart(source'), source' = source PROVE Loading'
<1>1. model' = model /\ status' = "failed" /\ (resident' = resident \/ resident' = {})  BY DEF Reject
<1>. QED  BY <1>1, StopAsItIs, StopEmptied

LEMMA PreloadLoads ==
  ASSUME Counters, Stored, WellRead, Loading, Preload PROVE Loading' /\ status' = "running"
<1>. DEFINE q == Step.prefix
            held == IF Skips(q) THEN source ELSE Preloaded(q, {})
<1>0. /\ At("announce") /\ status = "running" /\ policy.source = "lru"
      /\ Apart(source) /\ source \in [Kinds -> Seq(AllWeights(model))]
  BY DEF Preload, At, WellRead, Loading, Stored
<1>1. q \in Layers(model) /\ at \in AnnouncedAt(Program, q)  BY <1>0, StepKnown
<1>2. Skips(q) <=> Begun(q)  BY <1>0 DEF Skips, Begun
<1>3. Skips(q) \/ Holds(held, q)  BY <1>0, EveryPreloadHolds
<1>4. source' = held /\ Advance /\ UNCHANGED resident
  <2>. HIDE DEF held
  <2>. QED  BY <1>3 DEF Preload, held
<1>5. model' = model /\ status' = "running"  BY <1>0, <1>4 DEF Advance
<1>6. AtFront'  BY <1>4, <1>5 DEF Loading, AtFront, OwnHeld
<1>7. Apart(source')
  <2>1. q \in DOMAIN Manifest[model]  BY <1>1 DEF Layers
  <2>2. Apart(Preloaded(q, {}))  BY <1>0, <2>1, PreloadedFacts DEF Apart
  <2>. QED  BY <1>0, <1>4, <2>2
<1>8. ~ Reading  BY <1>0 DEF Reading, At
<1>9. Needs(Program[at]) = {}  BY <1>0, <1>8, StepKnown
<1>10. ASSUME NEW p \in Layers(model), Begun(p)' \/ Entered(p) \/ at \in AnnouncedAt(Program, p)
       PROVE  \A w \in Tensors(model, p) \ resident' : Outlasts(source', p, w)
  <2>1. Entered(p) \/ p = q  BY <1>4, <1>10 DEF Begun, Entered, AnnouncedAt, Step
  <2>2. CASE Skips(q)
    <3>1. Entered(p)  BY <1>2, <2>1, <2>2 DEF Entered
    <3>. QED  BY <1>4, <2>2, <3>1 DEF Loading, Ready, Absent
  <2>3. CASE ~ Skips(q)
    <3>1. source' = Preloaded(q, {})  BY <1>4, <2>3
    <3>2. \A w \in Absent(p) : Outlasts(Preloaded(q, {}), p, w)
      <4>1. CASE Entered(p)  BY <1>0, <1>10, <2>3, <4>1, ReadyAfterPreload
      <4>2. CASE p = q  BY <1>0, <2>3, <4>2, ReadyAfterPreload DEF Absent
      <4>. QED  BY <2>1, <4>1, <4>2
    <3>. QED  BY <1>4, <3>1, <3>2 DEF Absent
  <2>. QED  BY <2>2, <2>3
<1>. HIDE DEF q, held
<1>11. Loading'  BY <1>0, <1>4, <1>6, <1>7, <1>9, <1>10, GoOnKeeps
<1>. QED  BY <1>5, <1>11

LEMMA PreloadFailsLoads == ASSUME Counters, Stored, WellRead, Loading, PreloadFails PROVE Loading'
<1>. DEFINE q == Step.prefix
<1>0. /\ At("announce") /\ ~ Skips(q) /\ Reject(resident) /\ status = "running" /\ policy.source = "lru"
      /\ Apart(source) /\ source \in [Kinds -> Seq(AllWeights(model))]
  BY DEF PreloadFails, At, WellRead, Loading, Stored
<1>1. PICK lost : source' = Preloaded(q, lost)  BY DEF PreloadFails
<1>2. model' = model /\ status' # "running" /\ (resident' = resident \/ resident' = {})  BY <1>0 DEF Reject
<1>3. Apart(source')
  <2>1. q \in DOMAIN Manifest[model]  BY <1>0, StepKnown DEF Layers
  <2>. QED  BY <1>0, <1>1, <2>1, PreloadedFacts DEF Apart
<1>4. CASE resident' = {}  BY <1>2, <1>3, <1>4, StopEmptied
<1>5. CASE resident' = resident
  <2>1. AtFront'  BY <1>2, <1>5 DEF Loading, AtFront, OwnHeld
  <2>2. ASSUME NEW p \in Layers(model), Begun(p)'
        PROVE  \A w \in Tensors(model, p) \ resident' : Outlasts(source', p, w)
    <3>1. Entered(p)  BY <1>5, <2>2 DEF Begun, Entered
    <3>. QED  BY <1>0, <1>1, <1>5, <3>1, ReadyAfterPreload DEF Absent
  <2>. QED  BY <1>2, <1>3, <2>1, <2>2, StopKeeps
<1>. QED  BY <1>2, <1>4, <1>5

LEMMA RecordFailsLoads == ASSUME Counters, Stored, WellRead, Loading, RecordFails PROVE Loading'
<1>0. Reading /\ status = "running" /\ policy.source = "lru"  BY DEF RecordFails, Reading, At, WellRead
<1>1. CASE Reject(resident) /\ source' = source  BY <1>1, RejectLoads DEF Loading
<1>2. CASE Reject(Uploaded) /\ ReadWeights
  <2>1. source' = AfterRead(Asked(Step.weights))  BY <1>2 DEF ReadWeights
  <2>2. /\ model' = model /\ status' # "running"
        /\ resident' = resident \cup Step.weights \/ resident' = {}
    BY <1>0, <1>2 DEF Reject, Uploaded
  <2>3. Apart(source')  BY <1>0, <2>1, ApartAfterRead
  <2>. QED  BY <1>0, <2>1, <2>2, <2>3, ReadKeeps, StopEmptied
<1>3. CASE Reject(resident) /\ ReadWeights
  <2>1. source' = AfterRead(Asked(Step.weights))  BY <1>3 DEF ReadWeights
  <2>2. model' = model /\ status' # "running" /\ (resident' = resident \/ resident' = {})
    BY <1>3 DEF Reject
  <2>3. Apart(source')  BY <1>0, <2>1, ApartAfterRead
  <2>4. CASE resident' = {}  BY <2>2, <2>3, <2>4, StopEmptied
  <2>5. CASE resident' = resident
    <3>1. AtFront'  BY <2>2, <2>5 DEF Loading, AtFront, OwnHeld
    <3>2. ASSUME NEW p \in Layers(model), Begun(p)'
          PROVE  \A w \in Tensors(model, p) \ resident' : Outlasts(source', p, w)
      <4>1. Entered(p)  BY <2>5, <3>2 DEF Begun, Entered
      <4>. QED  BY <1>0, <2>1, <2>5, <4>1, OutlastsRead DEF Absent
    <3>. QED  BY <2>2, <2>3, <3>1, <3>2, StopKeeps
  <2>. QED  BY <2>2, <2>4, <2>5
<1>. QED  BY <1>1, <1>2, <1>3 DEF RecordFails

(* No read and no preload of a forward that is well read fails.            *)
LEMMA ReadStepKeeps ==
  ASSUME Counters, Stored, WellRead, Loading, RecordInto \/ Record \/ RecordAgain
  PROVE  Loading' /\ status' = "running"
<1>1. Reading /\ status = "running" /\ policy.source = "lru"
  BY DEF RecordInto, Record, RecordAgain, Reading, At, WellRead
<1>2. CanRead(Step.weights)  BY <1>1, EveryReadIsServed
<1>3. HoldWeights /\ Advance  BY <1>2 DEF RecordInto, Record, RecordAgain
<1>4. /\ resident' = resident \cup Step.weights /\ source' = AfterRead(Asked(Step.weights))
      /\ model' = model /\ status' = "running"
  BY <1>1, <1>3 DEF HoldWeights, ReadWeights, Uploaded, Advance
<1>. QED  BY <1>1, <1>3, <1>4, ReadKeeps

LEMMA LoadingNext == ASSUME Counters, Stored, WellRead, Loading, [Next]_vars PROVE Loading'
<1>1. CASE Call  BY <1>1, CallLoads
<1>2. CASE TakeBuffer \/ WriteFromHost \/ FixBuffer \/ NameTensor \/ RecycleBuffer \/ Submit \/ SubmitOne
  <2>1. /\ status = "running" /\ Advance /\ UNCHANGED <<source, resident>>
        /\ At("take") \/ At("host") \/ At("fix") \/ At("name") \/ At("recycle") \/ At("flush") \/ At("await")
    BY <1>2 DEF TakeBuffer, WriteFromHost, FixBuffer, NameTensor, RecycleBuffer, Submit, SubmitOne, At, weights
  <2>2. ~ Reading /\ ~ At("announce")  BY <2>1 DEF Reading, At
  <2>. QED  BY <2>1, <2>2, PassKeeps
<1>3. CASE RecordInto \/ Record \/ RecordAgain  BY <1>3, ReadStepKeeps
<1>4. CASE Preload  BY <1>4, PreloadLoads
<1>5. CASE Finish
  <2>1. /\ model' = model /\ status' # "running" /\ source' = source
        /\ resident' = resident \/ resident' = {}
    BY <1>5 DEF Finish
  <2>2. Apart(source')  BY <2>1 DEF Loading
  <2>. QED  BY <2>1, <2>2, StopAsItIs, StopEmptied
<1>6. CASE RecordFails  BY <1>6, RecordFailsLoads
<1>7. CASE PreloadFails  BY <1>7, PreloadFailsLoads
<1>8. CASE SubmitFails  BY <1>8, RejectLoads DEF SubmitFails, Loading
<1>9. CASE ReleaseWeights
  <2>1. model' = model /\ status' # "running" /\ source' = source /\ resident' = {}
    BY <1>9 DEF ReleaseWeights
  <2>2. Apart(source')  BY <2>1 DEF Loading
  <2>. QED  BY <2>1, <2>2, StopEmptied
<1>10. CASE Over \/ UNCHANGED vars
  <2>1. UNCHANGED <<model, calls, at, status, resident, source>>  BY <1>10 DEF Over, vars, weights
  <2>. QED  BY <2>1 DEF Loading, Apart, AtFront, OwnHeld, ReadSoFar, Ready, Outlasts, Entered, Begun, Absent, Program
<1>. QED  BY <1>1, <1>2, <1>3, <1>4, <1>5, <1>6, <1>7, <1>8, <1>9, <1>10 DEF Next

-----------------------------------------------------------------------------
(* What the source promises a forward: nothing that was not in this call   *)
(* makes it fail.                                                          *)

(* The invariant: a model whose source counts uses finds there what it     *)
(* still has to read.                                                      *)
Served == policy.source = "lru" => Loading

LEMMA NoneUnread ==
  ASSUME Counters, Stored, Served, WellPreloaded(model), policy.source # "fifo",
         RecordInto \/ Record \/ RecordAgain \/ Preload
  PROVE  status' = "running"
<1>0. policy.source = "none" \/ policy.source = "lru"  BY PolicyKnown DEF Pooling
<1>1. CASE policy.source = "lru"
  <2>1. WellRead /\ Loading  BY <1>1 DEF WellPreloaded, WellRead, Served, policy
  <2>. QED  BY <2>1, ReadStepKeeps, PreloadLoads
<1>2. CASE policy.source = "none"
  <2>1. ~ Preload
    <3>1. SUFFICES ASSUME At("announce") PROVE FALSE  BY DEF Preload
    <3>2. at \in 1 .. Len(Program) /\ Program \in Shapes(model) /\ Program[at].op = "announce"
      BY <3>1, StepKnown DEF At
    <3>. QED  BY <1>2, <3>2 DEF WellPreloaded, policy
  <2>2. CanRead(Step.weights)  BY <1>2 DEF CanRead, Asked
  <2>3. status = "running" /\ Advance  BY <2>1, <2>2 DEF RecordInto, Record, RecordAgain, At
  <2>. QED  BY <2>3 DEF Advance
<1>. QED  BY <1>0, <1>1, <1>2

LEMMA FailsNext ==
  ASSUME Counters, Stored, Served, WellPreloaded(model), FailsOnlyWhenStruck, [Next]_vars
  PROVE  FailsOnlyWhenStruck'
<1>1. policy' = policy  BY SourceNext DEF policy
<1>2. SUFFICES ASSUME status' = "failed", policy.source # "fifo" PROVE struck'
  BY <1>1 DEF FailsOnlyWhenStruck
<1>3. CASE Call  BY <1>2, <1>3 DEF Call
<1>4. CASE TakeBuffer \/ WriteFromHost \/ FixBuffer \/ NameTensor \/ RecycleBuffer \/ Submit \/ SubmitOne
  <2>1. status' = "running"
    BY <1>4 DEF TakeBuffer, WriteFromHost, FixBuffer, NameTensor, RecycleBuffer, Submit, SubmitOne, At, Advance
  <2>. QED  BY <1>2, <2>1
<1>5. CASE RecordInto \/ Record \/ RecordAgain \/ Preload  BY <1>2, <1>5, NoneUnread
<1>6. CASE Finish  BY <1>2, <1>6 DEF Finish
<1>7. CASE RecordFails \/ PreloadFails \/ SubmitFails
  BY <1>7 DEF RecordFails, PreloadFails, SubmitFails, Strike
<1>8. CASE ReleaseWeights \/ Over \/ UNCHANGED vars
  <2>1. UNCHANGED <<status, struck>>  BY <1>8 DEF ReleaseWeights, Over, vars
  <2>. QED  BY <1>2, <2>1 DEF FailsOnlyWhenStruck
<1>. QED  BY <1>3, <1>4, <1>5, <1>6, <1>7, <1>8 DEF Next

LEMMA ServedNext ==
  ASSUME Counters, Stored, Served, WellPreloaded(model), [Next]_vars PROVE Served'
<1>1. policy' = policy  BY SourceNext DEF policy
<1>2. CASE policy.source = "lru"
  <2>1. WellRead /\ Loading  BY <1>2 DEF WellPreloaded, WellRead, Served, policy
  <2>2. Loading'  BY <2>1, LoadingNext
  <2>. QED  BY <2>2 DEF Served
<1>3. CASE policy.source # "lru"  BY <1>1, <1>3 DEF Served
<1>. QED  BY <1>2, <1>3

(* However many calls have failed, and wherever: a model that uploads its  *)
(* weights beforehand, or reads them through the source of zimage-web that *)
(* counts a hit of preload() and of get() as a use, rejects a call only    *)
(* because the device or the network failed during that call.  No weight   *)
(* it still has to read was dropped, although packedQ8() counts as none,   *)
(* as long as its forwards announce every layer once, read the layers in   *)
(* one order, and either cache of the source has room for what of its kind *)
(* is read between a layer's preload and its last read.                    *)
THEOREM FailuresAreFaults ==
  ASSUME \A m \in Model : WellPreloaded(m) PROVE Spec /\ []Follows => []FailsOnlyWhenStruck
<1>. DEFINE Inv == Stored /\ Served /\ FailsOnlyWhenStruck
<1>1. Init => Inv
  <2>. SUFFICES ASSUME Init PROVE Inv
    OBVIOUS
  <2>2. Counters  BY FInvInit DEF FInv
  <2>5. Stored /\ Apart(source)  BY <2>2, OpenedStored DEF Init, Apart
  <2>6. Loading
    <3>1. resident = {} /\ status = "idle"  BY DEF Init
    <3>2. \A p : ~ Entered(p)  BY <3>1 DEF Entered, Begun
    <3>3. AtFront
      <4>1. ASSUME NEW program \in Shapes(model) PROVE OwnHeld \in Fronts(program)
        <5>1. 1 \in 1 .. Len(program) + 1  BY <2>2, ShapeLength
        <5>2. TakenBefore(program, 1) = {} /\ OwnHeld = {}
          <6>1. 1 .. 1 - 1 = {}  OBVIOUS
          <6>. QED  BY <3>1, <6>1 DEF TakenBefore, OwnHeld
        <5>. QED  BY <5>1, <5>2 DEF Fronts
      <4>. QED  BY <4>1 DEF AtFront
    <3>. QED  BY <2>5, <3>1, <3>2, <3>3 DEF Loading, ReadSoFar, Ready
  <2>. QED  BY <2>5, <2>6 DEF Init, Served, FailsOnlyWhenStruck
<1>2. FInv /\ Inv /\ [Next]_vars => Inv'
  <2>1. FInv => Counters /\ WellPreloaded(model)  BY DEF FInv, Counters
  <2>. QED  BY <2>1, StoredNext, ServedNext, FailsNext
<1>. HIDE DEF Inv
<1>3. Inv => FailsOnlyWhenStruck  BY DEF Inv
<1>. QED  BY <1>1, <1>2, <1>3, FInvAlways, PTL DEF Spec
-----------------------------------------------------------------------------
(* The buffers a second call of the same program finds.  What a call holds *)
(* at a step depends on the program alone, and every buffer is of the      *)
(* class its request asked for, so that those an earlier call made do for  *)
(* a later one.                                                            *)

(* The program of a model that has one, and the class of a request of it.  *)
Only == Forward[model][1]

Needed(j) == Class(Only[j].n)

Takes(program, j) == program[j].op \in {"take", "into"}

(* A flush that submits something, and the buffers it keeps, by the steps  *)
(* that took them.                                                         *)
Flushes(program, i) ==
  program[i].op = "flush" /\ (Sketches(program)[i].open \/ program[i].back # {})

KeptBy(program, i, j) == \E x \in program[i].keep : Sketches(program)[i].env[x].made = j

(* The steps whose buffers are lent or in quarantine before step i.        *)
InUse(program, i) ==
  {j \in 1 .. i - 1 :
     /\ Takes(program, j)
     /\ \A k \in j + 1 .. i - 1 : Flushes(program, k) => KeptBy(program, k, j)}

(* f tells the buffer of each of them.                                     *)
Assigned(f) ==
  /\ \A j \in InUse(Only, at) :
       f[j] \in pool.lent \cup pool.quarantine /\ size[f[j]] = Needed(j)
  /\ \A j, k \in InUse(Only, at) : f[j] = f[k] => j = k
  /\ \A s \in pool.lent \cup pool.quarantine : \E j \in InUse(Only, at) : f[j] = s
  /\ \A x \in DOMAIN Env : Env[x].made # 0 =>
       Env[x].made \in InUse(Only, at) /\ f[Env[x].made] = tensor[x].slot

(* The pool has a buffer of its own for each of them, wherever it is.      *)
Room(i) ==
  \E g : /\ \A j \in InUse(Only, i) : g[j] \in DOMAIN size \ fixed /\ size[g[j]] = Needed(j)
         /\ \A j, k \in InUse(Only, i) : g[j] = g[k] => j = k

(* Step i has been gone through, in this call or in one before.            *)
Been(i) == calls >= 2 \/ status = "done" \/ i < at

Roomy == \A i \in 1 .. Len(Only) : Takes(Only, i) /\ Been(i) => Room(i + 1)

Fixes ==
  \A i \in 1 .. Len(Only) : Only[i].op = "fix" /\ Been(i) =>
    /\ Only[i].to \in DOMAIN tensor
    /\ tensor[Only[i].to].slot \in fixed /\ tensor[Only[i].to].n >= Only[i].n

Undisturbed ==
  policy.scope = "object" /\ Len(Forward[model]) = 1 /\ faults = 0 /\ destroyed = {}

PoolInv ==
  Undisturbed =>
    /\ status = "running" => \E f : Assigned(f)
    /\ status # "running" => pool.lent = {} /\ pool.quarantine = {}
    /\ Roomy /\ Fixes

Begins == (status = "idle" => calls = 0) /\ faults \in Nat /\ (struck => faults # 0)

LEMMA OnlyProgram ==
  ASSUME Counters, Len(Forward[model]) = 1 PROVE Program = Only /\ Len(Only) \in Nat
<1>1. ((calls - 1) % 1) + 1 = 1  BY DEF Counters
<1>2. Program = Only  BY <1>1 DEF Program, Only
<1>. QED  BY <1>2, ProgramLength

LEMMA NeededStays == ASSUME model' = model PROVE Only' = Only /\ \A j : Needed(j)' = Needed(j)
<1>1. Only' = Only /\ policy' = policy  BY DEF Only, policy
<1>. QED  BY <1>1 DEF Needed, Class

LEMMA InUseNext ==
  ASSUME NEW program, NEW i \in Nat \ {0}
  PROVE  /\ Takes(program, i) => InUse(program, i + 1) = InUse(program, i) \cup {i}
         /\ Flushes(program, i) => InUse(program, i + 1) = {j \in InUse(program, i) : KeptBy(program, i, j)}
         /\ ~ Takes(program, i) /\ ~ Flushes(program, i) => InUse(program, i + 1) = InUse(program, i)
         /\ InUse(program, i) \subseteq 1 .. i - 1
<1>1. ASSUME NEW j \in 1 .. i - 1
      PROVE  j \in InUse(program, i + 1) <=>
               j \in InUse(program, i) /\ (Flushes(program, i) => KeptBy(program, i, j))
  <2>1. j + 1 .. (i + 1) - 1 = (j + 1 .. i - 1) \cup {i} /\ j \in 1 .. (i + 1) - 1  OBVIOUS
  <2>. QED  BY <2>1 DEF InUse
<1>2. i \in InUse(program, i + 1) <=> Takes(program, i)
  <2>1. i + 1 .. (i + 1) - 1 = {} /\ i \in 1 .. (i + 1) - 1  OBVIOUS
  <2>. QED  BY <2>1 DEF InUse
<1>3. InUse(program, i + 1) \subseteq (1 .. i - 1) \cup {i}  BY DEF InUse
<1>4. InUse(program, i) \subseteq 1 .. i - 1  BY DEF InUse
<1>5. Takes(program, i) => ~ Flushes(program, i)  BY DEF Takes, Flushes
<1>. QED  BY <1>1, <1>2, <1>3, <1>4, <1>5

(* Where the next step is, for a model of one program.                     *)
LEMMA OnlyStep ==
  ASSUME FInv, Tracked, Len(Forward[model]) = 1, status = "running"
  PROVE  /\ Step = Only[at] /\ at \in 1 .. Len(Only) /\ at \in Nat \ {0} /\ Len(Only) \in Nat
         /\ sketch = Sketches(Only)[at] /\ Env = Sketches(Only)[at].env
<1>1. Counters  BY DEF FInv
<1>2. Program = Only /\ Len(Only) \in Nat  BY <1>1, OnlyProgram
<1>. QED  BY <1>1, <1>2 DEF Counters, Tracked, Env, Step

-----------------------------------------------------------------------------
(* What the buffers are, step by step *)

(* The buffers in use are the same, and so is what stands for them.        *)
LEMMA StillAssigned ==
  ASSUME NEW f, Assigned(f), model' = model, InUse(Only, at') = InUse(Only, at),
         pool'.lent \cup pool'.quarantine = pool.lent \cup pool.quarantine,
         \A s \in pool.lent \cup pool.quarantine : size'[s] = size[s],
         \A x \in DOMAIN Env' : Env'[x].made # 0 =>
           \E y \in DOMAIN Env : Env[y].made = Env'[x].made /\ tensor[y].slot = tensor'[x].slot
  PROVE  Assigned(f)'
<1>1. Only' = Only /\ \A j : Needed(j)' = Needed(j)  BY NeededStays
<1>2. InUse(Only, at)' = InUse(Only, at)  BY <1>1
<1>3. \A j \in InUse(Only, at) :
        f[j] \in pool'.lent \cup pool'.quarantine /\ size'[f[j]] = Needed(j)
  BY DEF Assigned
<1>4. \A s \in pool'.lent \cup pool'.quarantine : \E j \in InUse(Only, at) : f[j] = s
  BY DEF Assigned
<1>5. \A x \in DOMAIN Env' : Env'[x].made # 0 =>
        Env'[x].made \in InUse(Only, at) /\ f[Env'[x].made] = tensor'[x].slot
  BY DEF Assigned
<1>6. \A j, k \in InUse(Only, at) : f[j] = f[k] => j = k  BY DEF Assigned
<1>. QED  BY <1>1, <1>2, <1>3, <1>4, <1>5, <1>6 DEF Assigned

(* A buffer is taken.                                                      *)
LEMMA TakenAssigned ==
  ASSUME NEW f, Assigned(f), model' = model, NEW s,
         at \in Nat \ {0}, at' = at + 1, Takes(Only, at),
         s \notin pool.lent \cup pool.quarantine,
         pool'.lent = pool.lent \cup {s}, pool'.quarantine = pool.quarantine,
         \A t \in pool.lent \cup pool.quarantine : size'[t] = size[t], size'[s] = Needed(at),
         NEW to, DOMAIN Env' = DOMAIN Env \cup {to}, Env'[to].made = at, tensor'[to].slot = s,
         \A x \in DOMAIN Env : x # to => Env'[x] = Env[x] /\ tensor'[x] = tensor[x]
  PROVE  \E g : Assigned(g)'
<1>. DEFINE U == InUse(Only, at)
<1>1. Only' = Only /\ \A j : Needed(j)' = Needed(j)  BY NeededStays
<1>2. InUse(Only, at)' = U \cup {at} /\ at \notin U  BY <1>1, InUseNext
<1>3. PICK g : g[at] = s /\ \A j \in U : g[j] = f[j]
  <2>. DEFINE g == [j \in U \cup {at} |-> IF j = at THEN s ELSE f[j]]
  <2>1. g[at] = s /\ \A j \in U : g[j] = f[j]  BY <1>2
  <2>. HIDE DEF g, U
  <2>. QED  BY <2>1
<1>4. /\ \A j \in U : f[j] \in pool.lent \cup pool.quarantine /\ size[f[j]] = Needed(j)
      /\ \A j, k \in U : f[j] = f[k] => j = k
      /\ \A t \in pool.lent \cup pool.quarantine : \E j \in U : f[j] = t
      /\ \A x \in DOMAIN Env : Env[x].made # 0 => Env[x].made \in U /\ f[Env[x].made] = tensor[x].slot
  BY DEF Assigned
<1>. HIDE DEF U
<1>5. \A j \in U \cup {at} : g[j] \in pool'.lent \cup pool'.quarantine /\ size'[g[j]] = Needed(j)
  BY <1>3, <1>4
<1>6. \A j, k \in U \cup {at} : g[j] = g[k] => j = k  BY <1>3, <1>4
<1>7. \A t \in pool'.lent \cup pool'.quarantine : \E j \in U \cup {at} : g[j] = t  BY <1>3, <1>4
<1>8. \A x \in DOMAIN Env' : Env'[x].made # 0 =>
        Env'[x].made \in U \cup {at} /\ g[Env'[x].made] = tensor'[x].slot
  BY <1>3, <1>4
<1>9. Assigned(g)'  BY <1>1, <1>2, <1>5, <1>6, <1>7, <1>8 DEF Assigned
<1>. QED  BY <1>9

(* Something is submitted, and all but what is kept is given back.         *)
LEMMA KeptAssigned ==
  ASSUME NEW f, Assigned(f), model' = model, at \in Nat \ {0}, at' = at + 1, Flushes(Only, at),
         Env = Sketches(Only)[at].env, Step = Only[at], Step.keep \subseteq DOMAIN Env,
         \A x \in Step.keep : Env[x].made # 0,
         pool'.lent = {tensor[x].slot : x \in Step.keep}, pool'.quarantine = {}, size' = size,
         \A x \in DOMAIN Env' : Env'[x].made # 0 =>
           \E y \in Step.keep : Env[y].made = Env'[x].made /\ tensor[y].slot = tensor'[x].slot
  PROVE  Assigned(f)'
<1>1. Only' = Only /\ \A j : Needed(j)' = Needed(j)  BY NeededStays
<1>2. InUse(Only, at)' = {j \in InUse(Only, at) : KeptBy(Only, at, j)}  BY <1>1, InUseNext
<1>. DEFINE U == InUse(Only, at)
            V == {j \in U : KeptBy(Only, at, j)}
<1>3. /\ \A j \in U : f[j] \in pool.lent \cup pool.quarantine /\ size[f[j]] = Needed(j)
      /\ \A j, k \in U : f[j] = f[k] => j = k
      /\ \A x \in DOMAIN Env : Env[x].made # 0 => Env[x].made \in U /\ f[Env[x].made] = tensor[x].slot
  BY DEF Assigned
<1>4. \A j : KeptBy(Only, at, j) <=> \E x \in Step.keep : Env[x].made = j  BY DEF KeptBy
<1>5. \A x \in Step.keep : Env[x].made \in V /\ f[Env[x].made] = tensor[x].slot
  BY <1>3, <1>4
<1>6. \A j \in V : \E x \in Step.keep : Env[x].made = j  BY <1>4
<1>7. \A j \in V : j \in U  OBVIOUS
<1>. HIDE DEF U, V
<1>8. \A j \in V : f[j] \in pool'.lent \cup pool'.quarantine /\ size'[f[j]] = Needed(j)
  BY <1>3, <1>5, <1>6, <1>7
<1>9. \A t \in pool'.lent \cup pool'.quarantine : \E j \in V : f[j] = t  BY <1>5
<1>10. \A x \in DOMAIN Env' : Env'[x].made # 0 => Env'[x].made \in V /\ f[Env'[x].made] = tensor'[x].slot
  BY <1>5
<1>11. \A j, k \in V : f[j] = f[k] => j = k  BY <1>3, <1>7
<1>12. InUse(Only, at)' = V  BY <1>2 DEF U, V
<1>. QED  BY <1>1, <1>8, <1>9, <1>10, <1>11, <1>12 DEF Assigned

(* What is assigned has room, and room stays.                              *)
LEMMA AssignedHasRoom ==
  ASSUME NEW f, Assigned(f)', Owned', NEW i, i = at' PROVE Room(i)'
<1>1. pool'.lent \cup pool'.quarantine \subseteq DOMAIN size' \ fixed'  BY DEF Owned
<1>. QED  BY <1>1 DEF Assigned, Room

SlotsStay == \A s \in DOMAIN size \ fixed : s \in DOMAIN size' \ fixed' /\ size'[s] = size[s]

LEMMA RoomStays ==
  ASSUME NEW i, Room(i), model' = model, SlotsStay PROVE Room(i)'
<1>1. Only' = Only /\ \A j : Needed(j)' = Needed(j)  BY NeededStays
<1>2. InUse(Only, i)' = InUse(Only, i)  BY <1>1
<1>3. PICK g : /\ \A j \in InUse(Only, i) : g[j] \in DOMAIN size \ fixed /\ size[g[j]] = Needed(j)
               /\ \A j, k \in InUse(Only, i) : g[j] = g[k] => j = k
  BY DEF Room
<1>4. \A j \in InUse(Only, i) : g[j] \in DOMAIN size' \ fixed' /\ size'[g[j]] = Needed(j)  BY <1>3 DEF SlotsStay
<1>. QED  BY <1>1, <1>2, <1>3, <1>4 DEF Room

(* Whoever has been at this step before finds a buffer for it now.         *)
LEMMA OneIsFree ==
  ASSUME Owned, destroyed = {}, NEW f, Assigned(f), at \in Nat \ {0}, Takes(Only, at), Room(at + 1)
  PROVE  \E s \in pool.free : size[s] = Needed(at)
<1>. DEFINE c == Needed(at)
            J == {j \in InUse(Only, at) : Needed(j) = c}
            K == J \cup {at}
<1>0. InUse(Only, at + 1) = InUse(Only, at) \cup {at} /\ InUse(Only, at) \subseteq 1 .. at - 1
  BY InUseNext
<1>1. PICK g : /\ \A j \in InUse(Only, at) \cup {at} : g[j] \in DOMAIN size \ fixed /\ size[g[j]] = Needed(j)
               /\ \A j, k \in InUse(Only, at) \cup {at} : g[j] = g[k] => j = k
  BY <1>0 DEF Room
<1>2. SUFFICES ASSUME \A s \in pool.free : size[s] # c PROVE FALSE
  OBVIOUS
<1>3. \A j \in K : g[j] \in pool.lent \cup pool.quarantine /\ size[g[j]] = c
  <2>1. \A j \in K : g[j] \in DOMAIN size \ fixed /\ size[g[j]] = c  BY <1>1
  <2>. HIDE DEF K, c
  <2>. QED  BY <1>2, <2>1 DEF Owned
<1>4. \A j \in K : \E k \in J : f[k] = g[j]
  <2>1. \A s \in pool.lent \cup pool.quarantine : \E k \in InUse(Only, at) : f[k] = s  BY DEF Assigned
  <2>2. \A k \in InUse(Only, at) : size[f[k]] = Needed(k)  BY DEF Assigned
  <2>3. ASSUME NEW j \in K PROVE \E k \in J : f[k] = g[j]
    <3>1. g[j] \in pool.lent \cup pool.quarantine /\ size[g[j]] = c  BY <1>3
    <3>2. PICK k \in InUse(Only, at) : f[k] = g[j]  BY <2>1, <3>1
    <3>3. Needed(k) = c  BY <2>2, <3>1, <3>2
    <3>. QED  BY <3>2, <3>3
  <2>. QED  BY <2>3
<1>. DEFINE h == [j \in K |-> CHOOSE k \in J : f[k] = g[j]]
<1>5. \A j \in K : h[j] \in J /\ f[h[j]] = g[j]
  <2>. HIDE DEF K, J
  <2>. QED  BY <1>4
<1>6. \A j, k \in K : g[j] = g[k] => j = k  BY <1>1
<1>7. h \in Injection(K, J)
  <2>1. h \in [K -> J]
    <3>. HIDE DEF K, J
    <3>. QED  BY <1>5
  <2>. HIDE DEF h, K, J
  <2>2. \A j, k \in K : h[j] = h[k] => j = k  BY <1>5, <1>6
  <2>. QED  BY <2>1, <2>2 DEF Injection, IsInjective
<1>8. IsFiniteSet(J) /\ at \notin J
  <2>1. IsFiniteSet(1 .. at - 1) /\ J \subseteq 1 .. at - 1  BY <1>0, FS_Interval
  <2>2. at \notin 1 .. at - 1  OBVIOUS
  <2>. HIDE DEF J
  <2>. QED  BY <2>1, <2>2, FS_Subset
<1>. HIDE DEF h, J
<1>9. Cardinality(K) <= Cardinality(J)
  <2>. HIDE DEF K
  <2>. QED  BY <1>7, <1>8, FS_Injection
<1>10. Cardinality(K) = Cardinality(J) + 1 /\ Cardinality(J) \in Nat
  BY <1>8, FS_AddElement, FS_CardinalityType
<1>. QED  BY <1>9, <1>10


-----------------------------------------------------------------------------
(* What earlier steps left, step by step *)

FixesStay ==
  \A i \in 1 .. Len(Only) :
    Only[i].op = "fix" /\ Only[i].to \in DOMAIN tensor /\ tensor[Only[i].to].slot \in fixed =>
      /\ Only[i].to \in DOMAIN tensor' /\ tensor'[Only[i].to] = tensor[Only[i].to]
      /\ tensor'[Only[i].to].slot \in fixed'

(* A call goes on to its next step.                                        *)
LEMMA GoingOn ==
  ASSUME Counters, Owned', status = "running", Advance, Roomy, Fixes, SlotsStay, FixesStay,
         NEW f, Assigned(f)',
         at \in 1 .. Len(Only) /\ Only[at].op = "fix" =>
           /\ Only[at].to \in DOMAIN tensor'
           /\ tensor'[Only[at].to].slot \in fixed' /\ tensor'[Only[at].to].n >= Only[at].n
  PROVE  Roomy' /\ Fixes'
<1>1. /\ model' = model /\ calls' = calls /\ status' = "running" /\ at' = at + 1 /\ at \in Nat
  BY DEF Advance, Counters
<1>2. Only' = Only  BY <1>1, NeededStays
<1>3. \A i \in 1 .. Len(Only) : Been(i)' => Been(i) \/ i = at
  BY <1>1 DEF Been
<1>4. ASSUME NEW i \in 1 .. Len(Only), Takes(Only, i), Been(i)' PROVE Room(i + 1)'
  <2>1. CASE Been(i)
    <3>1. Room(i + 1)  BY <1>4, <2>1 DEF Roomy
    <3>. QED  BY <1>1, <3>1, RoomStays
  <2>2. CASE i = at
    <3>1. i + 1 = at'  BY <1>1, <2>2
    <3>. QED  BY <3>1, AssignedHasRoom
  <2>. QED  BY <1>3, <1>4, <2>1, <2>2
<1>5. ASSUME NEW i \in 1 .. Len(Only), Only[i].op = "fix", Been(i)'
      PROVE  /\ Only[i].to \in DOMAIN tensor'
             /\ tensor'[Only[i].to].slot \in fixed' /\ tensor'[Only[i].to].n >= Only[i].n
  <2>1. CASE Been(i)
    <3>1. /\ Only[i].to \in DOMAIN tensor
          /\ tensor[Only[i].to].slot \in fixed /\ tensor[Only[i].to].n >= Only[i].n
      BY <1>5, <2>1 DEF Fixes
    <3>2. /\ Only[i].to \in DOMAIN tensor' /\ tensor'[Only[i].to] = tensor[Only[i].to]
          /\ tensor'[Only[i].to].slot \in fixed'
      BY <1>5, <3>1 DEF FixesStay
    <3>. QED  BY <3>1, <3>2
  <2>2. CASE i = at  BY <1>5, <2>2
  <2>. QED  BY <1>3, <1>5, <2>1, <2>2
<1>6. Roomy'  BY <1>2, <1>4 DEF Roomy
<1>. QED  BY <1>2, <1>5, <1>6 DEF Fixes

(* Nothing but the step is new.                                            *)
LEMMA GoingOnAsItIs ==
  ASSUME Counters, Owned', status = "running", Advance, Roomy, Fixes,
         size' = size, fixed' = fixed, FixesStay, NEW f, Assigned(f)', Only[at].op # "fix"
  PROVE  Roomy' /\ Fixes'
BY GoingOn DEF SlotsStay

(* A request gets a buffer of its class.                                   *)
LEMMA SlotIsOfClass ==
  ASSUME Owned, policy.class # "best", NEW n, Lend(SlotFor(n), n)
  PROVE  /\ size'[SlotFor(n)] = Class(n)
         /\ \A t \in DOMAIN size : t \in DOMAIN size' /\ size'[t] = size[t]
<1>1. Len(size) \in Nat /\ DOMAIN size = 1 .. Len(size)  BY DEF Owned
<1>2. \A s \in Fitting(Class(n)) : s \in pool.free /\ size[s] = Class(n)
  BY DEF Fitting
<1>3. CASE Fitting(Class(n)) = {}
  <2>1. SlotFor(n) = Len(size) + 1  BY <1>3 DEF SlotFor
  <2>2. size' = Append(size, Class(n))
    <3>1. SlotFor(n) > Len(size)  BY <1>1, <2>1
    <3>. QED  BY <3>1 DEF Lend
  <2>3. /\ size'[Len(size) + 1] = Class(n)
        /\ \A t \in 1 .. Len(size) : t \in DOMAIN size' /\ size'[t] = size[t]
    BY <1>1, <2>2
  <2>. QED  BY <1>1, <2>1, <2>3
<1>4. CASE Fitting(Class(n)) # {}
  <2>1. SlotFor(n) \in Fitting(Class(n))
    <3>1. Fitting(Class(n)) \subseteq Nat  BY <1>2 DEF Owned
    <3>2. \E x \in Fitting(Class(n)) : \A y \in Fitting(Class(n)) : x <= y  BY <1>4, <3>1, LeastNatural
    <3>. QED  BY <1>4, <3>2 DEF SlotFor, Min
  <2>2. SlotFor(n) \in 1 .. Len(size)  BY <1>1, <1>2, <2>1 DEF Owned
  <2>3. size' = size
    <3>1. ~ (SlotFor(n) > Len(size))  BY <1>1, <2>2
    <3>. QED  BY <3>1 DEF Lend
  <2>. QED  BY <1>2, <2>1, <2>3
<1>. QED  BY <1>3, <1>4

(* What a model does that repeats.                                         *)
Repeating ==
  /\ policy.scope = "object" /\ Len(Forward[model]) = 1
  /\ policy.class # "best" /\ policy.source # "fifo"
  /\ \A i, j \in 1 .. Len(Only) :
       Only[i].op = "fix" /\ Only[j].op \in {"take", "into", "name"} => Only[i].to # Only[j].to

Steady == status = "running" /\ (\E f : Assigned(f)) /\ Roomy /\ Fixes

LEMMA TakeSteady ==
  ASSUME FInv, FInv', Follows, Tracked, Repeating, Steady, status' = "running",
         TakeBuffer \/ RecordInto
  PROVE  Steady'
<1>. DEFINE s == SlotFor(Step.n)
<1>1. /\ Counters /\ Owned /\ Owned' /\ Sketched /\ status = "running" /\ Step.op \in {"take", "into"}
  BY DEF FInv, TakeBuffer, RecordInto, At
<1>2. /\ Lend(s, Step.n) /\ device' = Grown(device, s) /\ tensor' = Bind(Step.to, Made(s, Step.n))
      /\ Advance /\ UNCHANGED <<fixed, destroyed>>
  <2>1. CASE TakeBuffer  BY <2>1 DEF TakeBuffer
  <2>2. CASE RecordInto  BY <2>2 DEF RecordInto, Unread, Reject
  <2>. QED  BY <2>1, <2>2
<1>3. /\ Step = Only[at] /\ at \in 1 .. Len(Only) /\ at \in Nat \ {0} /\ Env = Sketches(Only)[at].env
  BY <1>1, OnlyStep DEF Repeating
<1>4. Takes(Only, at) /\ Only[at].op # "fix"  BY <1>1, <1>3 DEF Takes
<1>5. /\ s \notin pool.lent \cup pool.quarantine /\ pool'.lent = pool.lent \cup {s}
      /\ pool'.quarantine = pool.quarantine
  BY <1>1, <1>2, Lending
<1>6. /\ size'[s] = Needed(at)
      /\ \A t \in DOMAIN size : t \in DOMAIN size' /\ size'[t] = size[t]
  BY <1>1, <1>2, <1>3, SlotIsOfClass DEF Needed, Repeating
<1>. HIDE DEF s
<1>7. \E part, written : Env' = Binding(Env, Step.to, Fresh(at, Step.n, part, written))
  BY <1>1, <1>2 DEF Advance, After, Env
<1>8. /\ DOMAIN Env' = DOMAIN Env \cup {Step.to} /\ Env'[Step.to].made = at
      /\ \A x \in DOMAIN Env : x # Step.to => Env'[x] = Env[x]
  BY <1>7 DEF Binding, Fresh
<1>9. /\ DOMAIN tensor' = DOMAIN tensor \cup {Step.to} /\ tensor'[Step.to].slot = s
      /\ \A x \in DOMAIN tensor : x # Step.to => tensor'[x] = tensor[x]
  BY <1>2 DEF Bind, Made
<1>10. \A x \in DOMAIN Env : x # Step.to => Env'[x] = Env[x] /\ tensor'[x] = tensor[x]
  BY <1>1, <1>8, <1>9 DEF Sketched
<1>11. \A t \in pool.lent \cup pool.quarantine : size'[t] = size[t]
  BY <1>1, <1>6 DEF Owned
<1>12. model' = model /\ at' = at + 1  BY <1>2 DEF Advance
<1>13. PICK f : Assigned(f)  BY DEF Steady
<1>14. PICK g : Assigned(g)'
  <2>. DEFINE to == Step.to
  <2>1. tensor'[to].slot = s /\ Env'[to].made = at /\ DOMAIN Env' = DOMAIN Env \cup {to}
    BY <1>8, <1>9
  <2>. QED  BY <1>3, <1>4, <1>5, <1>6, <1>10, <1>11, <1>12, <1>13, <2>1, TakenAssigned
<1>15. SlotsStay  BY <1>2, <1>6 DEF SlotsStay
<1>16. FixesStay
  <2>1. \A i \in 1 .. Len(Only) : Only[i].op = "fix" => Only[i].to # Step.to
    BY <1>1, <1>3 DEF Repeating
  <2>. QED  BY <1>2, <1>9, <2>1 DEF FixesStay
<1>17. Roomy' /\ Fixes'
  BY <1>1, <1>2, <1>4, <1>14, <1>15, <1>16, GoingOn DEF Steady
<1>. QED  BY <1>14, <1>17 DEF Steady

(* What changes no buffer's owner.                                         *)
LEMMA OwnerSteady ==
  ASSUME FInv, FInv', Tracked, Repeating, Steady, Advance,
         ~ Takes(Only, at), ~ Flushes(Only, at), Only[at].op # "fix",
         size' = size, fixed' = fixed, FixesStay,
         pool'.lent \cup pool'.quarantine = pool.lent \cup pool.quarantine,
         \A x \in DOMAIN Env' : Env'[x].made # 0 =>
           \E y \in DOMAIN Env : Env[y].made = Env'[x].made /\ tensor[y].slot = tensor'[x].slot
  PROVE  Steady'
<1>1. PICK f : Assigned(f)  BY DEF Steady
<1>2. at \in Nat \ {0} /\ Counters /\ Owned' /\ status = "running"
  BY OnlyStep DEF Steady, Repeating, FInv
<1>3. model' = model /\ at' = at + 1 /\ status' = "running"  BY <1>2 DEF Advance
<1>4. InUse(Only, at') = InUse(Only, at)  BY <1>2, <1>3, InUseNext
<1>5. Assigned(f)'  BY <1>1, <1>3, <1>4, StillAssigned
<1>6. Roomy' /\ Fixes'  BY <1>2, <1>5, GoingOnAsItIs DEF Steady
<1>. QED  BY <1>3, <1>5, <1>6 DEF Steady

LEMMA StepOf ==
  ASSUME FInv, Tracked, Repeating, Steady
  PROVE  /\ Counters /\ Owned /\ Named /\ Sketched /\ Recorded /\ status = "running"
         /\ Step = Only[at] /\ at \in 1 .. Len(Only) /\ at \in Nat \ {0}
         /\ sketch = Sketches(Only)[at] /\ Env = Sketches(Only)[at].env
         /\ (sketch.open <=> ops # <<>>)
BY OnlyStep DEF FInv, Steady, Repeating, Recorded

(* Elements are written.                                                   *)
LEMMA WroteSteady ==
  ASSUME FInv, FInv', Tracked, Repeating, Steady, Advance, Step.op \in {"host", "write"},
         UNCHANGED <<size, pool, fixed, tensor>>
  PROVE  Steady'
<1>1. /\ Counters /\ Sketched /\ Step = Only[at]  BY StepOf
<1>2. Env' = Wrote(Env, Step.to, Step.part)  BY DEF Advance, After, Env
<1>3. ASSUME NEW x \in DOMAIN Env' PROVE x \in DOMAIN Env /\ Env[x].made = Env'[x].made
  <2>1. x \in DOMAIN Env  BY <1>2, <1>3 DEF Wrote
  <2>2. Env[x] \in Known  BY <1>1, <2>1 DEF Sketched
  <2>3. Env'[x] = Env[x] \/ Env'[x] = WithPart(Env[x], Step.part)  BY <1>2, <2>1 DEF Wrote
  <2>. QED  BY <2>1, <2>2, <2>3 DEF WithPart, Known
<1>4. ~ Takes(Only, at) /\ ~ Flushes(Only, at) /\ Only[at].op # "fix"
  BY <1>1 DEF Takes, Flushes
<1>5. FixesStay  BY DEF FixesStay
<1>. QED  BY <1>3, <1>4, <1>5, OwnerSteady

LEMMA RewroteSteady ==
  ASSUME FInv, FInv', Follows, Tracked, Repeating, Steady, RecordAgain, status' = "running"
  PROVE  Steady'
<1>. DEFINE t == Again(tensor[Step.to], Step.n)
<1>1. /\ Counters /\ Owned /\ Named /\ Sketched /\ Step = Only[at] /\ status = "running" /\ Step.op = "rewrite"
  BY StepOf DEF RecordAgain, At
<1>2. /\ tensor' = Renewed(t) /\ Advance /\ UNCHANGED <<size, pool, fixed>>
  BY DEF RecordAgain, Unread, Reject
<1>3. Env' = Rewrote(Env, Step.to, Step.n, Step.part)  BY <1>1, <1>2 DEF Advance, After, Env
<1>4. IsPooled(Env, Step.to)  BY <1>1 DEF Follows, Allowed, Env
<1>5. Step.to \in DOMAIN tensor /\ tensor[Step.to] \in Tensor /\ tensor[Step.to].slot \in pool.lent
  BY <1>1, <1>4 DEF IsPooled, Sketched, Named, Agrees
<1>6. t.slot = tensor[Step.to].slot  BY <1>5 DEF Again, Tensor
<1>. HIDE DEF t
<1>7. /\ DOMAIN tensor' = DOMAIN tensor /\ \A x \in DOMAIN tensor : tensor'[x].slot = tensor[x].slot
      /\ \A x \in DOMAIN tensor : tensor[x].slot \in fixed => tensor'[x] = tensor[x]
  <2>1. t.slot \notin fixed  BY <1>1, <1>5, <1>6 DEF Owned
  <2>. QED  BY <1>2, <2>1 DEF Renewed
<1>8. ASSUME NEW x \in DOMAIN Env' PROVE x \in DOMAIN Env /\ Env[x].made = Env'[x].made
  <2>1. x \in DOMAIN Env  BY <1>3, <1>8 DEF Rewrote
  <2>2. Env[x] \in Known  BY <1>1, <2>1 DEF Sketched
  <2>3. Env'[x] = Env[x] \/ Env'[x] = Anew(Env[x], Step.n, Step.part)  BY <1>3, <2>1 DEF Rewrote
  <2>. QED  BY <2>1, <2>2, <2>3 DEF Anew, Known
<1>9. ~ Takes(Only, at) /\ ~ Flushes(Only, at) /\ Only[at].op # "fix"
  BY <1>1 DEF Takes, Flushes
<1>10. FixesStay  BY <1>2, <1>7 DEF FixesStay
<1>11. \A x \in DOMAIN Env' : tensor[x].slot = tensor'[x].slot
  BY <1>1, <1>7, <1>8 DEF Sketched
<1>. QED  BY <1>2, <1>8, <1>9, <1>10, <1>11, OwnerSteady

LEMMA NameSteady ==
  ASSUME FInv, FInv', Follows, Tracked, Repeating, Steady, NameTensor
  PROVE  Steady'
<1>1. /\ Counters /\ Sketched /\ Step = Only[at] /\ at \in 1 .. Len(Only) /\ status = "running" /\ Step.op = "name"
  BY StepOf DEF NameTensor, At
<1>2. /\ tensor' = Bind(Step.to, tensor[Step.from]) /\ Advance /\ UNCHANGED <<size, pool, fixed>>
  BY DEF NameTensor
<1>3. Env' = Binding(Env, Step.to, Env[Step.from])  BY <1>1, <1>2 DEF Advance, After, Env
<1>4. Step.from \in DOMAIN Env  BY <1>1 DEF Follows, Allowed, Env, IsPooled
<1>5. \A x \in DOMAIN Env' : \E y \in DOMAIN Env : Env[y] = Env'[x] /\ tensor[y] = tensor'[x]
  <2>1. DOMAIN Env \subseteq DOMAIN tensor  BY <1>1 DEF Sketched
  <2>. QED  BY <1>2, <1>3, <1>4, <2>1 DEF Bind, Binding
<1>6. ~ Takes(Only, at) /\ ~ Flushes(Only, at) /\ Only[at].op # "fix"
  BY <1>1 DEF Takes, Flushes
<1>7. FixesStay
  <2>1. \A i \in 1 .. Len(Only) : Only[i].op = "fix" => Only[i].to # Step.to
    BY <1>1 DEF Repeating
  <2>. QED  BY <1>2, <2>1 DEF FixesStay, Bind
<1>. QED  BY <1>2, <1>5, <1>6, <1>7, OwnerSteady

LEMMA RecycleSteady ==
  ASSUME FInv, FInv', Follows, Tracked, Repeating, Steady, RecycleBuffer
  PROVE  Steady'
<1>. DEFINE s == tensor[Step.x].slot
<1>1. /\ Counters /\ Owned /\ Sketched /\ Step = Only[at] /\ status = "running" /\ Step.op = "recycle"
  BY StepOf DEF RecycleBuffer, At
<1>2. /\ pool' = Recycled(s) /\ tensor' = Restrict(tensor, {x \in DOMAIN tensor : tensor[x].slot # s})
      /\ Advance /\ UNCHANGED <<size, fixed>>
  BY DEF RecycleBuffer
<1>3. Env' = Without(Env, Step.x)  BY <1>1, <1>2 DEF Advance, After, Env
<1>4. IsPooled(Env, Step.x)  BY <1>1 DEF Follows, Allowed, Env
<1>5. s \in pool.lent /\ s \notin fixed  BY <1>1, <1>4 DEF IsPooled, Sketched, Agrees, Owned
<1>6. /\ DOMAIN Env' = {x \in DOMAIN Env : Env[x].made # Env[Step.x].made}
      /\ \A x \in DOMAIN Env' : Env'[x] = Env[x]
  BY <1>3 DEF Without, Alike, Restrict
<1>7. \A x \in DOMAIN Env' : tensor[x].slot # s /\ x \in DOMAIN tensor
  BY <1>1, <1>4, <1>6 DEF Sketched, IsPooled
<1>. HIDE DEF s
<1>8. /\ DOMAIN tensor' = {x \in DOMAIN tensor : tensor[x].slot # s}
      /\ \A x \in DOMAIN tensor' : tensor'[x] = tensor[x]
  BY <1>2 DEF Restrict
<1>9. pool'.lent \cup pool'.quarantine = pool.lent \cup pool.quarantine
  <2>1. pool \in [free : SUBSET Nat, lent : SUBSET Nat, quarantine : SUBSET Nat]  BY <1>1 DEF Owned
  <2>. QED  BY <1>2, <1>5, <2>1 DEF Recycled
<1>10. ~ Takes(Only, at) /\ ~ Flushes(Only, at) /\ Only[at].op # "fix"
  BY <1>1 DEF Takes, Flushes
<1>11. FixesStay  BY <1>2, <1>5, <1>8 DEF FixesStay
<1>12. \A x \in DOMAIN Env' : x \in DOMAIN Env /\ Env[x].made = Env'[x].made /\ tensor[x].slot = tensor'[x].slot
  BY <1>6, <1>7, <1>8
<1>. QED  BY <1>2, <1>9, <1>10, <1>11, <1>12, OwnerSteady

(* The next step neither takes nor gives back anything.                    *)
LEMMA PassSteady ==
  ASSUME FInv, FInv', Tracked, Repeating, Steady, Advance, Env' = Env,
         Step.op \in {"announce", "await", "flush"}, Step.op = "flush" => ops = <<>> /\ Step.back = {},
         UNCHANGED <<size, pool, fixed, tensor>>
  PROVE  Steady'
<1>1. /\ Step = Only[at] /\ sketch = Sketches(Only)[at] /\ (sketch.open <=> ops # <<>>)  BY StepOf
<1>2. ~ Takes(Only, at) /\ ~ Flushes(Only, at) /\ Only[at].op # "fix"
  BY <1>1 DEF Takes, Flushes
<1>3. FixesStay  BY DEF FixesStay
<1>. QED  BY <1>2, <1>3, OwnerSteady

LEMMA PreloadSteady ==
  ASSUME FInv, FInv', Tracked, Repeating, Steady, Preload, status' = "running" PROVE Steady'
<1>1. Step.op = "announce"  BY DEF Preload, At
<1>2. Advance /\ UNCHANGED memory  BY DEF Preload, Unread, Reject
<1>3. Env' = Env  BY <1>1, <1>2 DEF Advance, After, Env
<1>. QED  BY <1>1, <1>2, <1>3, PassSteady DEF memory

LEMMA SubmitOneSteady ==
  ASSUME FInv, FInv', Tracked, Repeating, Steady, SubmitOne PROVE Steady'
<1>1. Step.op = "await" /\ Advance /\ UNCHANGED <<size, pool, fixed, tensor>>  BY DEF SubmitOne, At
<1>2. Env' = Env  BY <1>1 DEF Advance, After, Env
<1>. QED  BY <1>1, <1>2, PassSteady

LEMMA SubmitSteady ==
  ASSUME FInv, FInv', Follows, Tracked, Repeating, Steady, Submit PROVE Steady'
<1>. DEFINE keep == {tensor[x].slot : x \in Step.keep}
<1>1. /\ Counters /\ Owned /\ Owned' /\ Named /\ Sketched /\ Step = Only[at] /\ at \in Nat \ {0} /\ status = "running"
      /\ Step.op = "flush" /\ Advance /\ sketch = Sketches(Only)[at] /\ Env = Sketches(Only)[at].env
      /\ (sketch.open <=> ops # <<>>)
  BY StepOf DEF Submit, At, FInv
<1>2. CASE ops = <<>> /\ Step.back = {}
  <2>1. Env' = Env  BY <1>1, <1>2 DEF Advance, After, Env
  <2>2. UNCHANGED <<size, pool, fixed, tensor>>  BY <1>2 DEF Submit, memory
  <2>. QED  BY <1>1, <1>2, <2>1, <2>2, PassSteady
<1>3. CASE ~ (ops = <<>> /\ Step.back = {})
  <2>1. Release(keep) /\ UNCHANGED <<size, fixed>>  BY <1>3, Zenon DEF Submit
  <2>2. Env' = Keeping(Env, Step.keep)  BY <1>1, <1>3 DEF Advance, After, Env
  <2>3. Flushes(Only, at)  BY <1>1, <1>3 DEF Flushes
  <2>4. \A x \in Step.keep : x \in DOMAIN Env /\ Env[x].made # 0
    BY <1>1 DEF Follows, Allowed, Env, IsPooled
  <2>5. /\ DOMAIN tensor' = {x \in DOMAIN tensor : tensor[x].slot \in keep \cup fixed}
        /\ \A x \in DOMAIN tensor' : tensor'[x] = tensor[x]
        /\ pool'.lent = keep /\ pool'.quarantine = {}
    BY <2>1 DEF Release, Restrict
  <2>6. \A x \in DOMAIN Env' : Env'[x].made # 0 =>
          \E y \in Step.keep : Env[y].made = Env'[x].made /\ tensor[y].slot = tensor'[x].slot
    <3>. SUFFICES ASSUME NEW x \in DOMAIN Env', Env'[x].made # 0
                  PROVE  \E y \in Step.keep : Env[y].made = Env'[x].made /\ tensor[y].slot = tensor'[x].slot
      OBVIOUS
    <3>1. x \in DOMAIN Env /\ Env'[x] = Env[x]  BY <2>2 DEF Keeping, Restrict
    <3>2. PICK y \in Step.keep : Env[x].made = Env[y].made
      BY <2>2, <3>1 DEF Keeping, Alike, Restrict
    <3>3. tensor[x].slot = tensor[y].slot  BY <1>1, <2>4, <3>1, <3>2 DEF Sketched
    <3>4. x \in DOMAIN tensor  BY <1>1, <3>1 DEF Sketched
    <3>5. tensor'[x] = tensor[x]  BY <2>5, <3>3, <3>4
    <3>. QED  BY <3>1, <3>2, <3>3, <3>5
  <2>7. PICK f : Assigned(f)  BY DEF Steady
  <2>8. model' = model /\ at' = at + 1 /\ status' = "running"  BY <1>1 DEF Advance
  <2>9. Assigned(f)'
    <3>1. Step.keep \subseteq DOMAIN Env  BY <2>4
    <3>. QED  BY <1>1, <2>1, <2>3, <2>4, <2>5, <2>6, <2>7, <2>8, <3>1, KeptAssigned
  <2>10. FixesStay  BY <2>1, <2>5 DEF FixesStay
  <2>11. Only[at].op # "fix"  BY <1>1
  <2>12. Roomy' /\ Fixes'
    BY <1>1, <2>1, <2>9, <2>10, <2>11, GoingOnAsItIs DEF Steady
  <2>. QED  BY <2>8, <2>9, <2>12 DEF Steady
<1>. QED  BY <1>2, <1>3

LEMMA FixSteady ==
  ASSUME FInv, FInv', Follows, Tracked, Repeating, Steady, destroyed' = {}, FixBuffer
  PROVE  Steady'
<1>. DEFINE x == Step.to
<1>1. /\ Counters /\ Owned /\ Owned' /\ Named /\ Sketched /\ Step = Only[at] /\ at \in 1 .. Len(Only)
      /\ at \in Nat \ {0} /\ status = "running" /\ Step.op = "fix" /\ Advance
  BY StepOf DEF FixBuffer, At, FInv
<1>2. /\ ~ IsPooled(Env, x) /\ Step.n \in Nat  BY <1>1 DEF Follows, Allowed, Env
<1>3. Env' = Binding(Env, x, Kept)  BY <1>1 DEF Advance, After, Env
<1>4. Kept.made = 0  BY DEF Kept, Fresh
<1>5. ~ Takes(Only, at) /\ ~ Flushes(Only, at)  BY <1>1 DEF Takes, Flushes
<1>6. PICK f : Assigned(f)  BY DEF Steady
<1>7. model' = model /\ at' = at + 1 /\ status' = "running"  BY <1>1 DEF Advance
<1>8. \A y \in DOMAIN Env' : Env'[y].made # 0 => y # x /\ y \in DOMAIN Env /\ Env'[y] = Env[y]
  BY <1>3, <1>4 DEF Binding
<1>9. pool' = pool /\ (tensor' = tensor \/ tensor' = Bind(x, Made(Len(size) + 1, Step.n)))
  BY DEF FixBuffer, memory
<1>. HIDE DEF x
<1>10. \A y \in DOMAIN Env' : Env'[y].made # 0 => tensor'[y] = tensor[y]
  <2>1. DOMAIN Env \subseteq DOMAIN tensor  BY <1>1 DEF Sketched
  <2>. QED  BY <1>8, <1>9, <2>1 DEF Bind
<1>11. \A s \in DOMAIN size : s \in DOMAIN size' /\ size'[s] = size[s]
  <2>1. Len(size) \in Nat /\ DOMAIN size = 1 .. Len(size)  BY <1>1 DEF Owned
  <2>2. size' = size \/ size' = Append(size, Step.n)  BY DEF FixBuffer, memory
  <2>. QED  BY <2>1, <2>2
<1>12. Assigned(f)'
  <2>1. InUse(Only, at') = InUse(Only, at)  BY <1>1, <1>5, <1>7, InUseNext
  <2>2. \A s \in pool.lent \cup pool.quarantine : size'[s] = size[s]  BY <1>1, <1>11 DEF Owned
  <2>3. \A y \in DOMAIN Env' : Env'[y].made # 0 =>
          \E z \in DOMAIN Env : Env[z].made = Env'[y].made /\ tensor[z].slot = tensor'[y].slot
    BY <1>8, <1>10
  <2>. QED  BY <1>6, <1>7, <1>9, <2>1, <2>2, <2>3, StillAssigned
(* A mask that is there is large enough, or another takes its place.       *)
<1>13. \/ /\ x \in DOMAIN tensor /\ tensor[x].slot \in fixed /\ tensor[x].n >= Step.n
          /\ fixed' = fixed /\ tensor' = tensor
       \/ /\ x \notin DOMAIN tensor /\ fixed' = fixed \cup {Len(size) + 1}
          /\ tensor' = Bind(x, Made(Len(size) + 1, Step.n))
  <2>1. CASE x \in DOMAIN tensor /\ tensor[x].n >= Step.n
    <3>1. fixed' = fixed /\ tensor' = tensor  BY <2>1 DEF FixBuffer, memory, x
    <3>2. tensor[x].slot \in fixed  BY <1>1, <1>2, <2>1 DEF Sketched, IsPooled
    <3>. QED  BY <2>1, <3>1, <3>2
  <2>2. CASE ~ (x \in DOMAIN tensor /\ tensor[x].n >= Step.n)
    <3>1. /\ fixed' = fixed \cup {Len(size) + 1} /\ tensor' = Bind(x, Made(Len(size) + 1, Step.n))
          /\ destroyed' = destroyed \cup {tensor[y].slot : y \in {x} \cap DOMAIN tensor}
      BY <2>2 DEF FixBuffer, x
    <3>2. x \notin DOMAIN tensor  BY <3>1
    <3>. QED  BY <3>1, <3>2
  <2>. QED  BY <2>1, <2>2
<1>14. /\ x \in DOMAIN tensor' /\ tensor'[x].slot \in fixed' /\ tensor'[x].n >= Step.n
  BY <1>2, <1>13 DEF Bind, Made
<1>15. SlotsStay
  <2>1. Len(size) + 1 \notin DOMAIN size  BY <1>1 DEF Owned
  <2>. QED  BY <1>11, <1>13, <2>1 DEF SlotsStay
<1>16. FixesStay  BY <1>13 DEF FixesStay, Bind
<1>17. Roomy' /\ Fixes'
  BY <1>1, <1>12, <1>14, <1>15, <1>16, GoingOn DEF Steady, x
<1>. QED  BY <1>7, <1>12, <1>17 DEF Steady

LEMMA CallSteady ==
  ASSUME FInv, FInv', Repeating, status \in {"idle", "done"}, status = "idle" => calls = 0,
         pool.lent = {}, pool.quarantine = {}, Roomy, Fixes, Call
  PROVE  Steady'
<1>1. /\ Counters /\ Owned /\ sketch = Start /\ calls \in Nat  BY DEF FInv, Counters, Call
<1>2. /\ calls' = calls + 1 /\ at' = 1 /\ status' = "running" /\ model' = model
      /\ tensor' = Restrict(tensor, {x \in DOMAIN tensor : tensor[x].slot \in fixed})
      /\ size' = size /\ pool' = pool /\ fixed' = fixed /\ sketch' = Start
  BY <1>1 DEF Call
<1>3. Only' = Only /\ \A j : Needed(j)' = Needed(j)  BY <1>2, NeededStays
<1>4. \A f : Assigned(f)'
  <2>1. InUse(Only, at)' = {}  BY <1>2, <1>3 DEF InUse
  <2>2. DOMAIN Env' = {}  BY <1>2 DEF Env, Start
  <2>. QED  BY <1>2, <2>1, <2>2 DEF Assigned
<1>5. \A i \in 1 .. Len(Only) : Been(i)' => Been(i)
  BY <1>1, <1>2 DEF Been
<1>6. Roomy'
  <2>1. SlotsStay  BY <1>2 DEF SlotsStay
  <2>2. \A i : Room(i) => Room(i)'  BY <1>2, <2>1, RoomStays
  <2>. QED  BY <1>3, <1>5, <2>2 DEF Roomy
<1>7. Fixes'
  BY <1>2, <1>3, <1>5 DEF Fixes, Restrict
<1>. QED  BY <1>2, <1>4, <1>6, <1>7 DEF Steady

LEMMA FinishSteady ==
  ASSUME FInv, Follows, Tracked, Repeating, Steady, Finish
  PROVE  status' = "done" /\ pool'.lent = {} /\ pool'.quarantine = {} /\ Roomy' /\ Fixes'
<1>1. /\ Counters /\ Step = Only[at] /\ at \in 1 .. Len(Only) /\ status = "running" /\ Step.op = "readback"
      /\ Program = Only
  <2>1. Program = Only  BY OnlyProgram DEF FInv, Repeating
  <2>. QED  BY <2>1, StepOf DEF Finish, At
<1>2. Release({}) /\ UNCHANGED <<size, fixed, model, calls>> /\ status' = "done"
  BY DEF Finish, Repeating
<1>3. Only' = Only  BY <1>2, NeededStays
<1>4. at = Len(Only)  BY <1>1 DEF Follows
<1>5. \A i \in 1 .. Len(Only) : i = at \/ Been(i)  BY <1>1, <1>4 DEF Been
<1>6. ~ Takes(Only, at) /\ Only[at].op # "fix"  BY <1>1 DEF Takes
<1>7. \A i : Room(i) => Room(i)'  BY <1>2, RoomStays DEF SlotsStay
<1>8. Roomy'  BY <1>3, <1>5, <1>6, <1>7 DEF Roomy, Steady
<1>9. Fixes'
  <2>1. tensor' = Restrict(tensor, {x \in DOMAIN tensor : tensor[x].slot \in {} \cup fixed})
    BY <1>2 DEF Release
  <2>. QED  BY <1>2, <1>3, <1>5, <1>6, <2>1 DEF Fixes, Steady, Restrict
<1>. QED  BY <1>2, <1>8, <1>9 DEF Release

-----------------------------------------------------------------------------
(* A buffer of an object's pool that was destroyed stays so.               *)
LEMMA DestroyedStays ==
  ASSUME [Next]_vars, policy.scope = "object" PROVE destroyed \subseteq destroyed' /\ policy' = policy
<1>1. policy' = policy
  <2>1. model' = model
    BY DEF Next, Call, TakeBuffer, WriteFromHost, FixBuffer, RecordInto, Record, RecordAgain, NameTensor,
       RecycleBuffer, Preload, Submit, SubmitOne, Finish, RecordFails, PreloadFails, SubmitFails,
       ReleaseWeights, Over, Unread, Reject, Advance, vars
  <2>. QED  BY <2>1 DEF policy
<1>2. \A keep : Release(keep) => destroyed \subseteq destroyed'  BY DEF Release
<1>3. \A d : Abandon(d) => destroyed' = destroyed  BY DEF Abandon
<1>4. FixBuffer => destroyed \subseteq destroyed'  BY DEF FixBuffer, memory
<1>5. Submit => destroyed \subseteq destroyed'
  <2>1. Submit => destroyed' = destroyed \/ \E keep : Release(keep)  BY DEF Submit, memory
  <2>. QED  BY <1>2, <2>1
<1>6. Finish => destroyed \subseteq destroyed'  BY <1>2 DEF Finish
<1>7. RecordFails => destroyed' = destroyed  BY DEF RecordFails
<1>8. Unread => destroyed' = destroyed  BY <1>3 DEF Unread
<1>9. PreloadFails \/ SubmitFails => destroyed' = destroyed  BY <1>3 DEF PreloadFails, SubmitFails
<1>10. RecordInto \/ Record \/ RecordAgain \/ Preload => destroyed' = destroyed
  BY <1>8 DEF RecordInto, Record, RecordAgain, Preload, memory
<1>11. Call \/ TakeBuffer \/ WriteFromHost \/ NameTensor \/ RecycleBuffer \/ SubmitOne \/ ReleaseWeights
         \/ Over \/ UNCHANGED vars => destroyed' = destroyed
  BY DEF Call, TakeBuffer, WriteFromHost, NameTensor, RecycleBuffer, SubmitOne, ReleaseWeights, Over, vars, memory
<1>. QED  BY <1>1, <1>4, <1>5, <1>6, <1>7, <1>9, <1>10, <1>11 DEF Next

LEMMA BeginsNext == ASSUME Counters, Begins, [Next]_vars PROVE Begins' /\ (faults' = 0 => faults = 0)
<1>1. /\ UNCHANGED <<calls, status, struck, faults>> => Begins'
      /\ status' # "idle" /\ UNCHANGED <<struck, faults>> => Begins'
      /\ status' # "idle" /\ Strike => Begins' /\ faults' # 0
      /\ status' # "idle" /\ struck' = FALSE /\ faults' = faults => Begins'
  BY DEF Begins, Strike
<1>2. \/ UNCHANGED <<calls, status, struck, faults>>
      \/ status' # "idle" /\ UNCHANGED <<struck, faults>>
      \/ status' # "idle" /\ Strike
      \/ status' # "idle" /\ struck' = FALSE /\ faults' = faults
  BY DEF Next, Call, TakeBuffer, WriteFromHost, FixBuffer, RecordInto, Record, RecordAgain, NameTensor,
     RecycleBuffer, Preload, Submit, SubmitOne, Finish, RecordFails, PreloadFails, SubmitFails,
     ReleaseWeights, Over, Unread, Reject, Advance, vars
<1>. QED  BY <1>1, <1>2

LEMMA PoolInvNext ==
  ASSUME \A m \in Model : Repeats(m), FInv, FInv', Follows, Tracked, Begins, Begins',
         FailsOnlyWhenStruck, FailsOnlyWhenStruck', PoolInv, [Next]_vars
  PROVE  PoolInv'
<1>. SUFFICES ASSUME Undisturbed'
     PROVE  /\ status' = "running" => \E f : Assigned(f)'
            /\ status' # "running" => pool'.lent = {} /\ pool'.quarantine = {}
            /\ Roomy' /\ Fixes'
  BY DEF PoolInv
<1>1. model' = model /\ faults = 0
  BY BeginsNext DEF Undisturbed, FInv, Next, Call, TakeBuffer, WriteFromHost, FixBuffer, RecordInto, Record,
     RecordAgain, NameTensor, RecycleBuffer, Preload, Submit, SubmitOne, Finish, RecordFails, PreloadFails,
     SubmitFails, ReleaseWeights, Over, Unread, Reject, Advance, vars
<1>2. policy' = policy /\ policy.scope = "object" /\ Len(Forward[model]) = 1
  BY <1>1 DEF Undisturbed, policy
<1>3. destroyed = {} /\ destroyed' = {}  BY <1>2, DestroyedStays DEF Undisturbed
<1>4. Repeating
  BY <1>2 DEF Repeating, Repeats, Only, policy, FInv, Counters
<1>5. Undisturbed  BY <1>1, <1>2, <1>3 DEF Undisturbed
<1>6. status # "failed" /\ status' # "failed"
  <2>1. ~ struck /\ ~ struck'  BY <1>1 DEF Begins, Undisturbed
  <2>. QED  BY <1>2, <1>4, <2>1 DEF FailsOnlyWhenStruck, Repeating
<1>7. /\ status = "running" => Steady
      /\ status # "running" => pool.lent = {} /\ pool.quarantine = {}
      /\ Roomy /\ Fixes
  BY <1>5 DEF PoolInv, Steady
<1>8. SUFFICES Steady' \/ /\ status' # "running" /\ pool'.lent = {} /\ pool'.quarantine = {}
                          /\ Roomy' /\ Fixes'
  BY DEF Steady
<1>9. CASE UNCHANGED <<model, calls, at, status, memory, sketch>>
  <2>1. /\ model' = model /\ calls' = calls /\ at' = at /\ status' = status /\ sketch' = sketch
        /\ size' = size /\ pool' = pool /\ fixed' = fixed /\ tensor' = tensor
    BY <1>9 DEF memory
  <2>2. Only' = Only /\ \A j : Needed(j)' = Needed(j)  BY <1>1, NeededStays
  <2>3. \A f : Assigned(f) => Assigned(f)'  BY <2>1, <2>2 DEF Assigned, Env
  <2>4. \A i : Been(i)' = Been(i)  BY <2>1 DEF Been
  <2>5. \A i : Room(i) => Room(i)'  BY <1>1, <2>1, RoomStays DEF SlotsStay
  <2>6. Roomy'  BY <1>7, <2>2, <2>4, <2>5 DEF Roomy
  <2>7. Fixes'  BY <1>7, <2>1, <2>2, <2>4 DEF Fixes
  <2>. QED  BY <1>7, <2>1, <2>3, <2>6, <2>7 DEF Steady
<1>10. CASE status # "running" /\ ~ Call
  <2>1. UNCHANGED <<model, calls, at, status, memory, sketch>>
    BY <1>10 DEF Next, TakeBuffer, WriteFromHost, FixBuffer, RecordInto, Record, RecordAgain, NameTensor,
       RecycleBuffer, Preload, Submit, SubmitOne, Finish, RecordFails, PreloadFails, SubmitFails,
       ReleaseWeights, Over, At, vars
  <2>. QED  BY <1>9, <2>1
<1>11. CASE Call
  <2>1. status \in {"idle", "done"} /\ (status = "idle" => calls = 0) /\ status # "running"
    BY <1>6, <1>11 DEF Call, FInv, Counters, Begins
  <2>. QED  BY <1>4, <1>7, <1>11, <2>1, CallSteady
<1>12. CASE status = "running"
  <2>1. Steady  BY <1>7, <1>12
  <2>2. CASE TakeBuffer
    <3>1. status' = "running"  BY <2>2 DEF TakeBuffer, Advance, At
    <3>. QED  BY <1>4, <2>1, <2>2, <3>1, TakeSteady
  <2>3. CASE RecordInto
    <3>1. status' = "running"  BY <1>6, <2>3 DEF RecordInto, Advance, At, Unread, Reject
    <3>. QED  BY <1>4, <2>1, <2>3, <3>1, TakeSteady
  <2>4. CASE WriteFromHost
    <3>1. Step.op = "host" /\ Advance /\ UNCHANGED <<size, pool, fixed, tensor>>
      BY <2>4 DEF WriteFromHost, At
    <3>. QED  BY <1>4, <2>1, <3>1, WroteSteady
  <2>5. CASE Record
    <3>1. Step.op = "write" /\ Advance /\ UNCHANGED <<size, pool, fixed, tensor>>
      BY <1>6, <2>5 DEF Record, At, Unread, Reject, memory
    <3>. QED  BY <1>4, <2>1, <3>1, WroteSteady
  <2>6. CASE RecordAgain
    <3>1. status' = "running"  BY <1>6, <2>6 DEF RecordAgain, Advance, At, Unread, Reject
    <3>. QED  BY <1>4, <2>1, <2>6, <3>1, RewroteSteady
  <2>7. CASE NameTensor  BY <1>4, <2>1, <2>7, NameSteady
  <2>8. CASE RecycleBuffer  BY <1>4, <2>1, <2>8, RecycleSteady
  <2>9. CASE FixBuffer  BY <1>3, <1>4, <2>1, <2>9, FixSteady
  <2>10. CASE Preload
    <3>1. status' = "running"  BY <1>6, <2>10 DEF Preload, Advance, At, Unread, Reject
    <3>. QED  BY <1>4, <2>1, <2>10, <3>1, PreloadSteady
  <2>11. CASE Submit  BY <1>4, <2>1, <2>11, SubmitSteady
  <2>12. CASE SubmitOne  BY <1>4, <2>1, <2>12, SubmitOneSteady
  <2>13. CASE Finish  BY <1>4, <2>1, <2>13, FinishSteady
  <2>14. CASE RecordFails \/ PreloadFails \/ SubmitFails
    BY <1>6, <2>14 DEF RecordFails, PreloadFails, SubmitFails, Reject
  <2>15. CASE ReleaseWeights \/ Over \/ UNCHANGED vars
    BY <1>9, <2>15 DEF ReleaseWeights, Over, vars
  <2>. QED
    BY <1>11, <2>2, <2>3, <2>4, <2>5, <2>6, <2>7, <2>8, <2>9, <2>10, <2>11, <2>12, <2>13, <2>14, <2>15
    DEF Next
<1>. QED  BY <1>10, <1>11, <1>12

(* Whoever has been through a call finds a buffer for every request.       *)
LEMMA NothingIsAllocated ==
  ASSUME \A m \in Model : Repeats(m), FInv, Follows, Tracked, Begins, PoolInv, [Next]_vars,
         policy.scope = "object", Len(Forward[model]) = 1, calls >= 2, faults' = 0, destroyed = {}
  PROVE  size' = size
<1>1. Undisturbed  BY BeginsNext DEF Undisturbed, FInv
<1>2. Repeating  BY DEF Repeating, Repeats, Only, policy, FInv, Counters
<1>3. CASE status = "running" /\ (TakeBuffer \/ (RecordInto /\ ~ Unread))
  <2>1. Lend(SlotFor(Step.n), Step.n) /\ Step.op \in {"take", "into"}
    BY <1>3 DEF TakeBuffer, RecordInto, At
  <2>2. PICK f : Assigned(f)  BY <1>1, <1>3 DEF PoolInv
  <2>3. /\ Counters /\ Owned /\ Step = Only[at] /\ at \in 1 .. Len(Only) /\ at \in Nat \ {0}
    BY <1>2, <1>3, OnlyStep DEF Repeating, FInv
  <2>4. Takes(Only, at) /\ Room(at + 1)
    <3>1. Been(at)  BY DEF Been
    <3>2. Takes(Only, at)  BY <2>1, <2>3 DEF Takes
    <3>. QED  BY <1>1, <2>3, <3>1, <3>2 DEF PoolInv, Roomy
  <2>5. PICK s \in pool.free : size[s] = Class(Step.n)
    BY <2>2, <2>3, <2>4, OneIsFree DEF Needed
  <2>6. Class(Step.n) \in Nat
    <3>1. Step.n \in Nat  BY <1>3, <2>1 DEF Follows, Allowed
    <3>. QED  BY <1>3, <2>1, <2>3, <3>1, ClassIsNat
  <2>7. s \in Fitting(Class(Step.n))  BY <1>2, <2>5, <2>6 DEF Fitting, Repeating
  <2>8. SlotFor(Step.n) \in pool.free
    <3>1. Fitting(Class(Step.n)) \subseteq pool.free  BY DEF Fitting
    <3>2. pool.free \subseteq Nat  BY <2>3 DEF Owned
    <3>3. \E x \in Fitting(Class(Step.n)) : \A y \in Fitting(Class(Step.n)) : x <= y
      BY <2>7, <3>1, <3>2, LeastNatural
    <3>. QED  BY <2>7, <3>1, <3>3 DEF SlotFor, Min
  <2>9. SlotFor(Step.n) \in 1 .. Len(size) /\ Len(size) \in Nat  BY <2>3, <2>8 DEF Owned
  <2>. QED  BY <2>1, <2>9 DEF Lend
<1>4. CASE FixBuffer
  <2>1. status = "running" /\ Step.op = "fix"  BY <1>4 DEF FixBuffer, At
  <2>2. /\ Step = Only[at] /\ at \in 1 .. Len(Only)
    BY <1>2, <2>1, OnlyStep DEF Repeating, FInv
  <2>3. Been(at)  BY DEF Been
  <2>4. Step.to \in DOMAIN tensor /\ tensor[Step.to].n >= Step.n
    BY <1>1, <2>1, <2>2, <2>3 DEF PoolInv, Fixes
  <2>. QED  BY <1>4, <2>4 DEF FixBuffer, memory
<1>5. Unread => size' = size  BY DEF Unread, Abandon
<1>6. PreloadFails \/ SubmitFails => size' = size  BY DEF PreloadFails, SubmitFails, Abandon
<1>7. ~ RecordFails  BY DEF RecordFails, Strike, Begins
<1>8. Finish => size' = size  BY DEF Finish
<1>9. Submit \/ Record \/ RecordAgain \/ Preload => size' = size
  BY <1>5 DEF Submit, Record, RecordAgain, Preload, memory
<1>10. Call \/ WriteFromHost \/ NameTensor \/ RecycleBuffer \/ SubmitOne \/ ReleaseWeights
         \/ Over \/ UNCHANGED vars => size' = size
  BY DEF Call, WriteFromHost, NameTensor, RecycleBuffer, SubmitOne, ReleaseWeights, Over, vars, memory
<1>11. TakeBuffer \/ RecordInto => status = "running"  BY DEF TakeBuffer, RecordInto, At
<1>. QED  BY <1>3, <1>4, <1>5, <1>6, <1>7, <1>8, <1>9, <1>10, <1>11 DEF Next

(* Once a call of a program that follows the rules has gone through, the   *)
(* next ones allocate nothing: the pool of an object keeps a buffer for    *)
(* every one that is in use at any point of the program, whatever is       *)
(* recycled, kept and taken again, as long as none is evicted and nothing  *)
(* fails.                                                                  *)
THEOREM SecondCallIsFree ==
  ASSUME \A m \in Model : WellPreloaded(m), \A m \in Model : Repeats(m)
  PROVE  Spec /\ []Follows => SecondCallAllocatesNothing
<1>. DEFINE Inv == FInv /\ Tracked /\ Begins /\ PoolInv
            Free == (/\ policy.scope = "object" /\ Len(Forward[model]) = 1
                     /\ calls >= 2 /\ faults' = 0 /\ destroyed = {}) => size' = size
<1>1. Init => Inv
  <2>1. Init => FInv  BY FInvInit
  <2>2. Init => Tracked /\ Begins  BY DEF Init, Tracked, Begins
  <2>3. Init => PoolInv
    <3>. SUFFICES ASSUME Init PROVE Roomy /\ Fixes /\ pool.lent = {} /\ pool.quarantine = {} /\ status # "running"
      BY DEF PoolInv
    <3>1. \A i \in 1 .. Len(Only) : ~ Been(i)  BY DEF Init, Been
    <3>. QED  BY <3>1 DEF Init, Roomy, Fixes
  <2>. QED  BY <2>1, <2>2, <2>3
<1>2. Inv /\ Follows /\ FailsOnlyWhenStruck /\ FailsOnlyWhenStruck' /\ [Next]_vars => Inv'
  <2>. SUFFICES ASSUME Inv, Follows, FailsOnlyWhenStruck, FailsOnlyWhenStruck', [Next]_vars PROVE Inv'
    OBVIOUS
  <2>1. FInv'  BY FInvNext
  <2>2. Tracked'  BY <2>1, TrackedNext
  <2>3. Begins'  BY BeginsNext DEF FInv
  <2>4. PoolInv'  BY <2>1, <2>3, PoolInvNext
  <2>. QED  BY <2>1, <2>2, <2>3, <2>4
<1>3. Inv /\ Follows /\ [Next]_vars => [Free]_vars
  BY NothingIsAllocated
<1>4. Spec /\ []Follows => []FailsOnlyWhenStruck  BY FailuresAreFaults
<1>. HIDE DEF Inv, Free
<1>5. Spec /\ []Follows => [][Free]_vars  BY <1>1, <1>2, <1>3, <1>4, PTL DEF Spec
<1>. QED  BY <1>5, Zenon DEF SecondCallAllocatesNothing, Free

-----------------------------------------------------------------------------
(* Taking turns: whatever number divides the calls, the program that comes *)
(* after one in the list is that of the next call.                         *)

LEMMA DivisionIsUnique ==
  ASSUME NEW n \in Nat \ {0}, NEW a \in Int, NEW q \in Int, NEW r \in 0 .. n - 1, a = n * q + r
  PROVE  a % n = r
<1>1. a = n * (a \div n) + (a % n) /\ a % n \in 0 .. n - 1 /\ a \div n \in Int
  OBVIOUS
<1>. DEFINE e == a % n  d == a \div n
<1>2. d \in Int /\ e \in 0 .. n - 1 /\ a = n * d + e
  BY <1>1
<1>. HIDE DEF d, e
<1>3. n * (d - q) = r - e
  BY <1>2
<1>4. ~ (d - q >= 1)
  <2>1. SUFFICES ASSUME d - q >= 1 PROVE FALSE  OBVIOUS
  <2>2. n * (d - q) >= n  BY <1>2, <2>1
  <2>. QED  BY <1>2, <1>3, <2>2
<1>5. ~ (q - d >= 1)
  <2>1. SUFFICES ASSUME q - d >= 1 PROVE FALSE  OBVIOUS
  <2>2. n * (q - d) >= n  BY <1>2, <2>1
  <2>3. n * (q - d) = e - r  BY <1>2, <1>3
  <2>. QED  BY <1>2, <2>2, <2>3
<1>6. d = q  BY <1>2, <1>4, <1>5
<1>7. e = r  BY <1>2, <1>6
<1>. QED  BY <1>7 DEF e

LEMMA NextInTurn ==
  ASSUME NEW n \in Nat \ {0}, NEW a \in Int
  PROVE  (a % n) + 1 \in 1 .. n /\ ((a + 1) % n) + 1 = (((a % n) + 1) % n) + 1
<1>1. a = n * (a \div n) + (a % n) /\ a % n \in 0 .. n - 1 /\ a \div n \in Int
  OBVIOUS
<1>. DEFINE r == a % n  q == a \div n
<1>2. q \in Int /\ r \in 0 .. n - 1 /\ a = n * q + r
  BY <1>1
<1>. HIDE DEF q, r
<1>3. CASE r + 1 # n
  <2>1. r + 1 \in 0 .. n - 1 /\ a + 1 = n * q + (r + 1) /\ r + 1 = n * 0 + (r + 1)  BY <1>2, <1>3
  <2>2. (a + 1) % n = r + 1  BY <1>2, <2>1, DivisionIsUnique
  <2>3. (r + 1) % n = r + 1  BY <1>2, <2>1, DivisionIsUnique
  <2>. QED  BY <1>2, <2>2, <2>3 DEF r
<1>4. CASE r + 1 = n
  <2>1. 0 \in 0 .. n - 1 /\ a + 1 = n * (q + 1) + 0 /\ r + 1 = n * 1 + 0  BY <1>2, <1>4
  <2>2. (a + 1) % n = 0  BY <1>2, <2>1, DivisionIsUnique
  <2>3. (r + 1) % n = 0  BY <1>2, <2>1, DivisionIsUnique
  <2>. QED  BY <1>2, <2>2, <2>3 DEF r
<1>. QED  BY <1>3, <1>4

-----------------------------------------------------------------------------
(* What the source holds that does not count uses *)

(* v is further from being dropped than w.                                 *)
Behind(s, w, v) == \E i, j \in 1 .. Len(s) : i < j /\ s[i] = w /\ s[j] = v

LEMMA BehindBefore ==
  ASSUME NEW T, NEW s \in Seq(T), NEW t \in Seq(T), NEW w \in Range(s), NEW v, Behind(s, w, v) \/ v \in Range(t)
  PROVE  Behind(s \o t, w, v)
<1>. DEFINE u == s \o t
<1>1. /\ Len(u) = Len(s) + Len(t)
      /\ \A i \in 1 .. Len(s) : u[i] = s[i]
      /\ \A i \in 1 .. Len(t) : u[Len(s) + i] = t[i]
  BY ConcatFacts
<1>. HIDE DEF u
<1>2. /\ Len(s) \in Nat /\ Range(s) = {s[i] : i \in 1 .. Len(s)}
      /\ Len(t) \in Nat /\ Range(t) = {t[i] : i \in 1 .. Len(t)}
  BY SeqFacts
<1>3. CASE Behind(s, w, v)
  <2>1. PICK i \in 1 .. Len(s), j \in 1 .. Len(s) : i < j /\ s[i] = w /\ s[j] = v  BY <1>3 DEF Behind
  <2>2. i \in 1 .. Len(u) /\ j \in 1 .. Len(u) /\ u[i] = w /\ u[j] = v  BY <1>1, <1>2, <2>1
  <2>. QED  BY <2>1, <2>2 DEF Behind, u
<1>4. CASE v \in Range(t)
  <2>1. PICK i \in 1 .. Len(s) : s[i] = w  BY <1>2
  <2>2. PICK j \in 1 .. Len(t) : t[j] = v  BY <1>2, <1>4
  <2>3. i \in 1 .. Len(u) /\ Len(s) + j \in 1 .. Len(u) /\ i < Len(s) + j  BY <1>1, <1>2
  <2>4. u[i] = w /\ u[Len(s) + j] = v  BY <1>1, <2>1, <2>2
  <2>. QED  BY <2>3, <2>4 DEF Behind, u
<1>. QED  BY <1>3, <1>4

(* Nothing is dropped before what it is behind of.                         *)
LEMMA BehindLast ==
  ASSUME NEW T, NEW s \in Seq(T), Distinct(s), NEW n \in Nat, NEW w \in Range(LastOf(s, n)), NEW v,
         Behind(s, w, v)
  PROVE  Behind(LastOf(s, n), w, v)
<1>. DEFINE t == LastOf(s, n)
<1>1. PICK d \in Nat : d + Len(t) = Len(s) /\ \A i \in 1 .. Len(t) : t[i] = s[d + i]
  BY LastFacts
<1>2. t \in Seq(T)  BY LastFacts
<1>. HIDE DEF t
<1>3. Len(t) \in Nat /\ Len(s) \in Nat /\ Range(t) = {t[i] : i \in 1 .. Len(t)}  BY <1>2, SeqFacts
<1>4. PICK i \in 1 .. Len(s), j \in 1 .. Len(s) : i < j /\ s[i] = w /\ s[j] = v  BY DEF Behind
<1>5. PICK k \in 1 .. Len(t) : t[k] = w  BY <1>3 DEF t
<1>6. d + k \in 1 .. Len(s) /\ s[d + k] = w  BY <1>1, <1>3, <1>5
<1>7. i = d + k  BY <1>4, <1>6 DEF Distinct
<1>8. j - d \in 1 .. Len(t) /\ d + (j - d) = j /\ k < j - d  BY <1>1, <1>3, <1>4, <1>5, <1>7
<1>9. t[j - d] = v  BY <1>1, <1>4, <1>8
<1>. QED  BY <1>5, <1>8, <1>9 DEF Behind, t

(* What has as much behind it as there is room for has been dropped.       *)
LEMMA BehindIsShort ==
  ASSUME NEW T, NEW s \in Seq(T), Distinct(s), NEW B, NEW w \in Range(s), \A v \in B : Behind(s, w, v)
  PROVE  IsFiniteSet(B) /\ Cardinality(B) < Len(s)
<1>1. Len(s) \in Nat /\ Range(s) = {s[i] : i \in 1 .. Len(s)}  BY SeqFacts
<1>2. PICK k \in 1 .. Len(s) : s[k] = w  BY <1>1
<1>. DEFINE I == k + 1 .. Len(s)
            f == [i \in I |-> s[i]]
            R == {s[i] : i \in I}
<1>3. IsFiniteSet(I) /\ Cardinality(I) = Len(s) - k
  <2>1. k + 1 \in Int /\ Len(s) \in Int /\ Len(s) - (k + 1) + 1 = Len(s) - k  BY <1>1
  <2>2. k + 1 > Len(s) => Len(s) - k = 0  BY <1>1
  <2>. QED  BY <2>1, <2>2, FS_Interval
<1>4. f \in Surjection(I, R)  BY DEF Surjection
<1>5. IsFiniteSet(R) /\ Cardinality(R) <= Cardinality(I)
  <2>. HIDE DEF f, R, I
  <2>. QED  BY <1>3, <1>4, FS_Surjection
<1>6. B \subseteq R
  <2>1. ASSUME NEW v \in B PROVE v \in R
    <3>1. PICK i \in 1 .. Len(s), j \in 1 .. Len(s) : i < j /\ s[i] = w /\ s[j] = v  BY DEF Behind
    <3>2. i = k  BY <1>2, <3>1 DEF Distinct
    <3>3. j \in I  BY <1>1, <3>1, <3>2
    <3>. QED  BY <3>1, <3>3
  <2>. QED  BY <2>1
<1>. HIDE DEF R, I
<1>7. IsFiniteSet(B) /\ Cardinality(B) <= Cardinality(R)  BY <1>5, <1>6, FS_Subset
<1>8. Cardinality(B) \in Nat /\ Cardinality(R) \in Nat /\ Cardinality(I) \in Nat  BY <1>3, <1>5, <1>7, FS_CardinalityType
<1>. QED  BY <1>1, <1>2, <1>3, <1>5, <1>7, <1>8

(* What a cache is that has taken in t and dropped what it had no room     *)
(* for.                                                                    *)
LEMMA QueueFacts ==
  ASSUME NEW T, NEW s \in Seq(T), NEW t \in Seq(T), NEW n \in Nat, NEW u, u = LastOf(s \o t, n),
         Distinct(s), Distinct(t), Range(s) \cap Range(t) = {}
  PROVE  /\ Distinct(u) /\ Range(u) \subseteq Range(s) \cup Range(t)
         /\ \A w \in Range(s) \cap Range(u) : \A v :
              Behind(s, w, v) \/ v \in Range(t) => Behind(u, w, v)
         /\ \A w, B : IsFiniteSet(B) /\ Cardinality(B) <= n /\ Range(t) \subseteq B
                      /\ (Young(s, w, B) \/ w \in Range(t)) => Young(u, w, B)
<1>. DEFINE all == s \o t
<1>1. all \in Seq(T) /\ Range(all) = Range(s) \cup Range(t) /\ Distinct(all)
  BY ConcatFacts, RangeOfConcat
<1>2. \A w \in Range(s) : \A v : Behind(s, w, v) \/ v \in Range(t) => Behind(all, w, v)
  BY BehindBefore
<1>3. \A w, B : Young(s, w, B) /\ Range(t) \subseteq B => Young(all, w, B)
  BY YoungBefore
<1>4. \A w \in Range(t) : \A B : Range(t) \subseteq B => Young(all, w, B)
  BY YoungAfter
<1>5. u = LastOf(all, n)  OBVIOUS
<1>. HIDE DEF all
<1>6. Distinct(u) /\ Range(u) \subseteq Range(s) \cup Range(t)
  <2>1. Distinct(LastOf(all, n)) /\ Range(LastOf(all, n)) \subseteq Range(all)  BY <1>1, LastFacts
  <2>. QED  BY <1>1, <1>5, <2>1
<1>7. ASSUME NEW w \in Range(s) \cap Range(u), NEW v, Behind(s, w, v) \/ v \in Range(t)
      PROVE  Behind(u, w, v)
  <2>1. Behind(all, w, v)  BY <1>2, <1>7
  <2>. QED  BY <1>1, <1>5, <1>7, <2>1, BehindLast
<1>8. ASSUME NEW w, NEW B, IsFiniteSet(B), Cardinality(B) <= n, Range(t) \subseteq B,
             Young(s, w, B) \/ w \in Range(t)
      PROVE  Young(u, w, B)
  <2>1. Young(all, w, B)  BY <1>3, <1>4, <1>8
  <2>. QED  BY <1>1, <1>5, <1>8, <2>1, YoungLast
<1>9. \A w \in Range(s) \cap Range(u) : \A v :
        Behind(s, w, v) \/ v \in Range(t) => Behind(u, w, v)
  BY <1>7
<1>10. \A w, B : IsFiniteSet(B) /\ Cardinality(B) <= n /\ Range(t) \subseteq B
                 /\ (Young(s, w, B) \/ w \in Range(t)) => Young(u, w, B)
  BY <1>8
<1>. QED  BY <1>6, <1>9, <1>10

(* A call that does not know its weights to be on the device.              *)
Cold == status = "running" /\ ~ warm

(* The program of the call before.                                         *)
Former == Forward[model][((calls - 2) % Len(Forward[model])) + 1]

(* This call has announced p.                                              *)
Said(p) == \E b \in AnnouncedAt(Program, p) : b < at

(* The layers announced since p last was.                                  *)
Recent(p) ==
  IF Cold
    THEN Since(Program, at, p) \cup (IF Said(p) THEN {} ELSE Since(Former, Len(Former) + 1, p))
    ELSE Since(Program, Len(Program) + 1, p)

(* Those of its kind are all dropped after it.                             *)
InOrder ==
  \A p \in Layers(model) : \A w \in Tensors(model, p) : w \in Range(source[Kind(model, w)]) =>
    \A v \in OfKind(model, TensorsOf(model, Recent(p)), Kind(model, w)) :
      Behind(source[Kind(model, w)], w, v)

(* What enters the cache of w between the announcement of p, at step i,    *)
(* and the last read of it.                                                *)
Passing(i, p, w) == Entering(model, Meanwhile(Program, i, p), Kind(model, w))

(* A layer still to be read is dropped after all that was not announced,   *)
(* or read, with or after it.                                              *)
Pending ==
  Cold => \A p \in Layers(model) : \A i \in AnnouncedAt(Program, p) :
    i < at /\ (\E r \in ReadAt(Program, p) : at <= r) =>
      \A w \in Tensors(model, p) : Young(source[Kind(model, w)], w, Passing(i, p, w))

(* A call that skips its preloads has its weights on the device.           *)
Filled ==
  warm => /\ policy.held # "call"
          /\ \A b \in 1 .. Len(Program) : \A w \in Needs(Program[b]) : ~ IsMade(w) => w \in resident

Turning == Apart(source) /\ InOrder /\ Pending /\ Filled /\ ReadSoFar /\ status # "failed"

WellTurned == policy.source = "fifo" /\ TurnsOver(model)

LEMMA FormerKnown ==
  ASSUME Counters
  PROVE  /\ Len(Forward[model]) \in Nat \ {0}
         /\ \E l, k \in 1 .. Len(Forward[model]) :
              /\ k = (l % Len(Forward[model])) + 1
              /\ Program = Forward[model][k] /\ Former = Forward[model][l]
<1>. DEFINE n == Len(Forward[model])
            a == calls - 2
<1>1. n \in Nat \ {0} /\ a \in Int /\ calls - 1 = a + 1  BY ForwardAssumption DEF Counters
<1>2. Program = Forward[model][((a + 1) % n) + 1]  BY <1>1 DEF Program
<1>3. Former = Forward[model][(a % n) + 1]  BY DEF Former
<1>. HIDE DEF n, a
<1>4. (a % n) + 1 \in 1 .. n /\ ((a + 1) % n) + 1 = (((a % n) + 1) % n) + 1  BY <1>1, NextInTurn
<1>5. ((a + 1) % n) + 1 \in 1 .. n
  <2>1. a + 1 \in Int  BY <1>1
  <2>. QED  BY <1>1, <2>1, NextInTurn
<1>. QED  BY <1>1, <1>2, <1>3, <1>4, <1>5 DEF n

LEMMA TurnFacts ==
  ASSUME Counters, WellTurned, NEW p \in Layers(model)
  PROVE  /\ \A i \in ReadAt(Program, p) : \E j \in AnnouncedAt(Program, p) : j < i
         /\ \A i, j \in AnnouncedAt(Program, p) : i = j
         /\ \A i \in AnnouncedAt(Program, p) :
              /\ \A k \in Kinds : Cardinality(Entering(model, Meanwhile(Program, i, p), k)) <= policy.limit[k]
              /\ \A w \in Tensors(model, p) :
                   policy.limit[Kind(model, w)] <=
                     Cardinality(OfKind(model, TensorsOf(model, Since(Program, i, p)
                                                            \cup Since(Former, Len(Former) + 1, p)),
                                        Kind(model, w)))
<1>1. Program \in Shapes(model)  BY ProgramKnown
<1>2. PICK l, k \in 1 .. Len(Forward[model]) :
         /\ k = (l % Len(Forward[model])) + 1
         /\ Program = Forward[model][k] /\ Former = Forward[model][l]
  BY FormerKnown
<1>3. Policy[model].source = "fifo" /\ policy = Policy[model]  BY DEF WellTurned, policy
<1>4. ASSUME NEW i \in AnnouncedAt(Program, p), NEW w \in Tensors(model, p)
      PROVE  policy.limit[Kind(model, w)] <=
               Cardinality(OfKind(model, TensorsOf(model, Since(Program, i, p)
                                                      \cup Since(Former, Len(Former) + 1, p)),
                                  Kind(model, w)))
  BY <1>2, <1>3, <1>4 DEF WellTurned, TurnsOver
<1>. QED  BY <1>1, <1>3, <1>4 DEF WellTurned, TurnsOver

LEMMA SinceNext ==
  ASSUME NEW program, Len(program) \in Nat, NEW p, NEW i \in 1 .. Len(program)
  PROVE  /\ \A q \in Since(program, i + 1, p) :
              q \in Since(program, i, p) \/ (program[i].op = "announce" /\ q = program[i].prefix)
         /\ i \in AnnouncedAt(program, p) => Since(program, i + 1, p) = {}
<1>1. ASSUME NEW j \in 1 .. (i + 1) - 1, program[j].op = "announce",
             \A b \in AnnouncedAt(program, p) : b < j \/ i + 1 <= b
      PROVE  /\ program[j].prefix \in Since(program, i, p)
                  \/ (program[i].op = "announce" /\ program[j].prefix = program[i].prefix)
             /\ i \notin AnnouncedAt(program, p)
  <2>1. i \notin AnnouncedAt(program, p)  BY <1>1
  <2>2. CASE j = i  BY <1>1, <2>1, <2>2
  <2>3. CASE j # i
    <3>1. j \in 1 .. i - 1  BY <2>3
    <3>2. \A b \in AnnouncedAt(program, p) : b < j \/ i <= b
      <4>1. \A b \in AnnouncedAt(program, p) : b \in Nat  BY DEF AnnouncedAt
      <4>. QED  BY <1>1, <4>1
    <3>3. program[j].prefix \in Since(program, i, p)  BY <1>1, <3>1, <3>2 DEF Since
    <3>. QED  BY <2>1, <3>3
  <2>. QED  BY <2>2, <2>3
<1>. QED  BY <1>1 DEF Since

LEMMA LayersShareNone ==
  ASSUME Counters, NEW p \in Layers(model), NEW q \in Layers(model), NEW w \in Tensors(model, p), w \in Tensors(model, q)
  PROVE  p = q
BY LayerFacts

(* What is announced again is no longer there.                             *)
LEMMA AnnouncedAnew ==
  ASSUME Counters, Stored, WellTurned, Turning, At("announce"), ~ warm,
         NEW w \in Tensors(model, Step.prefix)
  PROVE  w \notin Range(source[Kind(model, w)])
<1>. DEFINE p == Step.prefix
            k == Kind(model, w)
            s == source[k]
            n == policy.limit[k]
            B == OfKind(model, TensorsOf(model, Recent(p)), k)
<1>0. status = "running"  BY DEF At
<1>1. p \in Layers(model) /\ at \in AnnouncedAt(Program, p)  BY <1>0, StepKnown
<1>. HIDE DEF p
<1>2. ~ Said(p)
  <2>1. \A b \in AnnouncedAt(Program, p) : b = at  BY <1>1, TurnFacts
  <2>. QED  BY <2>1 DEF Said, Counters
<1>3. Recent(p) = Since(Program, at, p) \cup Since(Former, Len(Former) + 1, p)
  BY <1>0, <1>2 DEF Recent, Cold
<1>4. w \in Tensors(model, p)  BY DEF p
<1>5. n <= Cardinality(B)  BY <1>1, <1>3, <1>4, TurnFacts
<1>6. s \in Seq(AllWeights(model)) /\ Len(s) <= n /\ n \in Nat /\ Distinct(s)
  BY KindKnown, LimitKnown DEF Stored, Turning, Apart
<1>7. ASSUME w \in Range(s) PROVE FALSE
  <2>1. \A v \in B : Behind(s, w, v)  BY <1>1, <1>4, <1>7 DEF Turning, InOrder
  <2>. HIDE DEF B, s, n
  <2>2. IsFiniteSet(B) /\ Cardinality(B) < Len(s)  BY <1>6, <1>7, <2>1, BehindIsShort
  <2>3. Cardinality(B) \in Nat /\ Len(s) \in Nat  BY <1>6, <2>2, FS_CardinalityType, SeqFacts
  <2>. QED  BY <1>5, <1>6, <2>2, <2>3
<1>. QED  BY <1>7

(* What a step reads of the source belongs to one of its layers.           *)
LEMMA NeedKnown ==
  ASSUME Counters, NEW b \in 1 .. Len(Program), NEW w \in Needs(Program[b]), ~ IsMade(w)
  PROVE  w[1] \in Layers(model) /\ w \in Tensors(model, w[1]) /\ b \in ReadAt(Program, w[1])
<1>1. w \in AllWeights(model)  BY ProgramKnown
<1>2. w[1] \in Layers(model)
  <2>1. DOMAIN Manifest[model] = {u[1] : u \in AllWeights(model)}  BY ManifestFacts DEF Counters
  <2>. QED  BY <1>1, <2>1 DEF Layers, IsMade
<1>3. w \in Tensors(model, w[1])  BY <1>1, <1>2, LayerFacts
<1>. QED  BY <1>2, <1>3 DEF ReadAt

LEMMA MeanwhileFacts ==
  ASSUME Counters, NEW i \in Nat \ {0}, NEW p, NEW k
  PROVE  /\ IsFiniteSet(Entering(model, Meanwhile(Program, i, p), k))
         /\ \A q \in Meanwhile(Program, i, p) : \A w \in Tensors(model, q) :
              Kind(model, w) = k \/ (k = "dense" /\ IsPermuted(w)) =>
                w \in Entering(model, Meanwhile(Program, i, p), k)
<1>. DEFINE M == Meanwhile(Program, i, p)
<1>1. \A q \in M : q \in Layers(model)
  <2>1. ASSUME NEW j \in i .. Len(Program) PROVE j \in 1 .. Len(Program)  BY ProgramLength
  <2>2. ASSUME NEW j \in i .. Len(Program), Program[j].op = "announce"
        PROVE  Program[j].prefix \in Layers(model)
    BY <2>1, <2>2, ProgramKnown
  <2>3. ASSUME NEW j \in i .. Len(Program), NEW w \in Needs(Program[j]), ~ IsMade(w)
        PROVE  w[1] \in Layers(model)
    BY <2>1, <2>3, NeedKnown
  <2>. QED  BY <2>2, <2>3 DEF Meanwhile
<1>. HIDE DEF M
<1>2. \A q \in M : Tensors(model, q) \subseteq AllWeights(model)  BY <1>1, LayerFacts
<1>3. Entering(model, M, k) \subseteq AllWeights(model)  BY <1>2 DEF Entering, TensorsOf
<1>4. IsFiniteSet(Entering(model, M, k))  BY <1>3, WeightsAreFinite, FS_Subset DEF Counters
<1>5. ASSUME NEW q \in M, NEW w \in Tensors(model, q), Kind(model, w) = k \/ (k = "dense" /\ IsPermuted(w))
      PROVE  w \in Entering(model, M, k)
  BY <1>5 DEF Entering, TensorsOf, IsPermuted, policy
<1>. QED  BY <1>4, <1>5 DEF M

(* Every read of a call before the first fault finds its weight.           *)
LEMMA EveryReadIsThere ==
  ASSUME Counters, Stored, WellTurned, Turning, Reading
  PROVE  /\ CanRead(Step.weights)
         /\ \A w \in Asked(Step.weights) :
              /\ ~ warm /\ w[1] \in Layers(model) /\ w \in Tensors(model, w[1])
              /\ w \in Needs(Program[at]) /\ ~ IsMade(w)
              /\ w \in Range(source[Kind(model, w)])
<1>0. status = "running"  BY DEF Reading, At
<1>1. at \in 1 .. Len(Program) /\ Step.weights = Needs(Program[at])  BY <1>0, StepKnown
<1>2. ASSUME NEW w \in Asked(Step.weights)
      PROVE  /\ ~ warm /\ w[1] \in Layers(model) /\ w \in Tensors(model, w[1])
             /\ w \in Needs(Program[at]) /\ ~ IsMade(w)
             /\ w \in Range(source[Kind(model, w)])
  <2>1. w \in Needs(Program[at]) /\ w \notin resident /\ ~ IsMade(w)  BY <1>1, <1>2 DEF Asked, Missing
  <2>2. ~ warm  BY <1>1, <2>1 DEF Turning, Filled
  <2>3. w[1] \in Layers(model) /\ w \in Tensors(model, w[1]) /\ at \in ReadAt(Program, w[1])
    BY <1>1, <2>1, NeedKnown
  <2>4. PICK j \in AnnouncedAt(Program, w[1]) : j < at  BY <2>3, TurnFacts
  <2>5. at <= at  BY DEF Counters
  <2>6. Young(source[Kind(model, w)], w, Passing(j, w[1], w))
    BY <1>0, <2>2, <2>3, <2>4, <2>5 DEF Turning, Pending, Cold
  <2>7. source[Kind(model, w)] \in Seq(AllWeights(model))  BY KindKnown DEF Stored
  <2>8. w \in Range(source[Kind(model, w)])  BY <2>6, <2>7, YoungIsHeld
  <2>. QED  BY <2>1, <2>2, <2>3, <2>8
<1>3. CanRead(Step.weights)  BY <1>2 DEF CanRead
<1>. QED  BY <1>2, <1>3

(* Nothing is in front of another that was not.                            *)
Carries ==
  \A p \in Layers(model) : \A w \in Tensors(model, p) : w \in Range(source'[Kind(model, w)]) =>
    /\ w \in Range(source[Kind(model, w)])
    /\ \A v : Behind(source[Kind(model, w)], w, v) => Behind(source'[Kind(model, w)], w, v)

(* What is still to be read is not dropped.                                *)
Spares ==
  \A p \in Layers(model) : \A i \in AnnouncedAt(Program, p) : \A w \in Tensors(model, p) :
    (/\ Cold /\ i < at /\ \E r \in ReadAt(Program, p) : at <= r
     /\ Young(source[Kind(model, w)], w, Passing(i, p, w)))
      => Young(source'[Kind(model, w)], w, Passing(i, p, w))

(* What stays in order when nothing is preloaded.                          *)
LEMMA OrderStays ==
  ASSUME InOrder, model' = model, Carries,
         \A p \in Layers(model) : Recent(p)' \subseteq Recent(p)
  PROVE  InOrder'
<1>1. /\ Layers(model') = Layers(model) /\ \A p : Tensors(model', p) = Tensors(model, p)
      /\ \A w : Kind(model', w) = Kind(model, w)
      /\ \A S, k : OfKind(model', S, k) = OfKind(model, S, k)
  OBVIOUS
<1>2. ASSUME NEW p \in Layers(model), NEW w \in Tensors(model, p), w \in Range(source'[Kind(model, w)]),
             NEW v \in OfKind(model, TensorsOf(model', Recent(p)'), Kind(model, w))
      PROVE  Behind(source'[Kind(model, w)], w, v)
  <2>1. /\ w \in Range(source[Kind(model, w)])
        /\ \A u : Behind(source[Kind(model, w)], w, u) => Behind(source'[Kind(model, w)], w, u)
    BY <1>2 DEF Carries
  <2>2. TensorsOf(model', Recent(p)') \subseteq TensorsOf(model, Recent(p))  BY <1>1, <1>2 DEF TensorsOf
  <2>3. v \in OfKind(model, TensorsOf(model, Recent(p)), Kind(model, w))  BY <1>2, <2>2 DEF OfKind
  <2>4. Behind(source[Kind(model, w)], w, v)  BY <1>2, <2>1, <2>3 DEF InOrder
  <2>. QED  BY <2>1, <2>4
<1>. QED  BY <1>1, <1>2 DEF InOrder

LEMMA CarriesAsItIs == ASSUME source' = source PROVE Carries /\ Spares
BY DEF Carries, Spares

(* A step that preloads nothing.                                           *)
LEMMA StepTurns ==
  ASSUME Counters, WellTurned, Turning, status = "running", Advance, warm' = warm,
         Apart(source'), Carries,
         Spares,
         At("announce") => warm, resident \subseteq resident',
         \A w \in Needs(Program[at]) : ~ IsMade(w) => w \in resident'
  PROVE  Turning'
<1>1. /\ model' = model /\ calls' = calls /\ status' = "running" /\ at' = at + 1
      /\ at \in 1 .. Len(Program) /\ at \in Nat /\ Len(Program) \in Nat
      /\ Program' = Program /\ Former' = Former /\ policy' = policy
  BY StepKnown DEF Advance, Program, Former, policy
<1>2. Cold' <=> Cold  BY <1>1 DEF Cold
<1>3. ASSUME Cold PROVE \A p : at \notin AnnouncedAt(Program, p)
  BY <1>3 DEF Cold, At, Step, AnnouncedAt
<1>4. InOrder'
  <2>1. ASSUME NEW p \in Layers(model) PROVE Recent(p)' \subseteq Recent(p)
    <3>1. CASE ~ Cold  BY <1>1, <1>2, <3>1 DEF Recent
    <3>2. CASE Cold
      <4>1. Program[at].op # "announce"  BY <3>2 DEF Cold, At, Step
      <4>2. Since(Program, at + 1, p) \subseteq Since(Program, at, p)  BY <1>1, <4>1, SinceNext
      <4>3. Said(p)' <=> Said(p)
        <5>1. \A b \in AnnouncedAt(Program, p) : b \in Nat /\ b # at  BY <1>3, <3>2 DEF AnnouncedAt
        <5>2. \A b \in AnnouncedAt(Program, p) : b < at + 1 <=> b < at  BY <1>1, <5>1
        <5>. QED  BY <1>1, <5>2 DEF Said
      <4>. QED  BY <1>1, <1>2, <3>2, <4>2, <4>3 DEF Recent
    <3>. QED  BY <3>1, <3>2
  <2>. QED  BY <1>1, <2>1, OrderStays DEF Turning
<1>5. Pending'
  <2>1. ASSUME Cold, NEW p \in Layers(model), NEW i \in AnnouncedAt(Program, p), i < at + 1,
               NEW r \in ReadAt(Program, p), at + 1 <= r, NEW w \in Tensors(model, p)
        PROVE  Young(source'[Kind(model, w)], w, Passing(i, p, w))
    <3>1. i # at /\ i \in Nat /\ r \in Nat  BY <1>3, <2>1 DEF AnnouncedAt, ReadAt
    <3>2. i < at /\ at <= r  BY <1>1, <2>1, <3>1
    <3>3. Young(source[Kind(model, w)], w, Passing(i, p, w))  BY <2>1, <3>2 DEF Turning, Pending
    <3>. QED  BY <2>1, <3>2, <3>3 DEF Spares
  <2>2. \A i, p, w : Passing(i, p, w)' = Passing(i, p, w)  BY <1>1 DEF Passing
  <2>. QED  BY <1>1, <1>2, <2>1, <2>2 DEF Pending
<1>6. Filled'  BY <1>1 DEF Turning, Filled
<1>7. ReadSoFar'
  <2>1. ASSUME NEW b \in 1 .. (at + 1) - 1, NEW w \in Needs(Program[b]), ~ IsMade(w) PROVE w \in resident'
    <3>1. CASE b = at  BY <2>1, <3>1
    <3>2. CASE b # at
      <4>1. b \in 1 .. at - 1  BY <1>1, <3>2
      <4>. QED  BY <2>1, <4>1 DEF Turning, ReadSoFar
    <3>. QED  BY <3>1, <3>2
  <2>. QED  BY <1>1, <2>1 DEF ReadSoFar
<1>8. Apart(source)' /\ status' # "failed"  BY <1>1 DEF Apart, Kinds
<1>. QED  BY <1>4, <1>5, <1>6, <1>7, <1>8 DEF Turning

(* What is read dense enters the cache of the dense tensors; the layers    *)
(* read meanwhile have been counted.                                       *)
LEMMA ReadTurns ==
  ASSUME Counters, Stored, WellTurned, Turning, RecordInto \/ Record \/ RecordAgain PROVE Turning'
<1>. DEFINE S == Asked(Step.weights)
            T == AllWeights(model)
            d == source["dense"]
            n == policy.limit["dense"]
<1>1. Reading /\ status = "running" /\ ~ At("announce") /\ policy.source = "fifo"
  BY DEF RecordInto, Record, RecordAgain, Reading, At, WellTurned
<1>2. CanRead(Step.weights)  BY <1>1, EveryReadIsThere
<1>3. HoldWeights /\ Advance  BY <1>2 DEF RecordInto, Record, RecordAgain
<1>4. /\ resident' = resident \cup Step.weights /\ source' = AfterRead(S) /\ warm' = warm
  BY <1>1, <1>3 DEF HoldWeights, Uploaded, ReadWeights
<1>5. /\ Step.weights = Needs(Program[at]) /\ at \in 1 .. Len(Program) /\ at \in Nat
      /\ Len(Program) \in Nat
  BY <1>1, StepKnown
<1>6. \A w \in S : /\ ~ warm /\ w[1] \in Layers(model) /\ w \in Tensors(model, w[1])
                   /\ w \in Needs(Program[at]) /\ ~ IsMade(w)
                   /\ w \in Range(source[Kind(model, w)])
  BY <1>1, EveryReadIsThere
<1>7. S \in SUBSET T /\ source \in [Kinds -> Seq(T)]  BY <1>1, AskedFacts DEF Stored
<1>8. d \in Seq(T) /\ n \in Nat /\ Distinct(d) /\ Distinct(source["packed"]) /\ Kinds = {"dense", "packed"}
  <2>1. "dense" \in Kinds /\ "packed" \in Kinds  BY DEF Kinds
  <2>2. n \in Nat  BY <2>1, LimitKnown
  <2>3. d \in Seq(T)  BY <1>7, <2>1
  <2>4. Apart(source)  BY DEF Turning
  <2>. QED  BY <2>1, <2>2, <2>3, <2>4 DEF Apart, Kinds
<1>. HIDE DEF S, T, d, n
<1>9. PICK t \in Seq(T) : /\ Distinct(t) /\ Range(t) = ReadWhole(S) \ Range(d)
                          /\ AfterRead(S)["dense"] = Added(d, ReadWhole(S), t, n)
  BY <1>7, AfterReadFacts DEF T, d, n
<1>. DEFINE u == source'["dense"]
<1>10. u = LastOf(d \o t, n)  BY <1>1, <1>4, <1>9 DEF Added, Touched
<1>11. source'["packed"] = source["packed"]  BY <1>4, <1>7, AfterReadFacts DEF T
<1>. HIDE DEF u
<1>12. /\ Distinct(u) /\ Range(u) \subseteq Range(d) \cup Range(t)
       /\ \A w \in Range(d) \cap Range(u) : \A v : Behind(d, w, v) \/ v \in Range(t) => Behind(u, w, v)
       /\ \A w, B : IsFiniteSet(B) /\ Cardinality(B) <= n /\ Range(t) \subseteq B
                     /\ (Young(d, w, B) \/ w \in Range(t)) => Young(u, w, B)
  <2>1. Range(d) \cap Range(t) = {}  BY <1>9
  <2>. QED  BY <1>8, <1>9, <1>10, <2>1, QueueFacts
<1>13. \A w \in Range(t) : Kind(model, w) # "dense"  BY <1>6, <1>9 DEF ReadWhole, d
<1>14. Apart(source')  BY <1>8, <1>11, <1>12 DEF Apart, u
<1>15. Carries
  <2>1. ASSUME NEW p \in Layers(model), NEW w \in Tensors(model, p), w \in Range(source'[Kind(model, w)])
        PROVE  /\ w \in Range(source[Kind(model, w)])
               /\ \A v : Behind(source[Kind(model, w)], w, v) => Behind(source'[Kind(model, w)], w, v)
    <3>1. CASE Kind(model, w) = "packed"  BY <1>11, <2>1, <3>1
    <3>2. CASE Kind(model, w) = "dense"
      <4>1. w \in Range(u) /\ w \notin Range(t)  BY <1>13, <2>1, <3>2 DEF u
      <4>2. w \in Range(d)  BY <1>12, <4>1
      <4>3. \A v : Behind(d, w, v) => Behind(u, w, v)  BY <1>12, <4>1, <4>2
      <4>. QED  BY <3>2, <4>2, <4>3 DEF d, u
    <3>. QED  BY <3>1, <3>2, KindKnown DEF Kinds
  <2>. QED  BY <2>1 DEF Carries
<1>16. ASSUME NEW p \in Layers(model), NEW i \in AnnouncedAt(Program, p), NEW w \in Tensors(model, p),
              Cold, i < at, NEW r \in ReadAt(Program, p), at <= r,
              Young(source[Kind(model, w)], w, Passing(i, p, w))
       PROVE  Young(source'[Kind(model, w)], w, Passing(i, p, w))
  <2>1. CASE Kind(model, w) = "packed"  BY <1>11, <1>16, <2>1
  <2>2. CASE Kind(model, w) = "dense"
    <3>. DEFINE M == Meanwhile(Program, i, p)
                B == Entering(model, M, "dense")
    <3>1. i \in 1 .. Len(Program) /\ i \in Nat \ {0} /\ r \in Nat  BY DEF AnnouncedAt, ReadAt
    <3>2. IsFiniteSet(B) /\ \A q \in M : \A v \in Tensors(model, q) :
                              Kind(model, v) = "dense" \/ IsPermuted(v) => v \in B
      BY <3>1, MeanwhileFacts
    <3>3. Cardinality(B) <= n  BY TurnFacts DEF n, Kinds
    <3>4. ASSUME NEW v \in S PROVE v[1] \in M
      <4>1. at \in i .. Len(Program) /\ at <= r  BY <1>5, <1>16, <3>1
      <4>2. v \in Needs(Program[at]) /\ ~ IsMade(v)  BY <1>6, <3>4
      <4>. QED  BY <4>1, <4>2 DEF Meanwhile
    <3>5. Range(t) \subseteq B  BY <1>6, <1>9, <3>2, <3>4 DEF ReadWhole
    <3>6. Young(d, w, B)  BY <1>16, <2>2 DEF Passing, d
    <3>. HIDE DEF B
    <3>7. Young(u, w, B)  BY <1>12, <3>2, <3>3, <3>5, <3>6
    <3>. QED  BY <2>2, <3>7 DEF B, Passing, u
  <2>. QED  BY <2>1, <2>2, KindKnown DEF Kinds
<1>17. Spares  BY <1>16 DEF Spares
<1>18. resident \subseteq resident' /\ \A w \in Needs(Program[at]) : ~ IsMade(w) => w \in resident'
  BY <1>4, <1>5
<1>. QED  BY <1>1, <1>3, <1>4, <1>14, <1>15, <1>17, <1>18, StepTurns

(* A step that leaves the source alone.                                    *)
LEMMA PlainTurns ==
  ASSUME Counters, WellTurned, Turning, status = "running", Advance, UNCHANGED <<source, resident, warm>>,
         At("announce") => warm, Needs(Program[at]) = {}
  PROVE  Turning'
<1>1. Apart(source') /\ Carries /\ Spares  BY CarriesAsItIs DEF Turning
<1>. QED  BY <1>1, StepTurns

LEMMA PassTurns ==
  ASSUME Counters, WellTurned, Turning,
         TakeBuffer \/ WriteFromHost \/ FixBuffer \/ NameTensor \/ RecycleBuffer \/ Submit \/ SubmitOne
  PROVE  Turning'
<1>1. /\ status = "running" /\ Advance /\ UNCHANGED <<source, resident, warm>>
      /\ At("take") \/ At("host") \/ At("fix") \/ At("name") \/ At("recycle") \/ At("flush") \/ At("await")
  BY DEF TakeBuffer, WriteFromHost, FixBuffer, NameTensor, RecycleBuffer, Submit, SubmitOne, At, weights
<1>2. ~ Reading /\ ~ At("announce")  BY <1>1 DEF Reading, At
<1>3. Needs(Program[at]) = {}  BY <1>1, <1>2, StepKnown
<1>. QED  BY <1>1, <1>2, <1>3, PlainTurns

(* What a layer brings to a cache when it is preloaded.                    *)
LEMMA FetchedOf ==
  ASSUME Counters, Stored, NEW p \in DOMAIN Manifest[model], NEW k \in Kinds, NEW lost
  PROVE  /\ Preloaded(p, lost)[k] = Added(source[k], OfKind(model, Tensors(model, p), k),
                                          Fetched(p, k, lost), policy.limit[k])
         /\ Fetched(p, k, lost) \in Seq(AllWeights(model)) /\ Distinct(Fetched(p, k, lost))
         /\ Range(Fetched(p, k, lost)) =
              (OfKind(model, Tensors(model, p), k) \ Range(source[k])) \cap (Tensors(model, p) \ lost)
<1>1. source \in [Kinds -> Seq(AllWeights(model))]  BY DEF Stored
<1>2. Preloaded(p, lost)[k] = Added(source[k], OfKind(model, Tensors(model, p), k),
                                    Fetched(p, k, lost), policy.limit[k])
  BY <1>1, PreloadedFacts
<1>3. Fetched(p, k, lost) \in Seq(AllWeights(model))  BY <1>1, PreloadedFacts
<1>4. Distinct(Fetched(p, k, lost))  BY <1>1, PreloadedFacts
<1>5. Range(Fetched(p, k, lost)) =
           (OfKind(model, Tensors(model, p), k) \ Range(source[k])) \cap (Tensors(model, p) \ lost)
  BY <1>1, PreloadedFacts
<1>. QED  BY <1>2, <1>3, <1>4, <1>5

LEMMA PreloadTurns ==
  ASSUME Counters, Stored, WellTurned, Turning, Preload PROVE Turning'
<1>. DEFINE q == Step.prefix
<1>0. At("announce") /\ status = "running" /\ policy.source = "fifo"  BY DEF Preload, At, WellTurned
<1>1. /\ Advance /\ UNCHANGED <<resident, warm>>
      /\ source' = IF warm THEN source ELSE Preloaded(q, {})
  BY <1>0 DEF Preload, Skips
<1>2. Needs(Program[at]) = {}
  <2>1. ~ Reading  BY <1>0 DEF Reading, At
  <2>. QED  BY <1>0, <2>1, StepKnown
<1>3. CASE warm  BY <1>0, <1>1, <1>2, <1>3, PlainTurns
<1>4. CASE ~ warm
  <2>1. /\ q \in Layers(model) /\ q \in DOMAIN Manifest[model] /\ at \in AnnouncedAt(Program, q)
        /\ at \in 1 .. Len(Program) /\ at \in Nat /\ Len(Program) \in Nat
    BY <1>0, StepKnown, LayerFacts
  <2>2. \A w \in Tensors(model, q) : w \notin Range(source[Kind(model, w)])  BY <1>0, <1>4, AnnouncedAnew
  <2>. DEFINE t(k) == Fetched(q, k, {})
              s(k) == source[k]
              u(k) == source'[k]
  <2>3. ASSUME NEW k \in Kinds
        PROVE  /\ Range(t(k)) = OfKind(model, Tensors(model, q), k)
               /\ Distinct(u(k)) /\ Range(u(k)) \subseteq Range(s(k)) \cup Range(t(k))
               /\ \A w \in Range(s(k)) \cap Range(u(k)) : \A v :
                    Behind(s(k), w, v) \/ v \in Range(t(k)) => Behind(u(k), w, v)
               /\ \A w, B : IsFiniteSet(B) /\ Cardinality(B) <= policy.limit[k] /\ Range(t(k)) \subseteq B
                            /\ (Young(s(k), w, B) \/ w \in Range(t(k))) => Young(u(k), w, B)
    <3>1. source \in [Kinds -> Seq(AllWeights(model))]  BY DEF Stored
    <3>2. /\ Preloaded(q, {})[k] = Added(s(k), OfKind(model, Tensors(model, q), k), t(k), policy.limit[k])
          /\ t(k) \in Seq(AllWeights(model)) /\ Distinct(t(k))
          /\ Range(t(k)) = (OfKind(model, Tensors(model, q), k) \ Range(s(k))) \cap (Tensors(model, q) \ {})
      <4>1. q \in DOMAIN Manifest[model]  BY <2>1
      <4>2. \A lost : /\ Preloaded(q, lost)[k] = Added(source[k], OfKind(model, Tensors(model, q), k),
                                                      Fetched(q, k, lost), policy.limit[k])
                      /\ Fetched(q, k, lost) \in Seq(AllWeights(model)) /\ Distinct(Fetched(q, k, lost))
                      /\ Range(Fetched(q, k, lost)) =
                           (OfKind(model, Tensors(model, q), k) \ Range(source[k])) \cap (Tensors(model, q) \ lost)
        <5>. HIDE DEF q
        <5>. QED  BY <4>1, FetchedOf
      <4>. QED  BY <4>2, Zenon
    <3>3. s(k) \in Seq(AllWeights(model)) /\ Distinct(s(k)) /\ policy.limit[k] \in Nat
      BY <3>1, LimitKnown DEF Turning, Apart
    <3>4. source' = Preloaded(q, {})  BY <1>1, <1>4
    <3>5. u(k) = LastOf(s(k) \o t(k), policy.limit[k])  BY <1>0, <3>2, <3>4 DEF Added, Touched
    <3>. HIDE DEF t, s, u, q
    <3>6. OfKind(model, Tensors(model, q), k) \cap Range(s(k)) = {}  BY <2>2 DEF OfKind, s
    <3>7. Range(t(k)) = OfKind(model, Tensors(model, q), k)  BY <3>2, <3>6 DEF OfKind
    <3>8. Range(s(k)) \cap Range(t(k)) = {}  BY <3>6, <3>7
    <3>. QED  BY <3>2, <3>3, <3>5, <3>7, <3>8, QueueFacts
  <2>. HIDE DEF q, t, s, u
  <2>10. Apart(source')  BY <2>3 DEF Apart, u
  <2>11. /\ model' = model /\ calls' = calls /\ status' = "running" /\ at' = at + 1
         /\ Program' = Program /\ Former' = Former /\ policy' = policy /\ Cold /\ Cold'
    BY <1>0, <1>1, <1>4 DEF Advance, Program, Former, policy, Cold
  <2>12. InOrder'
    <3>1. ASSUME NEW p \in Layers(model), NEW w \in Tensors(model, p), w \in Range(source'[Kind(model, w)]),
                 NEW v \in OfKind(model, TensorsOf(model, Recent(p)'), Kind(model, w))
          PROVE  Behind(source'[Kind(model, w)], w, v)
      <4>. DEFINE k == Kind(model, w)
      <4>0. k \in Kinds  BY KindKnown
      <4>1. at \notin AnnouncedAt(Program, p)
        <5>1. SUFFICES ASSUME at \in AnnouncedAt(Program, p) PROVE Recent(p)' = {}
          BY <3>1 DEF TensorsOf, OfKind
        <5>2. Said(p)'  BY <2>1, <2>11, <5>1 DEF Said
        <5>3. Since(Program, at + 1, p) = {}  BY <2>1, <5>1, SinceNext
        <5>. QED  BY <2>11, <5>2, <5>3 DEF Recent
      <4>2. Program[at].op = "announce" /\ Program[at].prefix = q  BY <2>1 DEF AnnouncedAt
      <4>3. p # q  BY <2>1, <4>1
      <4>4. w \in Range(s(k)) /\ w \in Range(u(k))
        <5>1. w \notin Tensors(model, q)  BY <2>1, <3>1, <4>3, LayersShareNone
        <5>. QED  BY <2>3, <3>1, <4>0, <5>1 DEF OfKind, u
      <4>5. Said(p)' <=> Said(p)
        <5>1. \A b \in AnnouncedAt(Program, p) : b \in Nat /\ b # at  BY <4>1 DEF AnnouncedAt
        <5>2. \A b \in AnnouncedAt(Program, p) : b < at + 1 <=> b < at  BY <2>1, <5>1
        <5>. QED  BY <2>11, <5>2 DEF Said
      <4>6. \A r \in Since(Program, at + 1, p) : r \in Since(Program, at, p) \/ r = q
        BY <2>1, <4>2, SinceNext
      <4>7. \A r \in Recent(p)' : r \in Recent(p) \/ r = q
        BY <2>11, <4>5, <4>6 DEF Recent
      <4>8. v \in OfKind(model, TensorsOf(model, Recent(p)), k) \/ v \in OfKind(model, Tensors(model, q), k)
        BY <3>1, <4>7 DEF TensorsOf, OfKind
      <4>9. Behind(s(k), w, v) \/ v \in Range(t(k))
        BY <2>3, <3>1, <4>0, <4>4, <4>8 DEF Turning, InOrder, s
      <4>10. Behind(u(k), w, v)  BY <2>3, <4>0, <4>4, <4>9
      <4>. QED  BY <4>10 DEF u
    <3>2. /\ Layers(model') = Layers(model) /\ \A p : Tensors(model', p) = Tensors(model, p)
          /\ \A w : Kind(model', w) = Kind(model, w)
          /\ \A S, k : OfKind(model', S, k) = OfKind(model, S, k)
          /\ \A S : TensorsOf(model', S) = TensorsOf(model, S)
      BY <2>11
    <3>. QED  BY <3>1, <3>2 DEF InOrder
  <2>13. Pending'
    <3>1. ASSUME NEW p \in Layers(model), NEW i \in AnnouncedAt(Program, p), i < at + 1,
                 NEW r \in ReadAt(Program, p), at + 1 <= r, NEW w \in Tensors(model, p)
          PROVE  Young(source'[Kind(model, w)], w, Passing(i, p, w))
      <4>. DEFINE k == Kind(model, w)
                  B == Passing(i, p, w)
      <4>0. k \in Kinds  BY KindKnown
      <4>1. i \in 1 .. Len(Program) /\ i \in Nat \ {0} /\ r \in Nat  BY DEF AnnouncedAt, ReadAt
      <4>2. IsFiniteSet(B) /\ \A x \in Meanwhile(Program, i, p) : \A v \in Tensors(model, x) :
                                Kind(model, v) = k => v \in B
        BY <4>1, MeanwhileFacts DEF Passing
      <4>3. Cardinality(B) <= policy.limit[k]  BY <4>0, TurnFacts DEF Passing
      <4>4. q \in Meanwhile(Program, i, p)
        <5>1. at \in i .. Len(Program) /\ at <= r  BY <2>1, <3>1, <4>1
        <5>2. Program[at].op = "announce" /\ Program[at].prefix = q  BY <2>1 DEF AnnouncedAt
        <5>. QED  BY <5>1, <5>2 DEF Meanwhile
      <4>5. Range(t(k)) \subseteq B  BY <2>3, <4>0, <4>2, <4>4 DEF OfKind
      <4>6. Young(s(k), w, B) \/ w \in Range(t(k))
        <5>1. CASE i < at
          <6>1. at <= r  BY <2>1, <3>1, <4>1
          <6>. QED  BY <2>11, <3>1, <5>1, <6>1 DEF Turning, Pending, s
        <5>2. CASE i = at
          <6>1. p = q  BY <2>1, <5>2 DEF AnnouncedAt
          <6>. QED  BY <2>3, <3>1, <4>0, <6>1 DEF OfKind
        <5>. QED  BY <2>1, <3>1, <4>1, <5>1, <5>2
      <4>. HIDE DEF B, k
      <4>7. Young(u(k), w, B)  BY <2>3, <4>0, <4>2, <4>3, <4>5, <4>6
      <4>. QED  BY <4>7 DEF B, k, u
    <3>2. \A i, p, w : Passing(i, p, w)' = Passing(i, p, w)  BY <2>11 DEF Passing
    <3>. QED  BY <2>11, <3>1, <3>2 DEF Pending
  <2>14. Filled'  BY <1>1, <1>4 DEF Filled
  <2>15. ReadSoFar'
    <3>1. ASSUME NEW b \in 1 .. (at + 1) - 1, NEW w \in Needs(Program[b]), ~ IsMade(w) PROVE w \in resident
      <4>1. b # at  BY <1>2, <3>1
      <4>2. b \in 1 .. at - 1  BY <2>1, <4>1
      <4>. QED  BY <1>0, <3>1, <4>2 DEF Turning, ReadSoFar
    <3>. QED  BY <1>1, <2>11, <3>1 DEF ReadSoFar
  <2>. QED  BY <2>10, <2>11, <2>12, <2>13, <2>14, <2>15 DEF Turning
<1>. QED  BY <1>3, <1>4

LEMMA CallTurns ==
  ASSUME Counters, WellTurned, Turning, Call PROVE Turning'
<1>1. /\ status # "running" /\ status' = "running" /\ at' = 1 /\ calls' = calls + 1
      /\ UNCHANGED <<model, source, resident, warm>>
  BY DEF Call, weights
<1>2. policy' = policy /\ ~ Cold  BY <1>1 DEF policy, Cold
<1>3. Former' = Program
  <2>1. (calls + 1) - 2 = calls - 1  BY DEF Counters
  <2>. QED  BY <1>1, <2>1 DEF Former, Program
<1>4. ASSUME warm PROVE Program' = Program
  <2>1. Len(Forward[model]) = 1  BY <1>4 DEF Turning, Filled, WellTurned, TurnsOver, policy
  <2>2. ((calls - 1) % 1) + 1 = 1 /\ (((calls + 1) - 1) % 1) + 1 = 1  BY DEF Counters
  <2>. QED  BY <1>1, <2>1, <2>2 DEF Program
<1>5. ASSUME NEW p \in Layers(model) PROVE Recent(p)' \subseteq Recent(p)
  <2>1. Recent(p) = Since(Program, Len(Program) + 1, p)  BY <1>2 DEF Recent
  <2>2. CASE warm
    <3>1. ~ Cold'  BY <1>1, <2>2 DEF Cold
    <3>. QED  BY <1>4, <2>1, <2>2, <3>1 DEF Recent
  <2>3. CASE ~ warm
    <3>1. 1 .. 1 - 1 = {}  OBVIOUS
    <3>2. Since(Program', 1, p) = {}  BY <3>1 DEF Since
    <3>3. Cold'  BY <1>1, <2>3 DEF Cold
    <3>. QED  BY <1>1, <1>3, <2>1, <3>2, <3>3 DEF Recent
  <2>. QED  BY <2>2, <2>3
<1>6. InOrder'  BY <1>1, <1>5, CarriesAsItIs, OrderStays DEF Turning
<1>7. Pending'
  <2>1. \A p : \A i \in AnnouncedAt(Program', p) : ~ (i < 1)  BY DEF AnnouncedAt
  <2>. QED  BY <1>1, <2>1 DEF Pending
<1>8. Filled'  BY <1>1, <1>2, <1>4 DEF Turning, Filled
<1>9. ReadSoFar'
  <2>1. 1 .. at' - 1 = {}  BY <1>1
  <2>. QED  BY <2>1 DEF ReadSoFar
<1>10. Apart(source)' /\ status' # "failed"  BY <1>1 DEF Turning, Apart
<1>. QED  BY <1>6, <1>7, <1>8, <1>9, <1>10 DEF Turning

(* A step outside a call, or to its end, that leaves the source alone.     *)
LEMMA EndTurns ==
  ASSUME Counters, Turning, UNCHANGED <<model, calls, source>>, status' \notin {"running", "failed"}, Filled',
         \A p \in Layers(model) : Since(Program, Len(Program) + 1, p) \subseteq Recent(p)
  PROVE  Turning'
<1>1. Program' = Program /\ ~ Cold'  BY DEF Program, Cold
<1>2. \A p : Recent(p)' = Since(Program, Len(Program) + 1, p)  BY <1>1 DEF Recent
<1>3. InOrder'  BY <1>2, CarriesAsItIs, OrderStays DEF Turning
<1>4. Pending' /\ ReadSoFar'  BY <1>1 DEF Pending, ReadSoFar
<1>5. Apart(source)'  BY DEF Turning, Apart
<1>. QED  BY <1>3, <1>4, <1>5 DEF Turning

LEMMA FinishTurns ==
  ASSUME Counters, WellTurned, Follows, Turning, Finish PROVE Turning'
<1>1. /\ status = "running" /\ At("readback") /\ status' = "done" /\ UNCHANGED <<model, calls, source>>
      /\ warm' = (policy.held # "call") /\ resident' = IF policy.held = "call" THEN {} ELSE resident
  BY DEF Finish, At
<1>2. at = Len(Program) /\ at \in 1 .. Len(Program) /\ Len(Program) \in Nat /\ Step = Program[at]
  BY <1>1, StepKnown DEF Follows, At
<1>3. ~ Reading /\ ~ At("announce")  BY <1>1 DEF Reading, At
<1>4. Needs(Program[at]) = {}  BY <1>1, <1>3, StepKnown
<1>5. ASSUME NEW p \in Layers(model) PROVE Since(Program, Len(Program) + 1, p) \subseteq Recent(p)
  <2>1. CASE ~ Cold  BY <2>1 DEF Recent
  <2>2. CASE Cold
    <3>1. Program[at].op # "announce"  BY <1>1, <1>2, <1>3 DEF At
    <3>2. Since(Program, at + 1, p) \subseteq Since(Program, at, p)  BY <1>2, <3>1, SinceNext
    <3>. QED  BY <1>2, <2>2, <3>2 DEF Recent
  <2>. QED  BY <2>1, <2>2
<1>6. Filled'
  <2>1. SUFFICES ASSUME policy.held # "call"
                 PROVE  \A b \in 1 .. Len(Program) : \A w \in Needs(Program[b]) : ~ IsMade(w) => w \in resident
    BY <1>1 DEF Filled, Program, policy
  <2>2. ASSUME NEW b \in 1 .. Len(Program), NEW w \in Needs(Program[b]), ~ IsMade(w) PROVE w \in resident
    <3>1. b # at  BY <1>4, <2>2
    <3>2. b \in 1 .. at - 1  BY <1>2, <3>1
    <3>. QED  BY <1>1, <2>2, <3>2 DEF Turning, ReadSoFar
  <2>. QED  BY <2>2
<1>. QED  BY <1>1, <1>5, <1>6, EndTurns

LEMMA TurningNext ==
  ASSUME Counters, Stored, Begins, WellTurned, Follows, Turning, [Next]_vars, faults' = 0
  PROVE  Turning'
<1>1. CASE Call  BY <1>1, CallTurns
<1>2. CASE TakeBuffer \/ WriteFromHost \/ FixBuffer \/ NameTensor \/ RecycleBuffer \/ Submit \/ SubmitOne
  BY <1>2, PassTurns
<1>3. CASE RecordInto \/ Record \/ RecordAgain  BY <1>3, ReadTurns
<1>4. CASE Preload  BY <1>4, PreloadTurns
<1>5. CASE Finish  BY <1>5, FinishTurns
<1>6. CASE RecordFails \/ PreloadFails \/ SubmitFails
  <2>1. faults' = faults + 1  BY <1>6 DEF RecordFails, PreloadFails, SubmitFails, Strike
  <2>. QED  BY <2>1 DEF Begins
<1>7. CASE ReleaseWeights
  <2>1. /\ status = "done" /\ status' = "done" /\ UNCHANGED <<model, calls, source>> /\ warm' = FALSE
    BY <1>7 DEF ReleaseWeights
  <2>2. Filled'  BY <2>1 DEF Filled
  <2>3. \A p : Recent(p) = Since(Program, Len(Program) + 1, p)  BY <2>1 DEF Recent, Cold
  <2>. QED  BY <2>1, <2>2, <2>3, EndTurns
<1>8. CASE Over \/ UNCHANGED vars
  <2>1. UNCHANGED <<model, calls, at, status, resident, warm, source>>  BY <1>8 DEF Over, vars, weights
  <2>2. Program' = Program /\ Former' = Former /\ policy' = policy  BY <2>1 DEF Program, Former, policy
  <2>3. \A p : Recent(p)' = Recent(p)  BY <2>1, <2>2 DEF Recent, Cold, Said
  <2>4. InOrder'  BY <2>1, <2>3, CarriesAsItIs, OrderStays DEF Turning
  <2>5. Pending'
    <3>1. \A i, p, w : Passing(i, p, w)' = Passing(i, p, w)  BY <2>1, <2>2 DEF Passing
    <3>. QED  BY <2>1, <2>2, <3>1 DEF Turning, Pending, Cold
  <2>6. Filled' /\ ReadSoFar'  BY <2>1, <2>2 DEF Turning, Filled, ReadSoFar
  <2>7. Apart(source)'  BY <2>1 DEF Turning, Apart
  <2>. QED  BY <2>1, <2>4, <2>5, <2>6, <2>7 DEF Turning
<1>. QED  BY <1>1, <1>2, <1>3, <1>4, <1>5, <1>6, <1>7, <1>8 DEF Next

(* No call rejects before the device or the network has failed: neither    *)
(* with a source that counts uses nor with that of anima-web, which drops  *)
(* the weights it was given first even while they are read.  There it is   *)
(* the order of the announcements that keeps what is still to be read: by  *)
(* the time a layer is announced again it has been dropped whole, so that  *)
(* it arrives behind all the others.                                       *)
THEOREM FailuresNeedAFault ==
  ASSUME \A m \in Model : WellPreloaded(m), \A m \in Model : TurnsOver(m)
  PROVE  Spec /\ []Follows => []FailsOnlyAfterFault
<1>. DEFINE Turned == policy.source = "fifo" /\ faults = 0 => Turning
            Inv == Stored /\ Begins /\ Turned
<1>1. Init => Inv
  <2>. SUFFICES ASSUME Init PROVE Inv
    OBVIOUS
  <2>1. Counters  BY FInvInit DEF FInv
  <2>2. Stored /\ \A k \in Kinds : Distinct(source[k])  BY <2>1, OpenedStored DEF Init
  <2>5. Begins  BY DEF Init, Begins
  <2>6. status = "idle" /\ ~ warm  BY DEF Init
  <2>7. Apart(source)  BY <2>2 DEF Apart
  <2>. SUFFICES ASSUME policy.source = "fifo" PROVE Turning
    BY <2>2, <2>5
  <2>8. InOrder
    <3>1. \A k \in Kinds : source[k] = <<>>  BY DEF Init, Opened
    <3>2. Range(<<>>) = {}  BY DEF Range
    <3>. QED  BY <3>1, <3>2, KindKnown DEF InOrder
  <2>9. Pending /\ Filled /\ ReadSoFar  BY <2>6 DEF Pending, Filled, ReadSoFar, Cold
  <2>. QED  BY <2>6, <2>7, <2>8, <2>9 DEF Turning
<1>2. FInv /\ Inv /\ Follows /\ [Next]_vars => Inv'
  <2>. SUFFICES ASSUME FInv, Inv, Follows, [Next]_vars PROVE Inv'
    OBVIOUS
  <2>1. Counters /\ TurnsOver(model)  BY DEF FInv, Counters
  <2>2. Stored'  BY <2>1, StoredNext
  <2>3. Begins' /\ (faults' = 0 => faults = 0)  BY <2>1, BeginsNext
  <2>4. policy' = policy  BY <2>1, SourceNext DEF policy
  <2>5. ASSUME policy'.source = "fifo", faults' = 0 PROVE Turning'
    <3>1. Turning /\ WellTurned  BY <2>1, <2>3, <2>4, <2>5 DEF WellTurned
    <3>. QED  BY <2>1, <2>5, <3>1, TurningNext
  <2>. QED  BY <2>2, <2>3, <2>5
<1>3. Inv /\ FailsOnlyWhenStruck => FailsOnlyAfterFault
  BY DEF Turning, Begins, FailsOnlyWhenStruck, FailsOnlyAfterFault
<1>4. Spec /\ []Follows => []FailsOnlyWhenStruck  BY FailuresAreFaults
<1>. HIDE DEF Inv
<1>. QED  BY <1>1, <1>2, <1>3, <1>4, FInvAlways, PTL DEF Spec
=============================================================================
