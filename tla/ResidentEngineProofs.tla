------------------------ MODULE ResidentEngineProofs ------------------------
(***************************************************************************)
(* Theorems about ResidentEngine, for any vocabulary, cache size, number   *)
(* of lm_head chunks and number of faults.                                 *)
(***************************************************************************)
EXTENDS ResidentEngine, SequenceTheorems, TLAPS

-----------------------------------------------------------------------------
(* What holds with resets at any time *)

(* Call c belongs to the generation that is going on.                      *)
Current(c) == InFlight(c) /\ ~ call[c].stale

(* A prompt prefill accepts, or one token that fits.                       *)
Sized(fw) ==
  IF fw.at = 0 THEN Len(fw.tokens) \in 1 .. MaxPrompt
               ELSE Len(fw.tokens) = 1 /\ fw.at < MaxSeqLen

(* No two calls of the generation are in flight, and the position has not  *)
(* moved since the one that is began.                                      *)
CallsInv ==
  /\ \A c \in Call : InFlight(c) => Sized(call[c])
  /\ \A c \in Call : Current(c) => call[c].at = tokensSoFar
  /\ \A c, d \in Call : Current(c) /\ Current(d) => c = d

QueueInv == \A c \in Call : call[c].pc = "bind" => \E i \in 1 .. Len(binding) : binding[i] = c

TypeInv == TypeOK /\ CallsInv /\ QueueInv

-----------------------------------------------------------------------------
(* Inputs and calls *)

(* What forward may be called with is a short sequence of tokens.          *)
LEMMA InputIsShort == \A t \in Input : t \in Seq(Token) /\ Len(t) \in 0 .. MaxSeqLen + 1
<1>1. SUFFICES ASSUME NEW t \in Input PROVE t \in Seq(Token) /\ Len(t) \in 0 .. MaxSeqLen + 1
  OBVIOUS
<1>2. PICK n \in 0 .. MaxSeqLen + 1 : t \in [1 .. n -> Token]
  BY DEF Input
<1>3. n \in Nat
  BY EngineAssumption
<1>. QED  BY <1>2, <1>3

(* A decode step's token is such an input, and no token is.                *)
LEMMA ShortInputs == <<>> \in Input /\ \A t \in Token : <<t>> \in Input
<1>1. 0 \in 0 .. MaxSeqLen + 1 /\ 1 \in 0 .. MaxSeqLen + 1
  BY EngineAssumption
<1>2. <<>> \in [1 .. 0 -> Token]
  OBVIOUS
<1>3. \A t \in Token : <<t>> \in [1 .. 1 -> Token]
  OBVIOUS
<1>. QED  BY <1>1, <1>2, <1>3 DEF Input

(* A call that has not begun, failed or resolved is well formed.           *)
LEMMA SettledForms ==
  /\ Idle \in Forward /\ Failed \in Forward
  /\ \A fw \in Forward : Done(fw) \in Forward
<1>1. 1 \in Chunk /\ 0 \in 0 .. MaxSeqLen
  BY EngineAssumption DEF Chunk
<1>2. NoLogits \in [Chunk -> Context] /\ <<>> \in Context
  BY DEF NoLogits, Context
<1>3. Idle \in Forward
  BY <1>1, <1>2, ShortInputs DEF Idle, Forward
<1>4. Failed \in Forward
  BY <1>3 DEF Failed, Idle, Forward
<1>5. \A fw \in Forward : Done(fw) \in Forward
  BY <1>3 DEF Done, Idle, Forward
<1>. QED  BY <1>3, <1>4, <1>5

(* A step of call c leaves the others in flight alone.                     *)
LEMMA Others ==
  ASSUME NEW c \in Call, NEW fw, Become(c, fw)
  PROVE  /\ call' = [d \in Call |-> call'[d]]
         /\ call'[c] = fw
         /\ \A d \in Call : d # c => call'[d] = IF InFlight(d) THEN call[d] ELSE Idle
         /\ \A d \in Call : d # c => (InFlight(d)' <=> InFlight(d))
<1>1. /\ call' = [d \in Call |-> call'[d]]
      /\ call'[c] = fw
      /\ \A d \in Call : d # c => call'[d] = IF InFlight(d) THEN call[d] ELSE Idle
  BY DEF Become
<1>2. Idle.pc \notin InFlightPhase
  BY DEF Idle, InFlightPhase
<1>. QED  BY <1>1, <1>2 DEF InFlight

(* What the calls owe to TypeInv, when c moves to fw: an fw in flight was  *)
(* current before if it is now, or it begins and nothing current is left.  *)
LEMMA CallsStep ==
  ASSUME NEW c \in Call, NEW fw \in Forward, call \in [Call -> Forward], CallsInv,
         Become(c, fw),
         fw.pc \in InFlightPhase => Sized(fw) /\ (~ fw.stale => fw.at = tokensSoFar),
         (fw.pc \in InFlightPhase /\ ~ fw.stale) => (Current(c) \/ MayBegin(c)),
         UNCHANGED tokensSoFar \/ (Current(c) /\ fw.pc \notin InFlightPhase)
  PROVE  call' \in [Call -> Forward] /\ CallsInv'
<1>1. call' \in [Call -> Forward]
  BY Others, SettledForms
<1>2. \A d \in Call \ {c} : InFlight(d)' => InFlight(d) /\ call'[d] = call[d]
  BY Others
<1>3. InFlight(c)' <=> fw.pc \in InFlightPhase
  BY Others DEF InFlight
<1>4. \A d \in Call : InFlight(d)' => Sized(call'[d])
  BY <1>2, <1>3, Others DEF CallsInv
<1>5. \A d \in Call \ {c} : Current(d)' => Current(d) /\ call'[d] = call[d]
  BY <1>2 DEF Current
<1>6. Current(c)' => fw.pc \in InFlightPhase /\ ~ fw.stale
  BY <1>3, Others DEF Current
<1>7. ASSUME NEW d \in Call, Current(d)' PROVE call'[d].at = tokensSoFar'
  <2>1. CASE d = c
    BY <2>1, <1>6, <1>7, Others
  <2>2. CASE d # c
    BY <2>2, <1>5, <1>7 DEF CallsInv
  <2>. QED  BY <2>1, <2>2
<1>8. ASSUME NEW d \in Call \ {c}, Current(c)', Current(d)' PROVE FALSE
  <2>1. Current(d)
    BY <1>8, <1>5
  <2>2. CASE Current(c)
    BY <2>1, <2>2 DEF CallsInv
  <2>3. CASE MayBegin(c)
    BY <2>1, <2>3 DEF MayBegin, Current
  <2>. QED  BY <1>8, <1>6, <2>2, <2>3
<1>9. \A d, e \in Call : Current(d)' /\ Current(e)' => d = e
  BY <1>5, <1>8 DEF CallsInv
<1>. QED  BY <1>1, <1>4, <1>7, <1>9 DEF CallsInv

(* The queue of binding calls, when c leaves the phase or was not in it.   *)
LEMMA QueueStep ==
  ASSUME NEW c \in Call, NEW fw, QueueInv, Become(c, fw), UNCHANGED binding,
         fw.pc # "bind"
  PROVE  QueueInv'
<1>1. ASSUME NEW d \in Call, call'[d].pc = "bind" PROVE d # c /\ call[d].pc = "bind"
  <2>1. d # c
    BY <1>1, Others
  <2>. QED  BY <2>1, <1>1, Others DEF Idle
<1>. QED  BY <1>1 DEF QueueInv

(* A submission leaves well-formed staging buffers and maps.               *)
LEMMA MapTypes ==
  ASSUME NEW c \in Call, NEW fw \in Forward, NEW i \in Chunk,
         NEW m \in [Chunk -> Call \cup {NoCall}], Map(c, fw, i, m)
  PROVE  /\ mapping' \in [Chunk -> Call \cup {NoCall}]
         /\ \/ Become(c, [fw EXCEPT !.pc = "map", !.chunk = i])
            \/ Become(c, Failed)
BY DEF Map

LEMMA SubmitTypes ==
  ASSUME NEW c \in Call, NEW fw \in Forward, NEW logits \in Context, TypeOK,
         Submit(c, fw, logits)
  PROVE  /\ staging' \in [Chunk -> Context]
         /\ mapping' \in [Chunk -> Call \cup {NoCall}]
         /\ \/ Become(c, [fw EXCEPT !.pc = "map", !.chunk = 1])
            \/ Become(c, [fw EXCEPT !.pc = "submitted"])
            \/ Become(c, Failed)
<1>1. 1 \in Chunk
  BY EngineAssumption DEF Chunk
<1>2. staging' \in [Chunk -> Context]
  BY DEF Submit, TypeOK
<1>3. CASE Map(c, fw, 1, mapping)
  BY <1>1, <1>2, <1>3, MapTypes DEF TypeOK
<1>4. CASE Become(c, [fw EXCEPT !.pc = "submitted"]) /\ UNCHANGED mapping
  BY <1>2, <1>4 DEF TypeOK
<1>. QED  BY <1>3, <1>4 DEF Submit

(* A call that goes on to another phase stays what it is.                  *)
LEMMA Phases ==
  ASSUME NEW fw \in Forward, NEW i \in Chunk
  PROVE  /\ [fw EXCEPT !.pc = "map", !.chunk = i] \in Forward
         /\ [fw EXCEPT !.pc = "submitted"] \in Forward
         /\ Failed \in Forward /\ Failed.pc = "failed"
         /\ LET g == [fw EXCEPT !.pc = "map", !.chunk = i]
            IN  g.pc = "map" /\ g.stale = fw.stale /\ g.at = fw.at /\ g.tokens = fw.tokens
         /\ LET g == [fw EXCEPT !.pc = "submitted"]
            IN  g.pc = "submitted" /\ g.stale = fw.stale /\ g.at = fw.at /\ g.tokens = fw.tokens
BY SettledForms DEF Forward, InFlightPhase, Failed, Idle

(* ... so that any of them may take the place of a current call.           *)
LEMMA CallGoesOn ==
  ASSUME NEW c \in Call, NEW fw \in Forward, NEW i \in Chunk, TypeInv,
         Sized(fw), ~ fw.stale => fw.at = tokensSoFar,
         ~ fw.stale => (Current(c) \/ MayBegin(c)),
         UNCHANGED tokensSoFar,
         \/ Become(c, [fw EXCEPT !.pc = "map", !.chunk = i])
         \/ Become(c, [fw EXCEPT !.pc = "submitted"])
         \/ Become(c, Failed)
  PROVE  call' \in [Call -> Forward] /\ CallsInv'
<1>1. PICK g \in Forward : Become(c, g) /\ (g = Failed \/ (g.stale = fw.stale /\ g.at = fw.at /\ g.tokens = fw.tokens))
  <2>1. CASE Become(c, [fw EXCEPT !.pc = "map", !.chunk = i])
    <3> DEFINE g == [fw EXCEPT !.pc = "map", !.chunk = i]
    <3>1. g \in Forward /\ g.stale = fw.stale /\ g.at = fw.at /\ g.tokens = fw.tokens
      BY Phases
    <3>. QED  BY <2>1, <3>1
  <2>2. CASE Become(c, [fw EXCEPT !.pc = "submitted"])
    <3> DEFINE g == [fw EXCEPT !.pc = "submitted"]
    <3>1. g \in Forward /\ g.stale = fw.stale /\ g.at = fw.at /\ g.tokens = fw.tokens
      BY Phases
    <3>. QED  BY <2>2, <3>1
  <2>3. CASE Become(c, Failed)
    BY <2>3, Phases, Zenon
  <2>. QED  BY <2>1, <2>2, <2>3
<1>2. CASE g = Failed
  BY <1>1, <1>2, Phases, CallsStep DEF TypeInv, TypeOK, InFlightPhase
<1>3. CASE g.stale = fw.stale /\ g.at = fw.at /\ g.tokens = fw.tokens
  <2>1. Sized(g)
    BY <1>3 DEF Sized
  <2>. QED  BY <1>1, <1>3, <2>1, CallsStep DEF TypeInv, TypeOK
<1>. QED  BY <1>1, <1>2, <1>3

-----------------------------------------------------------------------------
(* TypeInv, action by action *)

LEMMA InitTypes == Init => TypeInv
<1>1. SUFFICES ASSUME Init PROVE TypeInv
  OBVIOUS
<1>2. 0 \in 0 .. MaxSeqLen /\ <<>> \in Seq(Call) /\ 0 \in 0 .. MaxFaults
  BY EngineAssumption
<1>3. NoLogits \in [Chunk -> Context] /\ <<>> \in Context /\ Garbage \in Context
  BY DEF NoLogits, Context
<1>4. TypeOK
  BY <1>1, <1>2, <1>3, SettledForms DEF Init, TypeOK
<1>5. \A c \in Call : call[c].pc = "idle"
  BY <1>1 DEF Init, Idle
<1>6. CallsInv /\ QueueInv
  BY <1>5 DEF CallsInv, QueueInv, Current, InFlight, InFlightPhase
<1>. QED  BY <1>4, <1>6 DEF TypeInv

(* A call that begins is well formed.                                      *)
LEMMA BeginForms ==
  ASSUME TypeOK, NEW tokens \in Input
  PROVE  /\ Begin(tokens) \in Forward
         /\ Begin(tokens).at = tokensSoFar /\ Begin(tokens).tokens = tokens
         /\ ~ Begin(tokens).stale
         /\ Begin(tokens).expect = Extend(said, tokens)
<1>1. tokens \in Seq(Token)
  BY InputIsShort
<1>2. Extend(said, tokens) \in Context
  BY <1>1 DEF TypeOK, Extend, Context
<1>. QED  BY <1>2, SettledForms DEF Begin, Idle, Forward, TypeOK

LEMMA TypesStartPrefill ==
  ASSUME TypeInv, NEW c \in Call, StartPrefill(c)
  PROVE  TypeInv'
<1>1. PICK tokens \in Input :
        Len(tokens) \in 1 .. MaxPrompt /\ Become(c, [Begin(tokens) EXCEPT !.pc = "bind"])
  BY DEF StartPrefill
<1> DEFINE fw == [Begin(tokens) EXCEPT !.pc = "bind"]
<1>2. /\ fw \in Forward /\ fw.pc = "bind"
      /\ fw.at = tokensSoFar /\ fw.tokens = tokens
  BY BeginForms DEF TypeInv, Forward, InFlightPhase
<1>3. tokensSoFar = 0 /\ UNCHANGED tokensSoFar /\ MayBegin(c)
  BY DEF StartPrefill, engine
<1>4. call' \in [Call -> Forward] /\ CallsInv'
  <2>1. Sized(fw)
    BY <1>1, <1>2, <1>3 DEF Sized
  <2>. QED  BY <1>1, <1>2, <1>3, <2>1, CallsStep DEF TypeInv, TypeOK
<1>5. binding' = Append(binding, c) /\ binding \in Seq(Call)
  BY DEF StartPrefill, TypeInv, TypeOK
<1>6. TypeOK'
  BY <1>4, <1>5 DEF StartPrefill, engine, TypeInv, TypeOK
<1>7. QueueInv'
  <2>1. SUFFICES ASSUME NEW d \in Call, call'[d].pc = "bind"
                 PROVE  \E i \in 1 .. Len(binding') : binding'[i] = d
    BY DEF QueueInv
  <2>2. CASE d = c
    BY <2>2, <1>5
  <2>3. CASE d # c
    <3>1. call[d].pc = "bind"
      BY <2>1, <2>3, <1>1, Others DEF Idle
    <3>2. PICK i \in 1 .. Len(binding) : binding[i] = d
      BY <3>1 DEF TypeInv, QueueInv
    <3>3. i \in 1 .. Len(binding') /\ binding'[i] = d
      BY <3>2, <1>5
    <3>. QED  BY <3>3
  <2>. QED  BY <2>2, <2>3
<1>. QED  BY <1>4, <1>6, <1>7 DEF TypeInv

(* What a call in flight has.                                              *)
LEMMA CallFacts ==
  ASSUME TypeInv, NEW c \in Call, InFlight(c)
  PROVE  /\ call[c] \in Forward /\ Sized(call[c])
         /\ ~ call[c].stale => Current(c) /\ call[c].at = tokensSoFar
BY DEF TypeInv, TypeOK, CallsInv, Current

LEMMA TypesSubmitPrefill ==
  ASSUME TypeInv, NEW c \in Call, SubmitPrefill(c)
  PROVE  TypeInv'
<1>1. InFlight(c)
  BY DEF SubmitPrefill, InFlight, InFlightPhase
<1> DEFINE tokens == call[c].tokens
<1>2. /\ call[c] \in Forward /\ Sized(call[c])
      /\ ~ call[c].stale => Current(c) /\ call[c].at = tokensSoFar
  BY <1>1, CallFacts
<1>3. tokens \in Seq(Token) /\ tokens \in Context
  BY <1>2, InputIsShort DEF Forward, Context
<1>4. Submit(c, call[c], tokens) /\ UNCHANGED <<tokensSoFar, said, allocFailed, faults>>
  BY DEF SubmitPrefill, engine
<1>5. /\ staging' \in [Chunk -> Context]
      /\ mapping' \in [Chunk -> Call \cup {NoCall}]
      /\ \/ Become(c, [call[c] EXCEPT !.pc = "map", !.chunk = 1])
         \/ Become(c, [call[c] EXCEPT !.pc = "submitted"])
         \/ Become(c, Failed)
  BY <1>2, <1>3, <1>4, SubmitTypes DEF TypeInv
<1>6. call' \in [Call -> Forward] /\ CallsInv'
  <2>1. 1 \in Chunk
    BY EngineAssumption DEF Chunk
  <2>. QED  BY <1>2, <1>4, <1>5, <2>1, CallGoesOn
<1>7. cache' \in [Position -> Context]
  <2>1. \A p \in Position : p < Len(tokens) => SubSeq(tokens, 1, p + 1) \in Context
    BY <1>3, EngineAssumption DEF Position, Context
  <2>2. cache \in [Position -> Context]
    BY DEF TypeInv, TypeOK
  <2>3. \/ cache' = cache
        \/ cache' = [p \in Position |-> IF p < Len(tokens) THEN SubSeq(tokens, 1, p + 1) ELSE cache[p]]
    BY DEF SubmitPrefill
  <2>. QED  BY <2>1, <2>2, <2>3
<1>8. /\ binding \in Seq(Call) /\ binding # <<>> /\ Head(binding) = c
      /\ binding' = Tail(binding) /\ binding' \in Seq(Call)
  <2>1. PICK i \in 1 .. Len(binding) : binding[i] = c
    BY DEF SubmitPrefill, TypeInv, QueueInv
  <2>. QED  BY <2>1 DEF SubmitPrefill, TypeInv, TypeOK
<1>9. TypeOK'
  BY <1>4, <1>5, <1>6, <1>7, <1>8 DEF TypeInv, TypeOK
<1>10. QueueInv'
  <2>1. SUFFICES ASSUME NEW d \in Call, call'[d].pc = "bind"
                 PROVE  \E i \in 1 .. Len(binding') : binding'[i] = d
    BY DEF QueueInv
  <2>2. d # c
    <3>1. 1 \in Chunk
      BY EngineAssumption DEF Chunk
    <3>2. /\ [call[c] EXCEPT !.pc = "map", !.chunk = 1].pc = "map"
          /\ [call[c] EXCEPT !.pc = "submitted"].pc = "submitted"
          /\ Failed.pc = "failed"
      BY <1>2, <3>1, Phases
    <3>3. call'[c].pc \in {"map", "submitted", "failed"}
      BY <1>5, <3>2, Others, Zenon
    <3>. QED  BY <2>1, <3>3
  <2>3. call[d].pc = "bind"
    BY <2>1, <2>2, <1>5, Others DEF Idle
  <2>4. PICK i \in 1 .. Len(binding) : binding[i] = d
    BY <2>3 DEF TypeInv, QueueInv
  <2>5. i # 1
    BY <2>2, <2>4, <1>8
  <2>6. i - 1 \in 1 .. Len(binding') /\ binding'[i - 1] = d
    BY <2>4, <2>5, <1>8
  <2>. QED  BY <2>6
<1>. QED  BY <1>6, <1>9, <1>10 DEF TypeInv

(* A call that waits for the queue or a map is none that binds.            *)
LEMMA MapKeepsQueue ==
  ASSUME TypeInv, NEW c \in Call, NEW fw \in Forward, NEW i \in Chunk, UNCHANGED binding,
         \/ Become(c, [fw EXCEPT !.pc = "map", !.chunk = i])
         \/ Become(c, [fw EXCEPT !.pc = "submitted"])
         \/ Become(c, Failed)
  PROVE  QueueInv'
<1>1. QueueInv
  BY DEF TypeInv
<1>2. CASE Become(c, [fw EXCEPT !.pc = "map", !.chunk = i])
  <2>1. [fw EXCEPT !.pc = "map", !.chunk = i].pc # "bind"
    BY Phases
  <2>. QED  BY <1>1, <1>2, <2>1, QueueStep, Zenon
<1>3. CASE Become(c, [fw EXCEPT !.pc = "submitted"])
  <2>1. [fw EXCEPT !.pc = "submitted"].pc # "bind"
    BY Phases
  <2>. QED  BY <1>1, <1>3, <2>1, QueueStep, Zenon
<1>4. CASE Become(c, Failed)
  <2>1. Failed.pc # "bind"
    BY Phases
  <2>. QED  BY <1>1, <1>4, <2>1, QueueStep, Zenon
<1>. QED  BY <1>2, <1>3, <1>4

LEMMA TypesWorkDone ==
  ASSUME TypeInv, NEW c \in Call, WorkDone(c)
  PROVE  TypeInv'
<1>1. 1 \in Chunk
  BY EngineAssumption DEF Chunk
<1>2. /\ call[c] \in Forward /\ Sized(call[c])
      /\ ~ call[c].stale => Current(c) /\ call[c].at = tokensSoFar
  BY CallFacts DEF WorkDone, InFlight, InFlightPhase
<1>3. /\ mapping' \in [Chunk -> Call \cup {NoCall}]
      /\ \/ Become(c, [call[c] EXCEPT !.pc = "map", !.chunk = 1])
         \/ Become(c, Failed)
  BY <1>1, <1>2, MapTypes DEF WorkDone, TypeInv, TypeOK
<1>4. UNCHANGED <<tokensSoFar, said, allocFailed, cache, staging, binding, faults>>
  BY DEF WorkDone, engine
<1>5. call' \in [Call -> Forward] /\ CallsInv'
  BY <1>1, <1>2, <1>3, <1>4, CallGoesOn
<1>6. QueueInv'
  BY <1>1, <1>2, <1>3, <1>4, MapKeepsQueue
<1>7. TypeOK'
  BY <1>3, <1>4, <1>5 DEF TypeInv, TypeOK
<1>. QED  BY <1>5, <1>6, <1>7 DEF TypeInv

(* A call that copied a chunk out is as well formed as before.             *)
LEMMA CopiedForms ==
  ASSUME TypeInv, NEW c \in Call, InFlight(c), NEW i \in Chunk
  PROVE  LET fw == [call[c] EXCEPT !.parts[i] = staging[i]]
         IN  /\ fw \in Forward /\ fw.stale = call[c].stale /\ fw.pc = call[c].pc
             /\ fw.at = call[c].at /\ fw.tokens = call[c].tokens
             /\ fw.expect = call[c].expect /\ Sized(fw)
             /\ fw.parts = [call[c].parts EXCEPT ![i] = staging[i]]
<1>1. call[c] \in Forward /\ Sized(call[c])
  BY CallFacts
<1>2. staging[i] \in Context
  BY DEF TypeInv, TypeOK
<1> DEFINE fw == [call[c] EXCEPT !.parts[i] = staging[i]]
<1>3. /\ fw \in Forward /\ fw.stale = call[c].stale /\ fw.pc = call[c].pc
      /\ fw.at = call[c].at /\ fw.tokens = call[c].tokens
      /\ fw.expect = call[c].expect
      /\ fw.parts = [call[c].parts EXCEPT ![i] = staging[i]]
  BY <1>1, <1>2 DEF Forward
<1>4. Sized(fw)
  BY <1>1, <1>3 DEF Sized
<1>. QED  BY <1>3, <1>4

(* The position and the answer of a call that settles.                     *)
LEMMA SettleTypes ==
  ASSUME TypeInv, NEW c \in Call, InFlight(c), NEW fw \in Forward,
         fw.stale = call[c].stale, fw.at = call[c].at, fw.expect = call[c].expect, Sized(fw),
         Settle(c, fw)
  PROVE  /\ call' \in [Call -> Forward] /\ CallsInv'
         /\ tokensSoFar' \in 0 .. MaxSeqLen /\ said' \in Context
         /\ UNCHANGED binding => QueueInv'
<1>1. Failed \in Forward /\ Failed.pc = "failed" /\ Done(fw) \in Forward /\ Done(fw).pc = "done"
  BY SettledForms DEF Failed, Done, Idle
<1>2. CASE fw.stale
  <2>1. Become(c, Failed) /\ UNCHANGED <<tokensSoFar, said>>
    BY <1>2 DEF Settle, engine
  <2>2. call' \in [Call -> Forward] /\ CallsInv'
    BY <1>1, <2>1, CallsStep DEF TypeInv, TypeOK, InFlightPhase
  <2>3. UNCHANGED binding => QueueInv'
    BY <1>1, <2>1, QueueStep DEF TypeInv
  <2>. QED  BY <2>1, <2>2, <2>3 DEF TypeInv, TypeOK
<1>3. CASE ~ fw.stale
  <2>1. Become(c, Done(fw)) /\ tokensSoFar' = NextPosition(fw) /\ said' = fw.expect
    BY <1>3 DEF Settle
  <2>2. Current(c) /\ fw.at = tokensSoFar
    BY <1>3, CallFacts
  <2>3. call' \in [Call -> Forward] /\ CallsInv'
    BY <1>1, <2>1, <2>2, CallsStep DEF TypeInv, TypeOK, InFlightPhase
  <2>4. UNCHANGED binding => QueueInv'
    BY <1>1, <2>1, QueueStep DEF TypeInv
  <2>5. tokensSoFar' \in 0 .. MaxSeqLen
    BY <2>1, <2>2, EngineAssumption DEF NextPosition, Sized, TypeInv, TypeOK
  <2>6. said' \in Context
    BY <2>1 DEF Forward
  <2>. QED  BY <2>3, <2>4, <2>5, <2>6
<1>. QED  BY <1>2, <1>3 DEF Forward

LEMMA TypesReadBack ==
  ASSUME TypeInv, NEW c \in Call, ReadBack(c)
  PROVE  TypeInv'
<1> DEFINE i  == call[c].chunk
           fw == [call[c] EXCEPT !.parts[i] = staging[i]]
<1>1. InFlight(c)
  BY DEF ReadBack, InFlight, InFlightPhase
<1>2. i \in Chunk
  BY <1>1, CallFacts DEF Forward
<1>3. /\ fw \in Forward /\ fw.stale = call[c].stale
      /\ fw.at = call[c].at /\ fw.tokens = call[c].tokens
      /\ fw.expect = call[c].expect /\ Sized(fw)
  BY <1>1, <1>2, CopiedForms
<1>4. Unmap(i) \in [Chunk -> Call \cup {NoCall}]
  BY <1>2 DEF Unmap, TypeInv, TypeOK
<1>5. UNCHANGED <<allocFailed, cache, staging, binding, faults>>
  BY DEF ReadBack
<1>6. CASE i = LastChunk
  <2>1. Settle(c, fw) /\ mapping' = Unmap(i)
    BY <1>6 DEF ReadBack
  <2>2. /\ call' \in [Call -> Forward] /\ CallsInv' /\ QueueInv'
        /\ tokensSoFar' \in 0 .. MaxSeqLen /\ said' \in Context
    BY <1>1, <1>3, <1>5, <2>1, SettleTypes
  <2>. QED  BY <1>4, <1>5, <2>1, <2>2 DEF TypeInv, TypeOK
<1>7. CASE i # LastChunk
  <2>1. Map(c, fw, i + 1, Unmap(i)) /\ UNCHANGED <<tokensSoFar, said>>
    BY <1>7 DEF ReadBack, engine
  <2>2. i + 1 \in Chunk
    BY <1>2, <1>7, EngineAssumption DEF Chunk
  <2>3. /\ mapping' \in [Chunk -> Call \cup {NoCall}]
        /\ \/ Become(c, [fw EXCEPT !.pc = "map", !.chunk = i + 1])
           \/ Become(c, Failed)
    BY <1>3, <1>4, <2>1, <2>2, MapTypes
  <2>4. ~ fw.stale => Current(c) /\ fw.at = tokensSoFar
    BY <1>1, <1>3, CallFacts
  <2>5. call' \in [Call -> Forward] /\ CallsInv'
    BY <1>3, <2>1, <2>2, <2>3, <2>4, CallGoesOn
  <2>6. QueueInv'
    BY <1>3, <1>5, <2>2, <2>3, MapKeepsQueue
  <2>. QED  BY <1>5, <2>1, <2>3, <2>5, <2>6 DEF TypeInv, TypeOK
<1>. QED  BY <1>6, <1>7

(* What a decode step attends to is a context.                             *)
LEMMA AttendTypes ==
  ASSUME TypeOK, NEW at \in 1 .. MaxSeqLen, NEW t \in Token
  PROVE  Attend(at, t) \in Context
<1>1. CASE Coherent(at)
  <2>1. cache[at - 1] \in Seq(Token)
    BY <1>1, EngineAssumption DEF Coherent, TypeOK, Position, Context
  <2>. QED  BY <1>1, <2>1 DEF Attend, Context
<1>2. CASE ~ Coherent(at)
  BY <1>2 DEF Attend, Context
<1>. QED  BY <1>1, <1>2

LEMMA TypesStartDecode ==
  ASSUME TypeInv, NEW c \in Call, StartDecode(c)
  PROVE  TypeInv'
<1>1. PICK t \in Token :
        /\ cache' = IF Submittable
                      THEN [cache EXCEPT ![tokensSoFar] = Attend(tokensSoFar, t)]
                      ELSE cache
        /\ Submit(c, Begin(<<t>>), Attend(tokensSoFar, t))
  BY DEF StartDecode
<1> DEFINE fw == Begin(<<t>>)
<1>2. /\ tokensSoFar \in Nat /\ tokensSoFar # 0 /\ tokensSoFar < MaxSeqLen
      /\ MayBegin(c) /\ UNCHANGED <<tokensSoFar, said, allocFailed, binding, faults>>
  BY EngineAssumption DEF StartDecode, engine, Fits, TypeInv, TypeOK
<1>3. /\ fw \in Forward /\ ~ fw.stale /\ fw.at = tokensSoFar /\ fw.tokens = <<t>>
  BY ShortInputs, BeginForms DEF TypeInv
<1>4. Attend(tokensSoFar, t) \in Context
  BY <1>2, EngineAssumption, AttendTypes DEF TypeInv, TypeOK
<1>5. cache' \in [Position -> Context]
  BY <1>1, <1>4 DEF TypeInv, TypeOK
<1>6. /\ staging' \in [Chunk -> Context]
      /\ mapping' \in [Chunk -> Call \cup {NoCall}]
      /\ \/ Become(c, [fw EXCEPT !.pc = "map", !.chunk = 1])
         \/ Become(c, [fw EXCEPT !.pc = "submitted"])
         \/ Become(c, Failed)
  BY <1>1, <1>3, <1>4, SubmitTypes DEF TypeInv
<1>7. 1 \in Chunk
  BY EngineAssumption DEF Chunk
<1>8. Sized(fw)
  BY <1>2, <1>3 DEF Sized
<1>9. call' \in [Call -> Forward] /\ CallsInv'
  BY <1>2, <1>3, <1>6, <1>7, <1>8, CallGoesOn
<1>10. QueueInv'
  BY <1>2, <1>3, <1>6, <1>7, MapKeepsQueue
<1>. QED  BY <1>2, <1>5, <1>6, <1>9, <1>10 DEF TypeInv, TypeOK

(* A call that fails, before or after it has done something.               *)
LEMMA FailTypes ==
  ASSUME TypeInv, NEW c \in Call, Become(c, Failed), UNCHANGED tokensSoFar
  PROVE  /\ call' \in [Call -> Forward] /\ CallsInv'
         /\ UNCHANGED binding => QueueInv'
<1>1. Failed \in Forward /\ Failed.pc = "failed"
  BY SettledForms DEF Failed, Idle
<1>2. call' \in [Call -> Forward] /\ CallsInv'
  BY <1>1, CallsStep DEF TypeInv, TypeOK, InFlightPhase
<1>3. UNCHANGED binding => QueueInv'
  BY <1>1, QueueStep DEF TypeInv
<1>. QED  BY <1>2, <1>3

LEMMA TypesRefuse ==
  ASSUME TypeInv, NEW c \in Call, Refuse(c)
  PROVE  TypeInv'
<1>1. Become(c, Failed)
      /\ UNCHANGED <<tokensSoFar, said, allocFailed, cache, staging, mapping, binding, faults>>
  BY DEF Refuse, engine
<1>. QED  BY <1>1, FailTypes DEF TypeInv, TypeOK

(* A fault is counted.                                                     *)
LEMMA FaultTypes == TypeOK /\ (Fault \/ UNCHANGED faults) => faults' \in 0 .. MaxFaults
BY EngineAssumption DEF Fault, TypeOK

LEMMA TypesReadBackFails ==
  ASSUME TypeInv, NEW c \in Call, ReadBackFails(c)
  PROVE  TypeInv'
<1>1. Become(c, Failed) /\ UNCHANGED <<tokensSoFar, said, allocFailed, cache, staging, binding>>
  BY DEF ReadBackFails, engine
<1>2. call[c].chunk \in Chunk
  BY CallFacts DEF ReadBackFails, InFlight, InFlightPhase, Forward
<1>3. mapping' \in [Chunk -> Call \cup {NoCall}]
  BY <1>2 DEF ReadBackFails, Unmap, TypeInv, TypeOK
<1>4. faults' \in 0 .. MaxFaults
  BY FaultTypes DEF ReadBackFails, TypeInv
<1>. QED  BY <1>1, <1>3, <1>4, FailTypes DEF TypeInv, TypeOK

(* Taking c out of the queue closes the gap it leaves.                     *)
LEMMA WithoutAt ==
  ASSUME binding \in Seq(Call), NEW c \in Call, \E i \in 1 .. Len(binding) : binding[i] = c
  PROVE  /\ Without(c) \in Seq(Call)
         /\ \E h \in 1 .. Len(binding) :
              /\ binding[h] = c /\ Len(Without(c)) = Len(binding) - 1
              /\ \A k \in 1 .. Len(Without(c)) : Without(c)[k] = binding[IF k < h THEN k ELSE k + 1]
<1> DEFINE i == CHOOSE k \in DOMAIN binding : binding[k] = c
           a == SubSeq(binding, 1, i - 1)
           b == SubSeq(binding, i + 1, Len(binding))
<1>1. DOMAIN binding = 1 .. Len(binding)
  OBVIOUS
<1>2. i \in 1 .. Len(binding) /\ binding[i] = c
  BY <1>1
<1>3. Without(c) = a \o b
  BY DEF Without
<1>. HIDE DEF i
<1>4. /\ a \in Seq(Call) /\ Len(a) = i - 1
      /\ \A k \in 1 .. i - 1 : a[k] = binding[k]
  BY <1>2
<1>5. /\ b \in Seq(Call) /\ Len(b) = Len(binding) - i
      /\ \A k \in 1 .. Len(b) : b[k] = binding[i + k]
  BY <1>2
<1>. HIDE DEF a, b
<1>6. Len(binding) \in Nat /\ i \in Nat
  BY <1>2
<1>7. /\ a \o b \in Seq(Call) /\ Len(a \o b) = Len(binding) - 1
      /\ \A k \in 1 .. Len(a \o b) : (a \o b)[k] = IF k <= Len(a) THEN a[k] ELSE b[k - Len(a)]
  <2>1. /\ a \o b \in Seq(Call) /\ Len(a \o b) = Len(a) + Len(b)
        /\ \A k \in 1 .. Len(a) + Len(b) : (a \o b)[k] = IF k <= Len(a) THEN a[k] ELSE b[k - Len(a)]
    BY <1>4, <1>5, ConcatProperties
  <2>. QED  BY <2>1, <1>4, <1>5, <1>6
<1>8. ASSUME NEW k \in 1 .. Len(a \o b)
      PROVE  (a \o b)[k] = binding[IF k < i THEN k ELSE k + 1]
  <2>1. CASE k < i
    BY <2>1, <1>4, <1>6, <1>7
  <2>2. CASE ~ (k < i)
    <3>1. k - Len(a) \in 1 .. Len(b) /\ i + (k - Len(a)) = k + 1 /\ ~ (k <= Len(a))
      BY <2>2, <1>4, <1>5, <1>6, <1>7
    <3>2. (a \o b)[k] = b[k - Len(a)]
      BY <3>1, <1>7
    <3>3. b[k - Len(a)] = binding[i + (k - Len(a))]
      BY <3>1, <1>5
    <3>. QED  BY <2>2, <3>1, <3>2, <3>3
  <2>. QED  BY <2>1, <2>2
<1>. QED  BY <1>2, <1>3, <1>7, <1>8

(* ... and leaves the others in it.                                        *)
LEMMA WithoutOne ==
  ASSUME binding \in Seq(Call), NEW c \in Call, \E i \in 1 .. Len(binding) : binding[i] = c
  PROVE  /\ Without(c) \in Seq(Call)
         /\ \A d \in Call \ {c} :
              (\E i \in 1 .. Len(binding) : binding[i] = d) =>
                \E i \in 1 .. Len(Without(c)) : Without(c)[i] = d
<1>1. PICK h \in 1 .. Len(binding) :
        /\ binding[h] = c /\ Len(Without(c)) = Len(binding) - 1
        /\ \A k \in 1 .. Len(Without(c)) : Without(c)[k] = binding[IF k < h THEN k ELSE k + 1]
  BY WithoutAt
<1>2. ASSUME NEW d \in Call \ {c}, NEW k \in 1 .. Len(binding), binding[k] = d
      PROVE  \E n \in 1 .. Len(Without(c)) : Without(c)[n] = d
  <2>1. k # h /\ k \in Nat /\ h \in Nat /\ Len(binding) \in Nat
    BY <1>1, <1>2
  <2> DEFINE n == IF k < h THEN k ELSE k - 1
  <2>2. n \in 1 .. Len(Without(c)) /\ k = IF n < h THEN n ELSE n + 1
    BY <1>1, <2>1
  <2>3. Without(c)[n] = d
    BY <1>1, <1>2, <2>2
  <2>. QED  BY <2>2, <2>3
<1>. QED  BY <1>2, WithoutAt

LEMMA TypesBindFails ==
  ASSUME TypeInv, NEW c \in Call, BindFails(c)
  PROVE  TypeInv'
<1>1. /\ Become(c, Failed) /\ binding' = Without(c)
      /\ UNCHANGED <<tokensSoFar, said, cache, staging, mapping>>
  BY DEF BindFails, engine
<1>2. \E i \in 1 .. Len(binding) : binding[i] = c
  BY DEF BindFails, TypeInv, QueueInv
<1>3. call' \in [Call -> Forward] /\ CallsInv'
  BY <1>1, FailTypes
<1>4. /\ binding' \in Seq(Call)
      /\ \A d \in Call \ {c} :
           (\E i \in 1 .. Len(binding) : binding[i] = d) => \E i \in 1 .. Len(binding') : binding'[i] = d
  BY <1>1, <1>2, WithoutOne, Zenon DEF TypeInv, TypeOK
<1>5. QueueInv'
  <2>1. SUFFICES ASSUME NEW d \in Call, call'[d].pc = "bind"
                 PROVE  \E i \in 1 .. Len(binding') : binding'[i] = d
    BY DEF QueueInv
  <2>2. d # c /\ call[d].pc = "bind"
    BY <2>1, <1>1, Others DEF Failed, Idle
  <2>. QED  BY <2>2, <1>4 DEF TypeInv, QueueInv
<1>6. faults' \in 0 .. MaxFaults
  BY FaultTypes DEF BindFails, TypeInv
<1>7. allocFailed' \in BOOLEAN
  BY EngineAssumption DEF BindFails
<1>. QED  BY <1>1, <1>3, <1>4, <1>5, <1>6, <1>7 DEF TypeInv, TypeOK

LEMMA TypesReset ==
  ASSUME TypeInv, Reset
  PROVE  TypeInv'
<1>1. /\ tokensSoFar' = 0 /\ said' = <<>>
      /\ UNCHANGED <<allocFailed, cache, staging, mapping, binding>>
      /\ call' = [c \in Call |-> IF InFlight(c) THEN [call[c] EXCEPT !.stale = TRUE] ELSE Idle]
  BY DEF Reset
<1>2. faults' \in 0 .. MaxFaults
  BY FaultTypes DEF Reset, TypeInv
<1>3. \A c \in Call :
        /\ call[c] \in Forward
        /\ LET fw == [call[c] EXCEPT !.stale = TRUE]
           IN  /\ fw \in Forward /\ fw.stale /\ fw.pc = call[c].pc
               /\ fw.at = call[c].at /\ fw.tokens = call[c].tokens
  BY DEF TypeInv, TypeOK, Forward
<1>4. call' \in [Call -> Forward]
  BY <1>1, <1>3, SettledForms
<1>5. \A c \in Call :
        call'[c].pc \in InFlightPhase =>
          /\ InFlight(c) /\ call'[c].stale /\ call'[c].pc = call[c].pc
          /\ call'[c].at = call[c].at /\ call'[c].tokens = call[c].tokens
  BY <1>1, <1>3 DEF InFlight, Idle, InFlightPhase
<1>6. CallsInv'
  BY <1>5 DEF CallsInv, Current, InFlight, Sized, TypeInv
<1>7. QueueInv'
  <2>1. \A c \in Call : call'[c].pc = "bind" => call[c].pc = "bind"
    BY <1>5 DEF InFlightPhase
  <2>. QED  BY <2>1, <1>1 DEF QueueInv, TypeInv
<1>8. 0 \in 0 .. MaxSeqLen /\ <<>> \in Context
  BY EngineAssumption DEF Context
<1>. QED  BY <1>1, <1>2, <1>4, <1>6, <1>7, <1>8 DEF TypeInv, TypeOK

LEMMA TypesPoison ==
  ASSUME TypeInv, DebugPoisonKVCache
  PROVE  TypeInv'
<1>1. /\ cache' = [p \in Position |-> Garbage]
      /\ said' = IF tokensSoFar = 0 THEN said ELSE Garbage
      /\ UNCHANGED <<tokensSoFar, allocFailed, staging, mapping, binding, call, faults>>
  BY DEF DebugPoisonKVCache
<1>2. Garbage \in Context
  BY DEF Context
<1>3. TypeOK'
  BY <1>1, <1>2 DEF TypeInv, TypeOK
<1>. QED  BY <1>1, <1>3 DEF TypeInv, CallsInv, QueueInv, Current, InFlight

LEMMA TypesNext == TypeInv /\ [Next]_vars => TypeInv'
<1>1. SUFFICES ASSUME TypeInv, [Next]_vars PROVE TypeInv'
  OBVIOUS
<1>2. CASE UNCHANGED vars
  BY <1>1, <1>2 DEF vars, TypeInv, TypeOK, CallsInv, QueueInv, Current, InFlight
<1>3. ASSUME NEW c \in Call, Start(c) \/ Refuse(c) \/ Advance(c) \/ BindFails(c) \/ ReadBackFails(c)
      PROVE  TypeInv'
  BY <1>1, <1>3, TypesStartPrefill, TypesStartDecode, TypesRefuse, TypesSubmitPrefill,
     TypesWorkDone, TypesReadBack, TypesBindFails, TypesReadBackFails DEF Start, Advance
<1>. QED  BY <1>1, <1>2, <1>3, TypesReset, TypesPoison DEF Next

(* Whatever is reset, refused or fails, the position stays inside the      *)
(* cache and nothing is written outside of it.                             *)
THEOREM TypeCorrect == Safety => []TypeOK
<1>1. TypeInv => TypeOK
  BY DEF TypeInv
<1>. QED  BY <1>1, InitTypes, TypesNext, PTL DEF Safety

-----------------------------------------------------------------------------
(* What holds when callers await a forward before they reset, or when the  *)
(* logits are one chunk, submitted and mapped in one step                  *)

Separate == ~ ResetInFlight \/ (LastChunk = 1 /\ ~ Profiled)

(* The first n positions of the cache hold ctx, and lead to no other one.  *)
Caches(ctx, n) ==
  IF ctx = Garbage
    THEN n # 0 /\ cache[n - 1] = Garbage
    ELSE n = Len(ctx) /\ \A p \in 0 .. n - 1 : cache[p] = SubSeq(ctx, 1, p + 1)

(* A submission did what call fw expects of it.                            *)
Computed(fw) ==
  /\ Caches(fw.expect, NextPosition(fw))
  /\ \A i \in Chunk : staging[i] = fw.expect

(* A call whose work is on the device.                                     *)
OnDevice(c) == call[c].pc \in {"submitted", "map"}

(* A call of this generation goes on from what was said; once it is        *)
(* submitted, its tokens are in the cache and its logits in the staging    *)
(* buffers, where nobody else writes until it has read them back.          *)
CallExact(c) ==
  /\ call[c].pc = "bind" => call[c].at = 0
  /\ Current(c) => call[c].expect = Extend(said, call[c].tokens)
  /\ Current(c) /\ OnDevice(c) => Computed(call[c])
  /\ Current(c) /\ call[c].pc = "map" =>
       \A i \in Chunk : i < call[c].chunk => call[c].parts[i] = call[c].expect
  /\ call[c].pc = "done" => \A i \in Chunk : call[c].parts[i] = call[c].expect

MapsInv ==
  \A i \in Chunk : \A c \in Call : mapping[i] = c => call[c].pc = "map" /\ call[c].chunk = i

(* No call of an earlier generation is in flight.                          *)
Clear == \A c \in Call : InFlight(c) => Current(c)

(* Nor is one when the generation has submitted anything: its prefill was  *)
(* submitted after theirs, and found no map pending.                       *)
ClearInv == (tokensSoFar # 0 \/ \E c \in Call : Current(c) /\ OnDevice(c)) => Clear

(* Prefills wait for their bind groups once each, and those of earlier     *)
(* generations first.                                                      *)
InTurn ==
  /\ \A i \in 1 .. Len(binding) : call[binding[i]].pc = "bind"
  /\ \A i, j \in 1 .. Len(binding) :
       i < j => binding[i] # binding[j] /\ ~ Current(binding[i])

(* A reset leaves nobody behind, or those it leaves hold the only map.     *)
SeparateInv ==
  /\ ~ ResetInFlight => Clear
  /\ ResetInFlight => \A c \in Call : call[c].pc # "submitted" /\ (call[c].pc = "map" => mapping[1] = c)

ExactInv ==
  /\ TypeInv /\ MapsInv /\ ClearInv /\ InTurn /\ SeparateInv
  /\ Caches(said, tokensSoFar)
  /\ \A c \in Call : CallExact(c)

(* Nobody but c is in flight.                                              *)
Alone(c) == \A d \in Call : InFlight(d) => d = c

-----------------------------------------------------------------------------
(* Prefixes *)

(* The whole of a sequence is its longest prefix.                          *)
LEMMA WholePrefix == ASSUME NEW S, NEW s \in Seq(S) PROVE SubSeq(s, 1, Len(s)) = s
OBVIOUS

(* A generation without tokens is not a spoiled one.                       *)
LEMMA NothingSaid == <<>> \in Seq(Token) /\ <<>> # Garbage
<1>1. <<>> \in Seq(Token)
  BY EmptySeq
<1>. QED  BY <1>1, EngineAssumption

(* One token more changes no shorter prefix.                               *)
LEMMA PrefixOfAppend ==
  ASSUME NEW S, NEW s \in Seq(S), NEW t \in S, NEW n \in 0 .. Len(s)
  PROVE  SubSeq(Append(s, t), 1, n) = SubSeq(s, 1, n)
<1>1. Append(s, t) \in Seq(S) /\ Len(Append(s, t)) = Len(s) + 1 /\ n \in Nat
  OBVIOUS
<1>2. SubSeq(Append(s, t), 1, n) \in Seq(S) /\ SubSeq(s, 1, n) \in Seq(S)
  BY <1>1
<1>3. Len(SubSeq(Append(s, t), 1, n)) = n /\ Len(SubSeq(s, 1, n)) = n
  BY <1>1
<1>4. \A i \in 1 .. n : SubSeq(Append(s, t), 1, n)[i] = SubSeq(s, 1, n)[i]
  BY <1>1
<1>. QED  BY <1>2, <1>3, <1>4, SeqEqual

(* What n positions of a cache kv hold, when they cache ctx.               *)
LEMMA CachedValue ==
  ASSUME NEW ctx \in Context, NEW n, NEW kv,
         IF ctx = Garbage THEN n # 0 /\ kv[n - 1] = Garbage
                          ELSE n = Len(ctx) /\ \A p \in 0 .. n - 1 : kv[p] = SubSeq(ctx, 1, p + 1)
  PROVE  (IF n = 0 THEN <<>> ELSE kv[n - 1]) = ctx
<1>1. CASE ctx = Garbage
  BY <1>1
<1>2. CASE ctx # Garbage
  <2>1. ctx \in Seq(Token) /\ n = Len(ctx) /\ n \in Nat
    BY <1>2 DEF Context
  <2>2. CASE n = 0
    BY <2>1, <2>2, EmptySeq
  <2>3. CASE n # 0
    <3>1. n - 1 \in 0 .. n - 1 /\ n - 1 + 1 = Len(ctx)
      BY <2>1, <2>3
    <3>2. kv[n - 1] = SubSeq(ctx, 1, Len(ctx))
      BY <1>2, <3>1
    <3>. QED  BY <2>1, <2>3, <3>2, WholePrefix
  <2>. QED  BY <2>2, <2>3
<1>. QED  BY <1>1, <1>2

(* What the cache holds below the position.                                *)
LEMMA CachedIsSaid ==
  ASSUME TypeOK, Caches(said, tokensSoFar)
  PROVE  CachedContext = said
BY CachedValue DEF TypeOK, Caches, CachedContext

-----------------------------------------------------------------------------
(* ExactInv, step by step *)

(* Who is in flight is alone when nobody is left behind by a reset, and    *)
(* nobody is in flight when a call may begin.                              *)
LEMMA InFlightAlone ==
  ASSUME TypeInv, Clear, NEW c \in Call, InFlight(c) \/ MayBegin(c)
  PROVE  Alone(c)
<1>1. \A d \in Call : InFlight(d) => Current(d)
  BY DEF Clear
<1>2. CASE InFlight(c)
  BY <1>1, <1>2 DEF Alone, TypeInv, CallsInv
<1>3. CASE MayBegin(c)
  BY <1>1, <1>3 DEF MayBegin, Current, Alone
<1>. QED  BY <1>2, <1>3

(* A call whose generation is going on has nobody beside it on the device. *)
LEMMA OnDeviceAlone ==
  ASSUME ExactInv, NEW c \in Call, Current(c), OnDevice(c)
  PROVE  Alone(c)
<1>1. Clear /\ InFlight(c)
  BY DEF ExactInv, ClearInv, Current
<1>. QED  BY <1>1, InFlightAlone DEF ExactInv

(* No buffer is pending but for the one an only call in flight maps.       *)
LEMMA MapsOfOne ==
  ASSUME ExactInv, NEW c \in Call, Alone(c), NEW i \in Chunk
  PROVE  mapping[i] = NoCall \/ (mapping[i] = c /\ call[c].pc = "map" /\ call[c].chunk = i)
<1>1. mapping[i] \in Call \cup {NoCall}
  BY DEF ExactInv, TypeInv, TypeOK
<1>2. ASSUME mapping[i] \in Call PROVE mapping[i] = c /\ call[c].pc = "map" /\ call[c].chunk = i
  <2>1. call[mapping[i]].pc = "map" /\ call[mapping[i]].chunk = i
    BY <1>2 DEF ExactInv, MapsInv
  <2>. QED  BY <1>2, <2>1 DEF Alone, InFlight, InFlightPhase
<1>. QED  BY <1>1, <1>2

LEMMA NoneMapped ==
  ASSUME ExactInv, NEW c \in Call, Alone(c), call[c].pc # "map"
  PROVE  Submittable /\ \A i \in Chunk : mapping[i] = NoCall
BY MapsOfOne DEF Submittable

(* A call that waits for its bind groups is in the queue, ...              *)
LEMMA QueuedOnce ==
  ASSUME TypeOK, InTurn, NEW c \in Call
  PROVE  \A i \in 1 .. Len(binding) :
           /\ binding[i] \in Call /\ InFlight(binding[i])
           /\ call[c].pc # "bind" => binding[i] # c
BY DEF TypeOK, InTurn, InFlight, InFlightPhase

(* ... which a step of another call leaves in turn, ...                    *)
LEMMA TurnKept ==
  ASSUME TypeOK, InTurn, NEW c \in Call, NEW fw, Become(c, fw), UNCHANGED binding,
         call[c].pc # "bind"
  PROVE  InTurn'
<1>1. \A i \in 1 .. Len(binding) : call'[binding[i]] = call[binding[i]]
  BY QueuedOnce, Others
<1>2. \A i \in 1 .. Len(binding) : Current(binding[i])' <=> Current(binding[i])
  BY <1>1 DEF Current, InFlight
<1>. QED  BY <1>1, <1>2 DEF InTurn

(* ... and so does one that takes its call out of it.                      *)
LEMMA TurnLeft ==
  ASSUME TypeOK, InTurn, NEW c \in Call, NEW fw, Become(c, fw),
         NEW h \in 1 .. Len(binding), binding[h] = c, Len(binding') = Len(binding) - 1,
         \A k \in 1 .. Len(binding') : binding'[k] = binding[IF k < h THEN k ELSE k + 1]
  PROVE  InTurn'
<1> DEFINE n    == Len(binding)
           f(k) == IF k < h THEN k ELSE k + 1
<1>1. n \in Nat /\ h \in 1 .. n /\ Len(binding') = n - 1
  BY DEF TypeOK
<1>. HIDE DEF n
<1>2. \A k \in 1 .. Len(binding') : f(k) \in 1 .. n /\ f(k) # h
  BY <1>1
<1>3. \A i, j \in 1 .. Len(binding') : i < j => f(i) < f(j)
  BY <1>1
<1>4. \A k \in 1 .. Len(binding') : binding'[k] = binding[f(k)]
  OBVIOUS
<1>. HIDE DEF f
<1>5. \A i, j \in 1 .. n : i < j => binding[i] # binding[j] /\ ~ Current(binding[i])
  BY DEF InTurn, n
<1>6. \A k \in 1 .. n : k # h => binding[k] # c
  <2>1. SUFFICES ASSUME NEW k \in 1 .. n, k # h PROVE binding[k] # c
    OBVIOUS
  <2>2. k < h \/ h < k
    BY <1>1, <2>1
  <2>3. CASE k < h
    BY <1>1, <1>5, <2>3
  <2>4. CASE h < k
    BY <1>1, <1>5, <2>4
  <2>. QED  BY <2>2, <2>3, <2>4
<1>7. \A k \in 1 .. n : k # h => call'[binding[k]] = call[binding[k]]
  BY <1>6, QueuedOnce, Others DEF n
<1>8. \A k \in 1 .. Len(binding') :
        call'[binding'[k]].pc = "bind" /\ (Current(binding[k])' => Current(binding[f(k)]))
  <2>1. SUFFICES ASSUME NEW k \in 1 .. Len(binding')
                 PROVE  call'[binding'[k]].pc = "bind" /\ (Current(binding[k])' => Current(binding[f(k)]))
    OBVIOUS
  <2>2. binding'[k] = binding[f(k)] /\ call'[binding[f(k)]] = call[binding[f(k)]] /\ f(k) \in 1 .. n
    BY <1>2, <1>4, <1>7
  <2>3. call[binding[f(k)]].pc = "bind"
    BY <2>2 DEF InTurn, n
  <2>. QED  BY <2>2, <2>3 DEF Current, InFlight
<1>9. \A i, j \in 1 .. Len(binding') :
        i < j => binding'[i] # binding'[j] /\ ~ Current(binding[i])'
  <2>1. SUFFICES ASSUME NEW i \in 1 .. Len(binding'), NEW j \in 1 .. Len(binding'), i < j
                 PROVE  binding'[i] # binding'[j] /\ ~ Current(binding[i])'
    OBVIOUS
  <2>2. f(i) \in 1 .. n /\ f(j) \in 1 .. n /\ f(i) < f(j)
    BY <1>2, <1>3, <2>1
  <2>3. binding[f(i)] # binding[f(j)] /\ ~ Current(binding[f(i)])
    BY <1>5, <2>2
  <2>. QED  BY <1>4, <1>8, <2>3
<1>. QED  BY <1>8, <1>9 DEF InTurn

(* ... and the queue goes on with a call that begins, since those before   *)
(* it were left behind by a reset.                                         *)
LEMMA TurnTaken ==
  ASSUME TypeOK, InTurn, NEW c \in Call, NEW fw, Become(c, fw), ~ InFlight(c), fw.pc = "bind",
         \A d \in Call : ~ Current(d), binding' = Append(binding, c)
  PROVE  InTurn'
<1>1. binding \in Seq(Call) /\ Len(binding) \in Nat
  BY DEF TypeOK
<1>2. /\ Len(binding') = Len(binding) + 1 /\ binding'[Len(binding) + 1] = c
      /\ \A i \in 1 .. Len(binding) : binding'[i] = binding[i]
  BY <1>1
<1>3. \A i \in 1 .. Len(binding) :
        /\ binding[i] \in Call /\ binding[i] # c /\ call'[binding[i]] = call[binding[i]]
        /\ ~ Current(binding[i])
  <2>1. \A i \in 1 .. Len(binding) : binding[i] \in Call /\ InFlight(binding[i]) /\ binding[i] # c
    BY QueuedOnce
  <2>. QED  BY <2>1, Others
<1>4. call'[c] = fw
  BY Others
<1>5. \A i \in 1 .. Len(binding') : call'[binding'[i]].pc = "bind"
  <2>1. \A i \in 1 .. Len(binding) : call'[binding'[i]].pc = "bind"
    BY <1>2, <1>3 DEF InTurn
  <2>2. \A i \in 1 .. Len(binding') : i = Len(binding) + 1 \/ i \in 1 .. Len(binding)
    BY <1>1, <1>2
  <2>. QED  BY <1>2, <1>4, <2>1, <2>2
<1>6. \A i \in 1 .. Len(binding) : ~ Current(binding[i])'
  BY <1>2, <1>3 DEF Current, InFlight
<1>7. ASSUME NEW i \in 1 .. Len(binding'), NEW j \in 1 .. Len(binding'), i < j
      PROVE  binding'[i] # binding'[j] /\ ~ Current(binding[i])'
  <2>1. i \in 1 .. Len(binding)
    BY <1>1, <1>2, <1>7
  <2>2. CASE j = Len(binding) + 1
    BY <1>2, <1>3, <1>6, <2>1, <2>2
  <2>3. CASE j # Len(binding) + 1
    <3>1. j \in 1 .. Len(binding)
      BY <1>1, <1>2, <2>3
    <3>. QED  BY <1>2, <1>6, <1>7, <2>1, <3>1 DEF InTurn
  <2>. QED  BY <2>2, <2>3
<1>. QED  BY <1>5, <1>7 DEF InTurn

(* A step of the only call in flight, or of one that begins alone, has to  *)
(* answer for its own part of the invariant only.                          *)
LEMMA ExactAlone ==
  ASSUME Separate, TypeInv', InTurn', NEW c \in Call, NEW fw, Become(c, fw), Alone(c),
         Caches(said, tokensSoFar)', CallExact(c)', InFlight(c)' => Current(c)',
         ResetInFlight => call'[c].pc # "submitted",
         \A i \in Chunk :
           mapping'[i] = NoCall \/ (mapping'[i] = c /\ call'[c].pc = "map" /\ call'[c].chunk = i),
         call'[c].pc = "map" => mapping'[call'[c].chunk] = c
  PROVE  ExactInv'
<1>1. \A d \in Call : d # c => call'[d] = Idle
  BY Others DEF Alone
<1>2. \A d \in Call : CallExact(d)'
  <2>1. SUFFICES ASSUME NEW d \in Call PROVE CallExact(d)'
    OBVIOUS
  <2>2. CASE d # c
    BY <2>2, <1>1 DEF CallExact, Current, InFlight, InFlightPhase, Idle
  <2>. QED  BY <2>2
<1>3. MapsInv'
  BY EngineAssumption DEF MapsInv
<1>4. Clear'
  <2>1. \A d \in Call : d # c => ~ InFlight(d)'
    BY <1>1 DEF InFlight, InFlightPhase, Idle
  <2>. QED  BY <2>1 DEF Clear
<1>5. SeparateInv'
  <2>1. SUFFICES ASSUME ResetInFlight, NEW d \in Call
                 PROVE  call'[d].pc # "submitted" /\ (call'[d].pc = "map" => mapping'[1] = d)
    BY <1>4 DEF SeparateInv
  <2>2. CASE d # c
    BY <1>1, <2>2 DEF Idle
  <2>3. CASE d = c /\ call'[c].pc = "map"
    <3>1. call'[c].chunk \in Chunk
      BY DEF TypeInv, TypeOK, Forward
    <3>2. call'[c].chunk = 1
      BY <2>1, <3>1, EngineAssumption DEF Separate, Chunk
    <3>. QED  BY <2>3, <3>2
  <2>. QED  BY <2>1, <2>2, <2>3
<1>. QED  BY <1>2, <1>3, <1>4, <1>5 DEF ExactInv, ClearInv

(* At the start of a generation, with nobody of it on the device, nothing  *)
(* is expected of the cache and the staging buffers yet.                   *)
LEMMA ExactEarly ==
  ASSUME ExactInv, TypeInv', InTurn', NEW c \in Call, NEW fw, Become(c, fw),
         tokensSoFar = 0, UNCHANGED <<tokensSoFar, said>>,
         \A d \in Call : ~ (Current(d) /\ OnDevice(d)),
         CallExact(c)', ~ (Current(c) /\ OnDevice(c))',
         \A i \in Chunk : \A d \in Call :
           mapping'[i] = d => IF d = c THEN call'[c].pc = "map" /\ call'[c].chunk = i
                                       ELSE mapping[i] = d,
         ~ ResetInFlight => Clear',
         ResetInFlight => call'[c].pc # "submitted" /\ (call'[c].pc = "map" => mapping'[1] = c),
         mapping[1] # NoCall => UNCHANGED mapping
  PROVE  ExactInv'
<1>1. \A d \in Call : d # c => call'[d] = IF InFlight(d) THEN call[d] ELSE Idle
  BY Others
<1>2. \A d \in Call : ~ (Current(d) /\ OnDevice(d))'
  <2>1. SUFFICES ASSUME NEW d \in Call, d # c PROVE ~ (Current(d) /\ OnDevice(d))'
    OBVIOUS
  <2>. QED  BY <1>1, <2>1 DEF Current, OnDevice, InFlight, InFlightPhase, Idle
<1>3. \A d \in Call : CallExact(d)'
  <2>1. SUFFICES ASSUME NEW d \in Call, d # c PROVE CallExact(d)'
    OBVIOUS
  <2>2. CASE ~ InFlight(d)
    BY <1>1, <2>1, <2>2 DEF CallExact, Current, InFlight, InFlightPhase, Idle
  <2>3. CASE InFlight(d)
    <3>1. call'[d] = call[d] /\ CallExact(d)
      BY <1>1, <2>1, <2>3 DEF ExactInv
    <3>2. Current(d)' <=> Current(d)
      BY <3>1 DEF Current, InFlight
    <3>3. call'[d].pc # "done"
      BY <2>3, <3>1 DEF InFlight, InFlightPhase
    <3>4. Current(d)' => ~ OnDevice(d)'
      BY <1>2
    <3>. QED  BY <3>1, <3>2, <3>3, <3>4 DEF CallExact, OnDevice
  <2>. QED  BY <2>2, <2>3
<1>4. MapsInv'
  <2>1. SUFFICES ASSUME NEW i \in Chunk, NEW d \in Call, d # c, mapping'[i] = d
                 PROVE  call'[d].pc = "map" /\ call'[d].chunk = i
    BY DEF MapsInv
  <2>2. call[d].pc = "map" /\ call[d].chunk = i
    BY <2>1 DEF ExactInv, MapsInv
  <2>. QED  BY <1>1, <2>1, <2>2 DEF InFlight, InFlightPhase
<1>5. ClearInv'
  BY <1>2 DEF ClearInv
<1>6. Caches(said, tokensSoFar)'
  BY DEF ExactInv, Caches
<1>7. SeparateInv'
  <2>1. SUFFICES ASSUME ResetInFlight, NEW d \in Call, d # c
                 PROVE  call'[d].pc # "submitted" /\ (call'[d].pc = "map" => mapping'[1] = d)
    BY DEF SeparateInv
  <2>2. CASE ~ InFlight(d)
    BY <1>1, <2>1, <2>2 DEF Idle
  <2>3. CASE InFlight(d)
    <3>1. call'[d] = call[d]
      BY <1>1, <2>1, <2>3
    <3>2. call[d].pc # "submitted" /\ (call[d].pc = "map" => mapping[1] = d)
      BY <2>1 DEF ExactInv, SeparateInv
    <3>. QED  BY <3>1, <3>2, EngineAssumption
  <2>. QED  BY <2>2, <2>3
<1>. QED  BY <1>3, <1>4, <1>5, <1>6, <1>7 DEF ExactInv

(* A call that fails leaves the generation as it was.                      *)
LEMMA ExactFails ==
  ASSUME ExactInv, TypeInv', InTurn', NEW c \in Call, Become(c, Failed),
         UNCHANGED <<tokensSoFar, said, cache, staging>>,
         \A i \in Chunk : mapping'[i] = IF mapping[i] = c THEN NoCall ELSE mapping[i]
  PROVE  ExactInv'
<1>1. /\ call'[c].pc = "failed"
      /\ \A d \in Call : d # c => call'[d] = IF InFlight(d) THEN call[d] ELSE Idle
  <2>1. Failed.pc = "failed"
    BY DEF Failed, Idle
  <2>. QED  BY <2>1, Others, Zenon
<1>2. ~ InFlight(c)' /\ \A d \in Call : InFlight(d)' => InFlight(d) /\ d # c /\ call'[d] = call[d]
  BY <1>1 DEF InFlight, InFlightPhase, Idle
<1>3. \A d \in Call : Current(d)' => Current(d) /\ d # c
  BY <1>2 DEF Current
<1>4. \A d \in Call : CallExact(d)'
  <2>1. SUFFICES ASSUME NEW d \in Call PROVE CallExact(d)'
    OBVIOUS
  <2>2. CASE ~ InFlight(d)'
    <3>1. call'[d].pc # "bind" /\ ~ Current(d)'
      BY <2>2 DEF Current, InFlight, InFlightPhase
    <3>2. call'[d].pc # "done"
      BY <1>1, <2>2 DEF Idle, InFlight, InFlightPhase
    <3>. QED  BY <3>1, <3>2 DEF CallExact
  <2>3. CASE InFlight(d)'
    <3>1. call'[d] = call[d] /\ CallExact(d) /\ (Current(d)' <=> Current(d))
      BY <1>2, <2>3 DEF ExactInv, Current, InFlight
    <3>. QED  BY <3>1 DEF CallExact, OnDevice, Computed, Caches, NextPosition
  <2>. QED  BY <2>2, <2>3
<1>5. \A i \in Chunk : \A d \in Call : mapping'[i] = d => d # c /\ mapping[i] = d
  BY EngineAssumption
<1>6. MapsInv'
  <2>1. SUFFICES ASSUME NEW i \in Chunk, NEW d \in Call, mapping'[i] = d
                 PROVE  call'[d].pc = "map" /\ call'[d].chunk = i
    BY DEF MapsInv
  <2>2. d # c /\ call[d].pc = "map" /\ call[d].chunk = i
    BY <1>5, <2>1 DEF ExactInv, MapsInv
  <2>. QED  BY <1>1, <2>2 DEF InFlight, InFlightPhase
<1>7. Clear => Clear'
  BY <1>2 DEF Clear, Current
<1>8. ClearInv'
  <2>1. \A d \in Call : (Current(d) /\ OnDevice(d))' => Current(d) /\ OnDevice(d)
    BY <1>2, <1>3 DEF Current, OnDevice
  <2>. QED  BY <2>1, <1>7 DEF ExactInv, ClearInv
<1>9. SeparateInv'
  <2>1. SUFFICES ASSUME ResetInFlight, NEW d \in Call
                 PROVE  call'[d].pc # "submitted" /\ (call'[d].pc = "map" => mapping'[1] = d)
    BY <1>7 DEF ExactInv, SeparateInv
  <2>2. CASE d = c \/ ~ InFlight(d)
    BY <1>1, <2>2 DEF Idle
  <2>3. CASE d # c /\ InFlight(d)
    <3>1. call'[d] = call[d]
      BY <1>1, <2>3
    <3>2. call[d].pc # "submitted" /\ (call[d].pc = "map" => mapping[1] = d)
      BY <2>1 DEF ExactInv, SeparateInv
    <3>3. 1 \in Chunk
      BY EngineAssumption DEF Chunk
    <3>. QED  BY <2>3, <3>1, <3>2, <3>3
  <2>. QED  BY <2>2, <2>3
<1>10. Caches(said, tokensSoFar)'
  BY DEF ExactInv, Caches
<1>. QED  BY <1>4, <1>6, <1>8, <1>9, <1>10 DEF ExactInv

(* Where a call waits for its map, that map is its own.                    *)
LEMMA MapIsOwn ==
  ASSUME Separate, ExactInv, NEW c \in Call, call[c].pc = "map"
  PROVE  mapping[call[c].chunk] \in {c, NoCall}
<1>1. call[c].chunk \in Chunk /\ InFlight(c)
  BY DEF ExactInv, TypeInv, TypeOK, Forward, InFlight, InFlightPhase
<1>2. CASE ~ ResetInFlight
  <2>1. Alone(c)
    BY <1>1, <1>2, InFlightAlone DEF ExactInv, SeparateInv
  <2>. QED  BY <1>1, <2>1, MapsOfOne
<1>3. CASE ResetInFlight
  <2>1. mapping[1] = c /\ LastChunk = 1
    BY <1>3 DEF ExactInv, SeparateInv, Separate
  <2>2. call[c].chunk = 1
    BY <1>1, <2>1 DEF Chunk
  <2>. QED  BY <2>1, <2>2
<1>. QED  BY <1>2, <1>3

(* A call that was left behind by a reset maps the only chunk there is.    *)
LEMMA LeftBehind ==
  ASSUME Separate, ExactInv, NEW c \in Call, InFlight(c), call[c].stale
  PROVE  /\ ResetInFlight /\ LastChunk = 1 /\ ~ Profiled /\ tokensSoFar = 0
         /\ \A d \in Call : ~ (Current(d) /\ OnDevice(d))
BY DEF Separate, ExactInv, SeparateInv, ClearInv, Clear, Current

(* A call that fails while it maps gives up the one map it has.            *)
LEMMA ExactMapFails ==
  ASSUME ExactInv, TypeInv', NEW c \in Call, call[c].pc = "map", Become(c, Failed),
         mapping' = Unmap(call[c].chunk), UNCHANGED <<tokensSoFar, said, cache, staging, binding>>,
         mapping[call[c].chunk] \in {c, NoCall}
  PROVE  ExactInv'
<1>1. InTurn'
  BY TurnKept DEF ExactInv, TypeInv
<1>2. mapping \in [Chunk -> Call \cup {NoCall}] /\ call[c].chunk \in Chunk
  BY DEF ExactInv, TypeInv, TypeOK, Forward
<1>3. \A i \in Chunk : mapping[i] = c => i = call[c].chunk
  BY DEF ExactInv, MapsInv
<1>4. \A i \in Chunk : mapping'[i] = IF mapping[i] = c THEN NoCall ELSE mapping[i]
  BY <1>2, <1>3 DEF Unmap
<1>. QED  BY <1>1, <1>4, ExactFails

LEMMA InitExact == Init => ExactInv
<1>1. SUFFICES ASSUME Init PROVE ExactInv
  OBVIOUS
<1>2. \A c \in Call : call[c].pc = "idle"
  BY <1>1 DEF Init, Idle
<1>3. \A c \in Call : CallExact(c)
  BY <1>2 DEF CallExact, Current, InFlight, InFlightPhase
<1>4. MapsInv
  BY <1>1, EngineAssumption DEF Init, MapsInv
<1>5. Caches(said, tokensSoFar)
  <2>1. <<>> # Garbage
    BY NothingSaid
  <2>. QED  BY <1>1, <2>1 DEF Init, Caches
<1>6. InTurn
  BY <1>1 DEF Init, InTurn
<1>7. Clear /\ ClearInv /\ SeparateInv
  BY <1>2 DEF Clear, ClearInv, SeparateInv, InFlight, InFlightPhase
<1>. QED  BY <1>1, <1>3, <1>4, <1>5, <1>6, <1>7, InitTypes DEF ExactInv

LEMMA ExactStartPrefill ==
  ASSUME ExactInv, NEW c \in Call, StartPrefill(c)
  PROVE  ExactInv'
<1>1. PICK tokens \in Input : Become(c, [Begin(tokens) EXCEPT !.pc = "bind"])
  BY DEF StartPrefill
<1> DEFINE fw == [Begin(tokens) EXCEPT !.pc = "bind"]
<1>2. /\ fw.pc = "bind" /\ ~ fw.stale /\ fw.at = tokensSoFar
      /\ fw.expect = Extend(said, tokens) /\ fw.tokens = tokens
  BY BeginForms DEF ExactInv, TypeInv, Forward, InFlightPhase
<1>3. /\ tokensSoFar = 0 /\ UNCHANGED <<tokensSoFar, said, mapping>>
      /\ binding' = Append(binding, c) /\ MayBegin(c)
  BY DEF StartPrefill, engine
<1>4. call'[c] = fw
  BY <1>1, Others
<1>5. CallExact(c)' /\ ~ OnDevice(c)'
  BY <1>2, <1>3, <1>4 DEF CallExact, OnDevice
<1>6. ~ InFlight(c) /\ \A d \in Call : ~ Current(d)
  BY <1>3 DEF MayBegin, Current
<1>7. InTurn'
  BY <1>1, <1>3, <1>6, <1>2, <1>4, TurnTaken DEF ExactInv, TypeInv
<1>8. \A i \in Chunk : mapping[i] # c
  BY <1>6 DEF ExactInv, MapsInv, InFlight, InFlightPhase
<1>9. ~ ResetInFlight => Clear'
  <2>1. SUFFICES ASSUME ~ ResetInFlight, NEW d \in Call, InFlight(d)' PROVE Current(d)'
    BY DEF Clear
  <2>2. CASE d = c
    BY <1>2, <1>4, <2>1, <2>2 DEF Current
  <2>3. CASE d # c
    <3>1. InFlight(d)
      BY <1>1, <2>1, <2>3, Others
    <3>. QED  BY <1>6, <2>1, <3>1 DEF ExactInv, SeparateInv, Clear
  <2>. QED  BY <2>2, <2>3
<1>10. call'[c].pc = "bind"
  BY <1>2, <1>4
<1>11. TypeInv'
  BY TypesStartPrefill DEF ExactInv
<1>. QED  BY <1>1, <1>3, <1>5, <1>6, <1>7, <1>8, <1>9, <1>10, <1>11, ExactEarly

(* A submission nobody disturbs: the call that made it waits for its map,  *)
(* or for the queue, and finds its logits in every staging buffer.         *)
LEMMA SubmitMoves ==
  ASSUME NEW c \in Call, NEW fw \in Forward, NEW logits,
         Submittable, mapping \in [Chunk -> Call \cup {NoCall}], staging \in [Chunk -> Context],
         Submit(c, fw, logits)
  PROVE  \E g \in Forward :
           /\ Become(c, g)
           /\ g.stale = fw.stale /\ g.at = fw.at /\ g.tokens = fw.tokens
           /\ g.expect = fw.expect
           /\ \A i \in Chunk : staging'[i] = logits
           /\ \/ g.pc = "map" /\ g.chunk = 1 /\ mapping' = [mapping EXCEPT ![1] = c]
              \/ g.pc = "submitted" /\ mapping' = mapping /\ Profiled
<1>1. 1 \in Chunk
  BY EngineAssumption DEF Chunk
<1>2. \A i \in Chunk : staging'[i] = logits
  BY DEF Submit
<1>3. CASE Map(c, fw, 1, mapping)
  <2> DEFINE g == [fw EXCEPT !.pc = "map", !.chunk = 1]
  <2>1. Become(c, g) /\ mapping' = [mapping EXCEPT ![1] = c]
    BY <1>1, <1>3 DEF Map, Submittable
  <2>2. /\ g \in Forward /\ g.pc = "map" /\ g.chunk = 1 /\ g.expect = fw.expect
        /\ g.stale = fw.stale /\ g.at = fw.at /\ g.tokens = fw.tokens
    BY <1>1, Phases DEF Forward
  <2>. QED  BY <1>2, <2>1, <2>2
<1>4. CASE Profiled /\ Become(c, [fw EXCEPT !.pc = "submitted"]) /\ UNCHANGED mapping
  <2> DEFINE g == [fw EXCEPT !.pc = "submitted"]
  <2>1. /\ g \in Forward /\ g.pc = "submitted" /\ g.expect = fw.expect
        /\ g.stale = fw.stale /\ g.at = fw.at /\ g.tokens = fw.tokens
    BY <1>1, Phases DEF Forward
  <2>. QED  BY <1>2, <1>4, <2>1
<1>. QED  BY <1>3, <1>4 DEF Submit

(* So what has to be shown of a submission is what it left in the cache.   *)
LEMMA SubmitExact ==
  ASSUME Separate, ExactInv, TypeInv', InTurn', NEW c \in Call, Alone(c), call[c].pc # "map",
         NEW fw \in Forward, ~ fw.stale, fw.expect = Extend(said, fw.tokens),
         Submit(c, fw, fw.expect), UNCHANGED <<tokensSoFar, said>>,
         Caches(said, tokensSoFar)', Caches(fw.expect, NextPosition(fw))'
  PROVE  ExactInv'
<1>1. Submittable /\ \A i \in Chunk : mapping[i] = NoCall
  BY NoneMapped
<1>2. mapping \in [Chunk -> Call \cup {NoCall}] /\ staging \in [Chunk -> Context]
  BY DEF ExactInv, TypeInv, TypeOK
<1>3. PICK g \in Forward :
        /\ Become(c, g)
        /\ g.stale = fw.stale /\ g.at = fw.at /\ g.tokens = fw.tokens
        /\ g.expect = fw.expect
        /\ \A i \in Chunk : staging'[i] = fw.expect
        /\ \/ g.pc = "map" /\ g.chunk = 1 /\ mapping' = [mapping EXCEPT ![1] = c]
           \/ g.pc = "submitted" /\ mapping' = mapping /\ Profiled
  BY <1>1, <1>2, SubmitMoves
<1>4. call'[c] = g
  BY <1>3, Others
<1>5. CallExact(c)'
  <2>1. Computed(call[c])'
    BY <1>3, <1>4 DEF Computed, Caches, NextPosition
  <2>2. \A i \in Chunk : ~ (i < 1)
    BY EngineAssumption DEF Chunk
  <2>. QED  BY <1>3, <1>4, <2>1, <2>2 DEF CallExact
<1>6. /\ \A i \in Chunk :
           mapping'[i] = NoCall \/ (mapping'[i] = c /\ call'[c].pc = "map" /\ call'[c].chunk = i)
      /\ call'[c].pc = "map" => mapping'[call'[c].chunk] = c
  <2>1. 1 \in Chunk
    BY EngineAssumption DEF Chunk
  <2>. QED  BY <1>1, <1>2, <1>3, <1>4, <2>1
<1>7. ~ call'[c].stale /\ (ResetInFlight => call'[c].pc # "submitted")
  BY <1>3, <1>4 DEF Separate
<1>. QED  BY <1>3, <1>5, <1>6, <1>7, ExactAlone DEF Current

(* A prefill of this generation that is submitted, alone, ...              *)
LEMMA ExactSubmitCurrent ==
  ASSUME Separate, ExactInv, NEW c \in Call, SubmitPrefill(c), Alone(c), Current(c), InTurn'
  PROVE  ExactInv'
<1> DEFINE fw     == call[c]
           tokens == call[c].tokens
<1>1. InFlight(c) /\ call[c].pc = "bind"
  BY DEF SubmitPrefill, InFlight, InFlightPhase
<1>3. /\ fw \in Forward /\ ~ fw.stale /\ fw.at = tokensSoFar /\ Sized(fw)
      /\ fw.expect = Extend(said, tokens)
  BY <1>1, CallFacts DEF ExactInv, CallExact, Current
<1>4. tokensSoFar = 0
  BY <1>1, <1>3 DEF ExactInv, CallExact
<1>5. said = <<>>
  <2>1. said # Garbage /\ Len(said) = 0
    BY <1>4 DEF ExactInv, Caches
  <2>2. said \in Seq(Token)
    BY <2>1 DEF ExactInv, TypeInv, TypeOK, Context
  <2>. QED  BY <2>1, <2>2, EmptySeq
<1>6. tokens \in Seq(Token) /\ Len(tokens) \in 1 .. MaxPrompt /\ Len(tokens) <= MaxSeqLen
  BY <1>3, <1>4, InputIsShort, EngineAssumption DEF Sized, Forward
<1>7. fw.expect = tokens /\ tokens # Garbage
  BY <1>3, <1>5, <1>6, NothingSaid, EngineAssumption, ConcatEmptySeq DEF Extend
<1>8. Submit(c, fw, fw.expect) /\ UNCHANGED <<tokensSoFar, said>>
  BY <1>7 DEF SubmitPrefill, engine
<1>9. Caches(said, tokensSoFar)'
  BY <1>4, <1>5, <1>8, NothingSaid, EmptySeq DEF Caches
<1>10. cache' = [p \in Position |-> IF p < Len(tokens) THEN SubSeq(tokens, 1, p + 1) ELSE cache[p]]
  BY <1>1, NoneMapped DEF SubmitPrefill
<1>11. ASSUME NEW f, f = fw PROVE Caches(f.expect, NextPosition(f))'
  <2>1. f.expect = tokens /\ f.at = 0 /\ f.tokens = tokens
    BY <1>3, <1>4, <1>7, <1>11
  <2>2. \A p \in 0 .. Len(tokens) - 1 : cache'[p] = SubSeq(tokens, 1, p + 1)
    BY <1>6, <1>10, EngineAssumption DEF Position
  <2>. QED  BY <1>7, <2>1, <2>2 DEF Caches, NextPosition
<1>12. TypeInv'
  BY TypesSubmitPrefill DEF ExactInv
<1>. QED  BY <1>1, <1>3, <1>8, <1>9, <1>11, <1>12, SubmitExact

(* The first of the queue takes itself out of it.                          *)
LEMMA HeadLeaves ==
  ASSUME TypeInv, InTurn, NEW c \in Call, SubmitPrefill(c), NEW fw, Become(c, fw)
  PROVE  InTurn' /\ \A d \in Call : call[d].pc = "bind" /\ d # c => ~ Current(c)
<1>1. PICK i \in 1 .. Len(binding) : binding[i] = c
  BY DEF SubmitPrefill, TypeInv, QueueInv
<1>2. /\ binding \in Seq(Call) /\ binding # <<>> /\ Head(binding) = c /\ binding' = Tail(binding)
  BY <1>1 DEF SubmitPrefill, TypeInv, TypeOK
<1>3. 1 \in 1 .. Len(binding) /\ binding[1] = c
  BY <1>1, <1>2
<1>4. Len(binding') = Len(binding) - 1 /\ \A k \in 1 .. Len(binding') : binding'[k] = binding[k + 1]
  BY <1>2
<1>5. \A k \in 1 .. Len(binding') : ~ (k < 1)
  BY <1>2
<1>6. InTurn'
  BY <1>3, <1>4, <1>5, TurnLeft DEF TypeInv
<1>7. ASSUME NEW d \in Call, call[d].pc = "bind", d # c PROVE ~ Current(c)
  <2>1. PICK j \in 1 .. Len(binding) : binding[j] = d
    BY <1>7 DEF TypeInv, QueueInv
  <2>2. 1 < j
    BY <1>2, <1>3, <1>7, <2>1
  <2>. QED  BY <1>3, <2>1, <2>2 DEF InTurn
<1>. QED  BY <1>6, <1>7

(* ... and one left behind by a reset, before anything of the next         *)
(* generation is submitted.                                                *)
LEMMA ExactSubmitLate ==
  ASSUME Separate, ExactInv, NEW c \in Call, SubmitPrefill(c), Submittable, call[c].stale, InTurn'
  PROVE  ExactInv'
<1>1. InFlight(c) /\ call[c].pc = "bind" /\ call[c] \in Forward
  BY CallFacts DEF SubmitPrefill, InFlight, InFlightPhase, ExactInv
<1>2. /\ ResetInFlight /\ LastChunk = 1 /\ ~ Profiled /\ tokensSoFar = 0
      /\ \A d \in Call : ~ (Current(d) /\ OnDevice(d))
  BY <1>1, LeftBehind
<1>3. mapping \in [Chunk -> Call \cup {NoCall}] /\ staging \in [Chunk -> Context]
  BY DEF ExactInv, TypeInv, TypeOK
<1>4. Submit(c, call[c], call[c].tokens) /\ UNCHANGED <<tokensSoFar, said>>
  BY DEF SubmitPrefill, engine
<1>5. PICK g \in Forward :
        /\ Become(c, g) /\ g.stale = call[c].stale
        /\ \/ g.pc = "map" /\ g.chunk = 1 /\ mapping' = [mapping EXCEPT ![1] = c]
           \/ g.pc = "submitted" /\ mapping' = mapping /\ Profiled
  <2>1. PICK logits : Submit(c, call[c], logits)
    BY <1>4
  <2>2. \E g \in Forward :
          /\ Become(c, g)
          /\ g.stale = call[c].stale /\ g.at = call[c].at /\ g.tokens = call[c].tokens
          /\ g.expect = call[c].expect
          /\ \A i \in Chunk : staging'[i] = logits
          /\ \/ g.pc = "map" /\ g.chunk = 1 /\ mapping' = [mapping EXCEPT ![1] = c]
             \/ g.pc = "submitted" /\ mapping' = mapping /\ Profiled
    BY <1>1, <1>3, <2>1, SubmitMoves
  <2>. QED  BY <2>2
<1>6. /\ call'[c].stale /\ call'[c].pc = "map" /\ call'[c].chunk = 1
      /\ mapping' = [mapping EXCEPT ![1] = c]
  BY <1>2, <1>5, Others
<1>7. CallExact(c)' /\ ~ Current(c)'
  BY <1>6 DEF CallExact, Current
<1>8. \A i \in Chunk : mapping[i] = NoCall /\ i = 1
  BY <1>2 DEF Submittable, Chunk
<1>9. 1 \in Chunk /\ mapping'[1] = c
  BY <1>3, <1>6, EngineAssumption DEF Chunk
<1>10. mapping[1] = NoCall
  BY <1>8, <1>9
<1>11. \A i \in Chunk : \A d \in Call :
         mapping'[i] = d => IF d = c THEN call'[c].pc = "map" /\ call'[c].chunk = i ELSE mapping[i] = d
  BY <1>6, <1>8, <1>9
<1>12. TypeInv'
  BY TypesSubmitPrefill DEF ExactInv
<1>. QED  BY <1>2, <1>4, <1>5, <1>6, <1>7, <1>9, <1>10, <1>11, <1>12, ExactEarly

(* One that finds a map pending has no effect on the device, and fails at  *)
(* its own map.                                                            *)
LEMMA ExactSubmitInvalid ==
  ASSUME Separate, ExactInv, NEW c \in Call, SubmitPrefill(c), ~ Submittable, InTurn'
  PROVE  ExactInv'
<1>1. InFlight(c) /\ call[c].pc = "bind"
  BY DEF SubmitPrefill, InFlight, InFlightPhase
<1>2. ResetInFlight
  <2>1. SUFFICES ASSUME ~ ResetInFlight PROVE FALSE
    OBVIOUS
  <2>2. Alone(c)
    BY <1>1, <2>1, InFlightAlone DEF ExactInv, SeparateInv
  <2>. QED  BY <1>1, <2>2, NoneMapped
<1>3. mapping[1] # NoCall /\ ~ Profiled
  BY <1>2 DEF Separate, Submittable, Chunk
<1>4. Become(c, Failed) /\ UNCHANGED <<tokensSoFar, said, cache, staging, mapping>>
  BY <1>3 DEF SubmitPrefill, Submit, Map, engine
<1>5. \A i \in Chunk : mapping[i] # c
  BY <1>1 DEF ExactInv, MapsInv
<1>6. TypeInv'
  BY TypesSubmitPrefill DEF ExactInv
<1>. QED  BY <1>4, <1>5, <1>6, ExactFails

LEMMA ExactSubmitPrefill ==
  ASSUME Separate, ExactInv, NEW c \in Call, SubmitPrefill(c)
  PROVE  ExactInv'
<1>1. InFlight(c) /\ call[c].pc = "bind" /\ call[c] \in Forward
  BY CallFacts DEF SubmitPrefill, InFlight, InFlightPhase, ExactInv
<1>2. PICK fw : Become(c, fw)
  BY DEF SubmitPrefill, Submit, Map
<1>3. InTurn' /\ \A d \in Call : call[d].pc = "bind" /\ d # c => ~ Current(c)
  BY <1>2, HeadLeaves DEF ExactInv
<1>4. ASSUME Submittable, ~ call[c].stale PROVE Current(c) /\ Alone(c)
  <2>1. Current(c)
    BY <1>1, <1>4 DEF Current
  <2>2. CASE ~ ResetInFlight
    BY <1>1, <2>1, <2>2, InFlightAlone DEF ExactInv, SeparateInv
  <2>3. CASE ResetInFlight
    <3>1. SUFFICES ASSUME NEW d \in Call, InFlight(d), d # c PROVE FALSE
      BY <2>1 DEF Alone
    <3>2. call[d].pc = "map"
      BY <1>3, <2>1, <2>3, <3>1 DEF InFlight, InFlightPhase, ExactInv, SeparateInv
    <3>3. mapping[1] = d /\ 1 \in Chunk
      BY <2>3, <3>2, EngineAssumption DEF ExactInv, SeparateInv, Chunk
    <3>. QED  BY <1>4, <3>3, EngineAssumption DEF Submittable
  <2>. QED  BY <2>1, <2>2, <2>3
<1>. QED  BY <1>3, <1>4, ExactSubmitCurrent, ExactSubmitLate, ExactSubmitInvalid

(* A decode step attends to exactly what was said, and its own token.      *)
LEMMA AttendsToSaid ==
  ASSUME TypeOK, Caches(said, tokensSoFar), tokensSoFar # 0, NEW t \in Token
  PROVE  Attend(tokensSoFar, t) = Extend(said, <<t>>)
<1>1. tokensSoFar \in Nat \ {0} /\ cache[tokensSoFar - 1] = said
  BY CachedIsSaid, EngineAssumption DEF TypeOK, CachedContext
<1>2. CASE said = Garbage
  BY <1>1, <1>2 DEF Attend, Coherent, Extend
<1>3. CASE said # Garbage
  <2>1. said \in Seq(Token)
    BY <1>3 DEF TypeOK, Context
  <2>2. Coherent(tokensSoFar)
    BY <1>1, <1>3 DEF Coherent, Caches
  <2>3. Append(said, t) = said \o <<t>>
    BY <2>1, AppendIsConcat
  <2>. QED  BY <1>1, <1>3, <2>2, <2>3 DEF Attend, Extend
<1>. QED  BY <1>2, <1>3

LEMMA ExactStartDecode ==
  ASSUME Separate, ExactInv, NEW c \in Call, StartDecode(c)
  PROVE  ExactInv'
<1>1. PICK t \in Token :
        /\ cache' = IF Submittable
                      THEN [cache EXCEPT ![tokensSoFar] = Attend(tokensSoFar, t)]
                      ELSE cache
        /\ Submit(c, Begin(<<t>>), Attend(tokensSoFar, t))
  BY DEF StartDecode
<1> DEFINE n   == tokensSoFar
           ctx == Extend(said, <<t>>)
<1>2. /\ n \in Nat /\ n # 0 /\ n < MaxSeqLen
      /\ MayBegin(c) /\ UNCHANGED <<tokensSoFar, said>>
  BY EngineAssumption DEF StartDecode, engine, Fits, ExactInv, TypeInv, TypeOK
<1>3. Alone(c) /\ call[c].pc \notin {"bind", "map"}
  <2>1. Clear
    BY <1>2 DEF ExactInv, ClearInv
  <2>. QED  BY <1>2, <2>1, InFlightAlone DEF ExactInv, MayBegin, InFlight, InFlightPhase
<1>4. PICK fw \in Forward : fw = Begin(<<t>>)
  BY ShortInputs, BeginForms DEF ExactInv, TypeInv
<1>5. ~ fw.stale /\ fw.at = n /\ fw.tokens = <<t>> /\ fw.expect = ctx
  BY <1>4, ShortInputs, BeginForms DEF ExactInv, TypeInv
<1>6. Attend(n, t) = ctx
  BY <1>2, AttendsToSaid DEF ExactInv, TypeInv
<1>7. cache' = [cache EXCEPT ![n] = ctx]
  BY <1>1, <1>3, <1>6, NoneMapped
<1>8. n \in Position /\ cache' \in [Position -> Context]
      /\ cache'[n] = ctx /\ \A p \in 0 .. n - 1 : cache'[p] = cache[p]
  <2>1. n \in Position /\ \A p \in 0 .. n - 1 : p \in Position /\ p # n
    BY <1>2, EngineAssumption DEF Position
  <2>2. TypeInv' /\ cache \in [Position -> Context]
    BY TypesStartDecode DEF ExactInv, TypeInv, TypeOK
  <2>. QED  BY <1>7, <2>1, <2>2 DEF TypeInv, TypeOK
<1>9. Caches(said, tokensSoFar)'
  BY <1>2, <1>8 DEF ExactInv, Caches
<1>10. Caches(ctx, n + 1)'
  <2>1. CASE said = Garbage
    <3>1. ctx = Garbage /\ n + 1 # 0 /\ (n + 1) - 1 = n
      BY <1>2, <2>1 DEF Extend
    <3>2. cache'[(n + 1) - 1] = Garbage
      BY <1>8, <3>1
    <3>. QED  BY <1>2, <3>1, <3>2 DEF Caches
  <2>2. CASE said # Garbage
    <3>1. said \in Seq(Token) /\ n = Len(said)
      BY <2>2 DEF ExactInv, TypeInv, TypeOK, Context, Caches
    <3>2. ctx = Append(said, t) /\ ctx \in Seq(Token) /\ Len(ctx) = n + 1
      BY <2>2, <3>1, AppendIsConcat DEF Extend
    <3>3. ctx # Garbage
      BY <3>2, EngineAssumption
    <3>4. ASSUME NEW p \in 0 .. n PROVE cache'[p] = SubSeq(ctx, 1, p + 1)
      <4>1. CASE p = n
        <5>1. SubSeq(ctx, 1, n + 1) = ctx
          BY <3>2, WholePrefix
        <5>. QED  BY <4>1, <5>1, <1>8
      <4>2. CASE p # n
        <5>1. p \in 0 .. n - 1 /\ p + 1 \in 0 .. Len(said)
          BY <4>2, <3>1, <1>2
        <5>2. cache'[p] = SubSeq(said, 1, p + 1)
          BY <5>1, <2>2, <1>8 DEF ExactInv, Caches
        <5>3. SubSeq(ctx, 1, p + 1) = SubSeq(said, 1, p + 1)
          <6>1. SubSeq(Append(said, t), 1, p + 1) = SubSeq(said, 1, p + 1)
            BY <5>1, <3>1, PrefixOfAppend, Zenon
          <6>. QED  BY <6>1, <3>2
        <5>. QED  BY <5>2, <5>3
      <4>. QED  BY <4>1, <4>2
    <3>5. 0 .. (n + 1) - 1 = 0 .. n
      BY <1>2
    <3>6. UNCHANGED ctx
      BY <1>2
    <3>. QED  BY <1>2, <3>2, <3>3, <3>4, <3>5, <3>6 DEF Caches
  <2>. QED  BY <2>1, <2>2
<1>11. Caches(fw.expect, NextPosition(fw))'
  BY <1>2, <1>5, <1>10 DEF NextPosition, Caches
<1>12. Submit(c, fw, fw.expect)
  BY <1>1, <1>4, <1>5, <1>6
<1>13. TypeInv'
  BY TypesStartDecode DEF ExactInv
<1>14. InTurn'
  <2>1. PICK g : Become(c, g)
    BY <1>1 DEF Submit, Map
  <2>. QED  BY <1>3, <2>1, TurnKept DEF StartDecode, ExactInv, TypeInv
<1>. QED  BY <1>2, <1>3, <1>5, <1>9, <1>11, <1>12, <1>13, <1>14, SubmitExact

LEMMA ExactWorkDone ==
  ASSUME Separate, ExactInv, NEW c \in Call, WorkDone(c)
  PROVE  ExactInv'
<1> DEFINE g == [call[c] EXCEPT !.pc = "map", !.chunk = 1]
<1>1. InFlight(c) /\ call[c].pc = "submitted" /\ call[c] \in Forward
  BY CallFacts DEF WorkDone, InFlight, InFlightPhase, ExactInv
<1>2. ~ ResetInFlight /\ Current(c) /\ Alone(c)
  <2>1. ~ ResetInFlight /\ Clear
    BY <1>1 DEF ExactInv, SeparateInv
  <2>. QED  BY <1>1, <2>1, InFlightAlone DEF ExactInv, Clear
<1>3. \A i \in Chunk : mapping[i] = NoCall
  BY <1>1, <1>2, NoneMapped
<1>4. 1 \in Chunk
  BY EngineAssumption DEF Chunk
<1>5. Become(c, g) /\ mapping' = [mapping EXCEPT ![1] = c]
  BY <1>3, <1>4 DEF WorkDone, Map
<1>6. UNCHANGED <<tokensSoFar, said, cache, staging>>
  BY DEF WorkDone, engine
<1>7. /\ g.pc = "map" /\ g.chunk = 1 /\ g.expect = call[c].expect
      /\ g.stale = call[c].stale /\ g.at = call[c].at /\ g.tokens = call[c].tokens
  BY <1>1, <1>4, Phases DEF Forward
<1>8. call'[c] = g
  BY <1>5, Others
<1>9. CallExact(c)'
  <2>1. Computed(call[c])
    BY <1>1, <1>2 DEF ExactInv, CallExact, OnDevice
  <2>2. Computed(call[c])'
    BY <2>1, <1>6, <1>7, <1>8 DEF Computed, Caches, NextPosition
  <2>3. ~ call[c].stale /\ call[c].expect = Extend(said, call[c].tokens)
    BY <1>1, <1>2 DEF ExactInv, CallExact, Current
  <2>4. \A i \in Chunk : ~ (i < 1)
    BY EngineAssumption DEF Chunk
  <2>. QED  BY <1>6, <1>7, <1>8, <2>2, <2>3, <2>4 DEF CallExact
<1>10. Caches(said, tokensSoFar)'
  BY <1>6 DEF ExactInv, Caches
<1>11. /\ \A i \in Chunk :
            mapping'[i] = NoCall \/ (mapping'[i] = c /\ call'[c].pc = "map" /\ call'[c].chunk = i)
       /\ mapping'[call'[c].chunk] = c
  <2>1. mapping \in [Chunk -> Call \cup {NoCall}]
    BY DEF ExactInv, TypeInv, TypeOK
  <2>. QED  BY <1>3, <1>4, <1>5, <1>7, <1>8, <2>1
<1>12. TypeInv'
  BY TypesWorkDone DEF ExactInv
<1>13. InTurn'
  BY <1>1, <1>5, TurnKept DEF WorkDone, ExactInv, TypeInv
<1>14. ~ call'[c].stale
  BY <1>2, <1>7, <1>8 DEF Current
<1>. QED  BY <1>2, <1>5, <1>9, <1>10, <1>11, <1>12, <1>13, <1>14, ExactAlone DEF Current

(* A chunk of a call whose generation is going on, ...                     *)
LEMMA ExactReadBackCurrent ==
  ASSUME Separate, ExactInv, NEW c \in Call, ReadBack(c), ~ call[c].stale
  PROVE  ExactInv'
<1> DEFINE i == call[c].chunk
<1>1. InFlight(c) /\ call[c].pc = "map" /\ call[c] \in Forward /\ i \in Chunk /\ i \in Nat
  BY CallFacts, EngineAssumption
     DEF ReadBack, InFlight, InFlightPhase, ExactInv, Forward, Chunk
<1>2. Current(c) /\ OnDevice(c) /\ Alone(c)
  <2>1. Current(c) /\ OnDevice(c)
    BY <1>1 DEF Current, OnDevice
  <2>. QED  BY <2>1, OnDeviceAlone
<1>3. PICK fw \in Forward :
        /\ fw = [call[c] EXCEPT !.parts[i] = staging[i]]
        /\ fw.stale = call[c].stale /\ fw.at = call[c].at /\ fw.tokens = call[c].tokens
        /\ fw.expect = call[c].expect /\ fw.parts = [call[c].parts EXCEPT ![i] = staging[i]]
  BY <1>1, CopiedForms DEF ExactInv
<1>4. /\ ~ fw.stale /\ fw.expect = Extend(said, fw.tokens)
      /\ Caches(fw.expect, NextPosition(fw))
      /\ \A j \in Chunk : staging[j] = fw.expect
  BY <1>1, <1>2, <1>3 DEF ExactInv, CallExact, Computed, NextPosition
<1>5. \A j \in Chunk : j <= i => fw.parts[j] = fw.expect
  <2>1. \A j \in Chunk : j \in Nat
    BY EngineAssumption DEF Chunk
  <2>2. \A j \in Chunk : j < i => call[c].parts[j] = fw.expect
    BY <1>1, <1>2, <1>3 DEF ExactInv, CallExact
  <2>3. call[c].parts \in [Chunk -> Context]
    BY <1>1 DEF Forward
  <2>. QED  BY <1>1, <1>3, <1>4, <2>1, <2>2, <2>3
<1>6. Unmap(i) = [j \in Chunk |-> NoCall]
  <2>1. mapping \in [Chunk -> Call \cup {NoCall}]
    BY DEF ExactInv, TypeInv, TypeOK
  <2>2. \A j \in Chunk : j # i => mapping[j] = NoCall
    BY <1>2, MapsOfOne
  <2>. QED  BY <2>1, <2>2 DEF Unmap
<1>7. UNCHANGED <<cache, staging>>
  BY DEF ReadBack
<1>12. UNCHANGED binding
  BY DEF ReadBack
<1>8. TypeInv'
  BY TypesReadBack DEF ExactInv
<1>9. CASE i = LastChunk
  <2>1. Settle(c, fw) /\ mapping' = Unmap(i)
    BY <1>3, <1>9 DEF ReadBack
  <2>2. Become(c, Done(fw)) /\ tokensSoFar' = NextPosition(fw) /\ said' = fw.expect
    BY <1>4, <2>1 DEF Settle
  <2>3. call'[c].pc = "done" /\ call'[c].expect = fw.expect /\ call'[c].parts = fw.parts
    <3>1. Done(fw).pc = "done" /\ Done(fw).expect = fw.expect /\ Done(fw).parts = fw.parts
      BY DEF Done, Idle
    <3>. QED  BY <2>2, <3>1, Others
  <2>4. \A j \in Chunk : j <= i
    BY <1>9, EngineAssumption DEF Chunk
  <2>5. CallExact(c)'
    BY <1>5, <2>3, <2>4 DEF CallExact, Current, InFlight, InFlightPhase
  <2>6. Caches(said, tokensSoFar)'
    BY <1>4, <1>7, <2>2 DEF Caches
  <2>7. \A j \in Chunk : mapping'[j] = NoCall
    BY <1>6, <2>1
  <2>8. InTurn'
    BY <1>1, <1>12, <2>2, TurnKept DEF ExactInv, TypeInv
  <2>. QED  BY <1>2, <1>8, <2>2, <2>3, <2>5, <2>6, <2>7, <2>8, ExactAlone DEF InFlight, InFlightPhase
<1>10. CASE i # LastChunk
  <2>1. Map(c, fw, i + 1, Unmap(i)) /\ UNCHANGED <<tokensSoFar, said>>
    BY <1>3, <1>10 DEF ReadBack, engine
  <2>2. i + 1 \in Chunk
    BY <1>1, <1>10, EngineAssumption DEF Chunk
  <2>3. PICK g \in Forward : g = [fw EXCEPT !.pc = "map", !.chunk = i + 1]
    BY <2>2, Phases
  <2>4. Become(c, g) /\ mapping' = [Unmap(i) EXCEPT ![i + 1] = c]
    BY <1>6, <2>1, <2>2, <2>3 DEF Map
  <2>5. /\ g.pc = "map" /\ g.chunk = i + 1 /\ g.expect = fw.expect /\ g.parts = fw.parts
        /\ g.stale = fw.stale /\ g.at = fw.at /\ g.tokens = fw.tokens
    BY <2>3 DEF Forward
  <2>6. call'[c] = g
    BY <2>4, Others
  <2>7. CallExact(c)'
    <3>1. Computed(call[c])'
      BY <1>4, <1>7, <2>1, <2>5, <2>6 DEF Computed, Caches, NextPosition
    <3>2. \A j \in Chunk : j < i + 1 => j <= i
      BY <1>1, EngineAssumption DEF Chunk
    <3>. QED  BY <1>4, <1>5, <2>1, <2>5, <2>6, <3>1, <3>2 DEF CallExact
  <2>8. Caches(said, tokensSoFar)'
    BY <1>7, <2>1 DEF ExactInv, Caches
  <2>9. /\ \A j \in Chunk :
             mapping'[j] = NoCall \/ (mapping'[j] = c /\ call'[c].pc = "map" /\ call'[c].chunk = j)
        /\ mapping'[call'[c].chunk] = c
    BY <1>6, <2>2, <2>4, <2>5, <2>6
  <2>10. InTurn'
    BY <1>1, <1>12, <2>4, TurnKept DEF ExactInv, TypeInv
  <2>11. ~ call'[c].stale /\ call'[c].pc = "map"
    BY <1>4, <2>5, <2>6
  <2>. QED  BY <1>2, <1>8, <2>4, <2>7, <2>8, <2>9, <2>10, <2>11, ExactAlone DEF Current
<1>. QED  BY <1>9, <1>10

(* ... and the only one of a call left behind, which fails at the epoch.   *)
LEMMA LateReadBack ==
  ASSUME Separate, ExactInv, NEW c \in Call, ReadBack(c), call[c].stale
  PROVE  /\ Become(c, Failed) /\ mapping' = Unmap(call[c].chunk)
         /\ UNCHANGED <<engine, cache, staging, binding>>
<1> DEFINE i == call[c].chunk
<1>1. InFlight(c) /\ i \in Chunk
  BY CallFacts DEF ReadBack, InFlight, InFlightPhase, ExactInv, Forward
<1>2. i = LastChunk
  BY <1>1, LeftBehind DEF Chunk
<1>3. PICK fw : fw.stale = call[c].stale /\ Settle(c, fw) /\ mapping' = Unmap(i)
  BY <1>1, <1>2, CopiedForms DEF ReadBack, ExactInv
<1>. QED  BY <1>3 DEF ReadBack, Settle

LEMMA ExactReadBack ==
  ASSUME Separate, ExactInv, NEW c \in Call, ReadBack(c)
  PROVE  ExactInv'
<1>1. CASE ~ call[c].stale
  BY <1>1, ExactReadBackCurrent
<1>2. CASE call[c].stale
  <2>1. call[c].pc = "map" /\ TypeInv'
    BY TypesReadBack DEF ReadBack, ExactInv
  <2>. QED  BY <1>2, <2>1, LateReadBack, MapIsOwn, ExactMapFails DEF engine
<1>. QED  BY <1>1, <1>2

LEMMA ExactRefuse ==
  ASSUME ExactInv, NEW c \in Call, Refuse(c)
  PROVE  ExactInv'
<1>1. Become(c, Failed) /\ UNCHANGED <<tokensSoFar, said, cache, staging, mapping, binding>>
  BY DEF Refuse, engine
<1>2. call[c].pc \notin {"bind", "map"}
  BY DEF Refuse, MayBegin, InFlight, InFlightPhase
<1>3. \A i \in Chunk : mapping[i] # c
  BY <1>2 DEF ExactInv, MapsInv
<1>4. InTurn'
  BY <1>1, <1>2, TurnKept DEF ExactInv, TypeInv
<1>5. TypeInv'
  BY TypesRefuse DEF ExactInv
<1>. QED  BY <1>1, <1>3, <1>4, <1>5, ExactFails

LEMMA ExactBindFails ==
  ASSUME ExactInv, NEW c \in Call, BindFails(c)
  PROVE  ExactInv'
<1>1. /\ Become(c, Failed) /\ binding' = Without(c) /\ call[c].pc = "bind"
      /\ UNCHANGED <<tokensSoFar, said, cache, staging, mapping>>
  BY DEF BindFails, engine
<1>2. \A i \in Chunk : mapping[i] # c
  BY <1>1 DEF ExactInv, MapsInv
<1>3. \E i \in 1 .. Len(binding) : binding[i] = c
  BY <1>1 DEF ExactInv, TypeInv, QueueInv
<1>4. binding \in Seq(Call)
  BY DEF ExactInv, TypeInv, TypeOK
<1>5. PICK h \in 1 .. Len(binding) :
        /\ binding[h] = c /\ Len(Without(c)) = Len(binding) - 1
        /\ \A k \in 1 .. Len(Without(c)) : Without(c)[k] = binding[IF k < h THEN k ELSE k + 1]
  BY <1>3, <1>4, WithoutAt
<1>6. InTurn'
  BY <1>1, <1>5, TurnLeft DEF ExactInv, TypeInv
<1>7. TypeInv'
  BY TypesBindFails DEF ExactInv
<1>. QED  BY <1>1, <1>2, <1>6, <1>7, ExactFails

LEMMA ExactReadBackFails ==
  ASSUME Separate, ExactInv, NEW c \in Call, ReadBackFails(c)
  PROVE  ExactInv'
<1>1. /\ call[c].pc = "map" /\ Become(c, Failed) /\ mapping' = Unmap(call[c].chunk)
      /\ UNCHANGED <<tokensSoFar, said, cache, staging, binding>>
  BY DEF ReadBackFails, engine
<1>2. TypeInv'
  BY TypesReadBackFails DEF ExactInv
<1>. QED  BY <1>1, <1>2, MapIsOwn, ExactMapFails

(* A reset leaves nobody of its generation in flight.                      *)
LEMMA ExactReset ==
  ASSUME ExactInv, Reset
  PROVE  ExactInv'
<1>1. /\ tokensSoFar' = 0 /\ said' = <<>> /\ UNCHANGED <<mapping, binding>>
      /\ call' = [c \in Call |-> IF InFlight(c) THEN [call[c] EXCEPT !.stale = TRUE] ELSE Idle]
      /\ ~ ResetInFlight => \A c \in Call : ~ InFlight(c)
  BY DEF Reset
<1>2. ASSUME NEW c \in Call
      PROVE  IF InFlight(c) THEN /\ call'[c].stale /\ call'[c].pc = call[c].pc
                                 /\ call'[c].at = call[c].at /\ call'[c].chunk = call[c].chunk
                            ELSE call'[c] = Idle
  <2>1. call[c] \in Forward
    BY DEF ExactInv, TypeInv, TypeOK
  <2>. QED  BY <1>1, <2>1 DEF Forward
<1>3. \A c \in Call : ~ Current(c)'
  BY <1>2 DEF Current, InFlight, InFlightPhase, Idle
<1>4. \A c \in Call : CallExact(c)'
  <2>1. SUFFICES ASSUME NEW c \in Call PROVE CallExact(c)'
    OBVIOUS
  <2>2. CallExact(c)
    BY DEF ExactInv
  <2>. QED  BY <1>2, <1>3, <2>2 DEF CallExact, InFlight, InFlightPhase, Idle
<1>5. MapsInv'
  <2>1. SUFFICES ASSUME NEW i \in Chunk, NEW c \in Call, mapping[i] = c
                 PROVE  call'[c].pc = "map" /\ call'[c].chunk = i
    BY <1>1 DEF MapsInv
  <2>2. call[c].pc = "map" /\ call[c].chunk = i
    BY <2>1 DEF ExactInv, MapsInv
  <2>. QED  BY <1>2, <2>2 DEF InFlight, InFlightPhase
<1>6. InTurn'
  <2>1. \A i \in 1 .. Len(binding) :
          binding[i] \in Call /\ InFlight(binding[i]) /\ call[binding[i]].pc = "bind"
    BY DEF ExactInv, TypeInv, TypeOK, InTurn, InFlight, InFlightPhase
  <2>. QED  BY <1>1, <1>2, <1>3, <2>1 DEF ExactInv, InTurn
<1>7. SeparateInv'
  <2>1. ~ ResetInFlight => Clear'
    BY <1>1, <1>2 DEF Clear, InFlight, InFlightPhase, Idle
  <2>2. ASSUME ResetInFlight, NEW c \in Call
        PROVE  call'[c].pc # "submitted" /\ (call'[c].pc = "map" => mapping'[1] = c)
    BY <1>1, <1>2, <2>2 DEF ExactInv, SeparateInv, Idle
  <2>. QED  BY <2>1, <2>2 DEF SeparateInv
<1>8. Caches(said, tokensSoFar)'
  BY <1>1, NothingSaid, EmptySeq DEF Caches
<1>9. TypeInv'
  BY TypesReset DEF ExactInv
<1>. QED  BY <1>1, <1>3, <1>4, <1>5, <1>6, <1>7, <1>8, <1>9 DEF ExactInv, ClearInv

LEMMA ExactPoison ==
  ASSUME ExactInv, DebugPoisonKVCache
  PROVE  ExactInv'
<1>1. /\ cache' = [p \in Position |-> Garbage]
      /\ said' = IF tokensSoFar = 0 THEN said ELSE Garbage
      /\ UNCHANGED <<tokensSoFar, mapping, binding, call>>
      /\ \A c \in Call : ~ InFlight(c)
  BY DEF DebugPoisonKVCache
<1>2. \A c \in Call : ~ Current(c) /\ ~ Current(c)' /\ ~ InFlight(c)'
  BY <1>1 DEF Current, InFlight
<1>3. \A c \in Call : CallExact(c)'
  BY <1>1, <1>2 DEF ExactInv, CallExact
<1>4. MapsInv' /\ SeparateInv' /\ ClearInv' /\ InTurn'
  <2>1. MapsInv'
    BY <1>1 DEF ExactInv, MapsInv
  <2>2. SeparateInv' /\ ClearInv'
    BY <1>1, <1>2 DEF ExactInv, SeparateInv, ClearInv, Clear
  <2>3. \A i \in 1 .. Len(binding) : binding[i] \in Call
    BY DEF ExactInv, TypeInv, TypeOK
  <2>4. InTurn'
    BY <1>1, <1>2, <2>3 DEF ExactInv, InTurn
  <2>. QED  BY <2>1, <2>2, <2>4
<1>5. Caches(said, tokensSoFar)'
  <2>1. tokensSoFar \in 0 .. MaxSeqLen
    BY DEF ExactInv, TypeInv, TypeOK
  <2>2. CASE tokensSoFar = 0
    BY <1>1, <2>2 DEF ExactInv, Caches
  <2>3. CASE tokensSoFar # 0
    <3>1. tokensSoFar - 1 \in Position
      BY <2>1, <2>3, EngineAssumption DEF Position
    <3>. QED  BY <1>1, <2>3, <3>1 DEF Caches
  <2>. QED  BY <2>2, <2>3
<1>6. TypeInv'
  BY TypesPoison DEF ExactInv
<1>. QED  BY <1>3, <1>4, <1>5, <1>6 DEF ExactInv

LEMMA ExactNext == Separate /\ ExactInv /\ [Next]_vars => ExactInv'
<1>1. SUFFICES ASSUME Separate, ExactInv, [Next]_vars PROVE ExactInv'
  OBVIOUS
<1>2. CASE UNCHANGED vars
  <2>1. TypeInv'
    BY <1>1, TypesNext DEF ExactInv
  <2>2. UNCHANGED <<tokensSoFar, cache, staging, mapping, binding, call, said>>
    BY <1>2 DEF vars
  <2>3. \A c \in Call : CallExact(c)'
    BY <1>1, <2>2 DEF ExactInv, CallExact, Current, OnDevice, InFlight, Computed, Caches, NextPosition
  <2>4. MapsInv' /\ ClearInv' /\ InTurn' /\ SeparateInv' /\ Caches(said, tokensSoFar)'
    BY <1>1, <2>2 DEF ExactInv, MapsInv, ClearInv, Clear, InTurn, SeparateInv, Current, OnDevice,
       InFlight, Caches
  <2>. QED  BY <2>1, <2>3, <2>4 DEF ExactInv
<1>3. ASSUME NEW c \in Call, Start(c) \/ Refuse(c) \/ Advance(c) \/ BindFails(c) \/ ReadBackFails(c)
      PROVE  ExactInv'
  BY <1>1, <1>3, ExactStartPrefill, ExactStartDecode, ExactRefuse, ExactSubmitPrefill,
     ExactWorkDone, ExactReadBack, ExactBindFails, ExactReadBackFails DEF Start, Advance
<1>. QED  BY <1>1, <1>2, <1>3, ExactReset, ExactPoison DEF Next

LEMMA ExactHolds ==
  ASSUME Separate
  PROVE  Safety => []ExactInv
<1>1. ExactInv /\ [Next]_vars => ExactInv'
  BY ExactNext
<1>. QED  BY <1>1, InitExact, PTL DEF Safety

(* When callers await a forward before they reset, or the logits are read  *)
(* back in one chunk that is mapped as it is submitted, every forward that *)
(* resolves returns the logits of this generation's tokens, whatever       *)
(* allocations and readbacks failed and however often it was repeated.     *)
THEOREM LogitsAreExact ==
  ASSUME Separate
  PROVE  Safety => []LogitsExact
<1>1. ExactInv => LogitsExact
  BY DEF ExactInv, CallExact, LogitsExact
<1>. QED  BY <1>1, ExactHolds, PTL

(* ... and the cache holds exactly the tokens the position counts.         *)
THEOREM CacheIsTheGeneration ==
  ASSUME Separate
  PROVE  Safety => []CacheHoldsGeneration
<1>1. ExactInv => CacheHoldsGeneration
  BY DEF ExactInv, Caches, CacheHoldsGeneration
<1>. QED  BY <1>1, ExactHolds, PTL

-----------------------------------------------------------------------------
(* The reference engine *)

(* At every state the cache below the position is what was said ...        *)
LEMMA SaidIsCached == ExactInv => CachedContext = said
BY CachedIsSaid DEF ExactInv, TypeInv

(* ... and so it is at the next one.                                       *)
LEMMA SaidIsCachedNext == ExactInv' => CachedContext' = said'
BY CachedValue DEF ExactInv, TypeInv, TypeOK, Caches, CachedContext

(* A step after which no call is resolved, and in the same generation at   *)
(* the same position, shows a caller that its answer is taken.             *)
LEMMA RefinesTaken ==
  ASSUME ExactInv, ExactInv', UNCHANGED <<tokensSoFar, said>>,
         \A d \in Call : call'[d].pc # "done"
  PROVE  Reference!Taken
<1>1. UNCHANGED CachedContext
  BY SaidIsCached, SaidIsCachedNext
<1>2. Answers' = {}
  BY DEF Answers
<1>. QED  BY <1>1, <1>2 DEF Reference!Taken

(* The same for a step of call c.                                          *)
LEMMA RefinesCallStep ==
  ASSUME ExactInv, ExactInv', UNCHANGED <<tokensSoFar, said>>,
         NEW c \in Call, NEW fw, Become(c, fw), fw.pc # "done"
  PROVE  Reference!Taken
<1>1. \A d \in Call : call'[d].pc # "done"
  BY Others DEF Idle, InFlight, InFlightPhase
<1>. QED  BY <1>1, RefinesTaken

(* Where a call goes that is mapped, submitted or failed.                  *)
LEMMA RefinesGoesOn ==
  ASSUME ExactInv, ExactInv', UNCHANGED <<tokensSoFar, said>>,
         NEW c \in Call, NEW fw \in Forward, NEW i \in Chunk,
         \/ Become(c, [fw EXCEPT !.pc = "map", !.chunk = i])
         \/ Become(c, [fw EXCEPT !.pc = "submitted"])
         \/ Become(c, Failed)
  PROVE  Reference!Taken
<1>1. /\ [fw EXCEPT !.pc = "map", !.chunk = i].pc # "done"
      /\ [fw EXCEPT !.pc = "submitted"].pc # "done"
      /\ Failed.pc # "done"
  BY Phases
<1>2. CASE Become(c, [fw EXCEPT !.pc = "map", !.chunk = i])
  BY <1>1, <1>2, RefinesCallStep, Zenon
<1>3. CASE Become(c, [fw EXCEPT !.pc = "submitted"])
  BY <1>1, <1>3, RefinesCallStep, Zenon
<1>4. CASE Become(c, Failed)
  BY <1>1, <1>4, RefinesCallStep, Zenon
<1>. QED  BY <1>2, <1>3, <1>4

(* A submission writes above the position only, and answers nothing yet.   *)
LEMMA RefinesSubmit ==
  ASSUME ExactInv, ExactInv', UNCHANGED <<tokensSoFar, said>>,
         NEW c \in Call, NEW fw \in Forward, NEW logits, Submit(c, fw, logits)
  PROVE  Reference!Taken
<1>1. 1 \in Chunk
  BY EngineAssumption DEF Chunk
<1>2. \/ Become(c, [fw EXCEPT !.pc = "map", !.chunk = 1])
      \/ Become(c, [fw EXCEPT !.pc = "submitted"])
      \/ Become(c, Failed)
  BY DEF Submit, Map
<1>. QED  BY <1>1, <1>2, RefinesGoesOn

(* The last chunk read back of a call is the step of the reference engine. *)
LEMMA RefinesReadBack ==
  ASSUME ExactInv, ExactInv', NEW c \in Call, ReadBack(c), ~ call[c].stale
  PROVE  Reference!Next
<1> DEFINE i == call[c].chunk
<1>1. InFlight(c) /\ i \in Chunk /\ call[c] \in Forward /\ Sized(call[c])
  BY CallFacts DEF ReadBack, InFlight, InFlightPhase, ExactInv, Forward
<1>2. PICK fw \in Forward :
        /\ fw = [call[c] EXCEPT !.parts[i] = staging[i]]
        /\ fw.stale = call[c].stale /\ fw.at = call[c].at /\ fw.tokens = call[c].tokens
        /\ fw.expect = call[c].expect
  BY <1>1, CopiedForms DEF ExactInv
<1>3. CASE i # LastChunk
  <2>1. Map(c, fw, i + 1, Unmap(i)) /\ UNCHANGED <<tokensSoFar, said>>
    BY <1>2, <1>3 DEF ReadBack, engine
  <2>2. i + 1 \in Chunk
    BY <1>1, <1>3, EngineAssumption DEF Chunk
  <2>3. Become(c, [fw EXCEPT !.pc = "map", !.chunk = i + 1]) \/ Become(c, Failed)
    BY <2>1 DEF Map
  <2>. QED  BY <2>1, <2>2, <2>3, RefinesGoesOn DEF Reference!Next
<1>4. CASE i = LastChunk
  <2>1. Settle(c, fw)
    BY <1>2, <1>4 DEF ReadBack
  <2>2. /\ ~ fw.stale /\ fw.at = tokensSoFar /\ fw.expect = Extend(said, fw.tokens)
        /\ fw.tokens \in Seq(Token) /\ fw.tokens \in Input
    BY <1>1, <1>2, CallFacts, InputIsShort DEF ExactInv, CallExact, Current, Forward
  <2>3. Become(c, Done(fw)) /\ tokensSoFar' = NextPosition(fw) /\ said' = fw.expect
    BY <2>1, <2>2 DEF Settle
  <2>4. /\ tokensSoFar' = tokensSoFar + Len(fw.tokens) /\ tokensSoFar' <= MaxSeqLen
        /\ Len(fw.tokens) \in 1 .. MaxSeqLen
    <3>1. IF fw.at = 0 THEN Len(fw.tokens) \in 1 .. MaxPrompt
                       ELSE Len(fw.tokens) = 1 /\ fw.at < MaxSeqLen
      BY <1>1, <1>2 DEF Sized
    <3>2. tokensSoFar' = IF fw.at = 0 THEN Len(fw.tokens) ELSE tokensSoFar + 1
      BY <2>3 DEF NextPosition
    <3>3. tokensSoFar \in Nat /\ MaxSeqLen \in Nat /\ MaxPrompt \in 1 .. MaxSeqLen
      BY EngineAssumption DEF ExactInv, TypeInv, TypeOK
    <3>4. CASE fw.at = 0
      BY <2>2, <3>1, <3>2, <3>3, <3>4
    <3>5. CASE fw.at # 0
      <4>1. Len(fw.tokens) = 1 /\ tokensSoFar < MaxSeqLen /\ tokensSoFar' = tokensSoFar + 1
        BY <2>2, <3>1, <3>2, <3>5
      <4>. QED  BY <4>1, <3>3
    <3>. QED  BY <3>4, <3>5
  <2>5. fw.tokens \in Reference!Prompt
    <3>1. PICK n \in 0 .. MaxSeqLen + 1 : fw.tokens \in [1 .. n -> Token]
      BY <2>2 DEF Input
    <3>2. n = Len(fw.tokens)
      BY <2>2, <3>1, EngineAssumption
    <3>3. n \in 1 .. MaxSeqLen
      BY <2>4, <3>2
    <3>. QED  BY <3>1, <3>3 DEF Reference!Prompt
  <2>6. CachedContext' = Reference!Extend(CachedContext, fw.tokens)
    BY <2>2, <2>3, SaidIsCached, SaidIsCachedNext DEF Reference!Extend, Extend
  <2>7. Answers' = {CachedContext'}
    <3>1. call'[c].pc = "done" /\ call'[c].expect = fw.expect
      <4>1. Done(fw).pc = "done" /\ Done(fw).expect = fw.expect
        BY DEF Done, Idle
      <4>. QED  BY <2>3, <4>1, Others
    <3>2. \A j \in Chunk : call'[c].parts[j] = said'
      BY <2>3, <3>1 DEF ExactInv, CallExact
    <3>3. \A d \in Call : d # c => call'[d].pc # "done"
      BY <2>3, Others DEF Idle, InFlight, InFlightPhase
    <3>4. {d \in Call : call'[d].pc = "done"} = {c}
      BY <3>1, <3>3
    <3>5. {call'[c].parts[j] : j \in Chunk} = {said'}
      BY <1>1, <3>2
    <3>6. Answers' = UNION {{call'[d].parts[j] : j \in Chunk} : d \in {c}}
      BY <3>4 DEF Answers
    <3>. QED  BY <3>5, <3>6, SaidIsCachedNext
  <2>8. Reference!Forward(fw.tokens)
    BY <2>4, <2>6, <2>7 DEF Reference!Forward
  <2>. QED  BY <2>5, <2>8 DEF Reference!Next
<1>. QED  BY <1>3, <1>4

(* That of a call left behind by a reset is refused.                       *)
LEMMA RefinesLateReadBack ==
  ASSUME Separate, ExactInv, ExactInv', NEW c \in Call, ReadBack(c), call[c].stale
  PROVE  Reference!Taken
<1>1. Become(c, Failed) /\ UNCHANGED <<tokensSoFar, said>>
  BY LateReadBack DEF engine
<1>2. Failed.pc # "done"
  BY DEF Failed, Idle
<1>. QED  BY <1>1, <1>2, RefinesCallStep

LEMMA RefinesReset ==
  ASSUME ExactInv, ExactInv', Reset
  PROVE  Reference!Restart
<1>1. tokensSoFar' = 0 /\ said' = <<>>
  BY DEF Reset
<1>2. \A c \in Call : call'[c].pc # "done"
  <2>1. SUFFICES ASSUME NEW c \in Call PROVE call'[c].pc # "done"
    OBVIOUS
  <2>2. call[c] \in Forward
    BY DEF ExactInv, TypeInv, TypeOK
  <2>3. call'[c] = IF InFlight(c) THEN [call[c] EXCEPT !.stale = TRUE] ELSE Idle
    BY DEF Reset
  <2>. QED  BY <2>2, <2>3 DEF InFlight, InFlightPhase, Idle, Forward
<1>3. Answers' = {}
  BY <1>2 DEF Answers
<1>. QED  BY <1>1, <1>3, SaidIsCachedNext DEF Reference!Restart

LEMMA RefinesPoison ==
  ASSUME ExactInv, ExactInv', DebugPoisonKVCache
  PROVE  Reference!Spoil \/ UNCHANGED Reference!vars
<1>1. /\ said' = IF tokensSoFar = 0 THEN said ELSE Garbage
      /\ UNCHANGED <<tokensSoFar, call>>
  BY DEF DebugPoisonKVCache
<1>2. UNCHANGED Answers
  BY <1>1 DEF Answers
<1>3. CachedContext = said /\ CachedContext' = said'
  BY SaidIsCached, SaidIsCachedNext
<1>4. CASE tokensSoFar = 0
  BY <1>1, <1>2, <1>3, <1>4 DEF Reference!vars
<1>5. CASE tokensSoFar # 0
  BY <1>1, <1>2, <1>3, <1>5 DEF Reference!Spoil
<1>. QED  BY <1>4, <1>5

LEMMA RefinesNext ==
  Separate /\ ExactInv /\ ExactInv' /\ [Next]_vars => [Reference!Next]_(Reference!vars)
<1>1. SUFFICES ASSUME Separate, ExactInv, ExactInv', [Next]_vars
               PROVE  Reference!Next \/ UNCHANGED Reference!vars
  OBVIOUS
<1>2. CASE UNCHANGED vars
  BY <1>2 DEF vars, Reference!vars, Answers, CachedContext
<1>3. ASSUME NEW c \in Call, StartPrefill(c) PROVE Reference!Taken
  <2>1. PICK tokens \in Input : Become(c, [Begin(tokens) EXCEPT !.pc = "bind"])
    BY <1>3 DEF StartPrefill
  <2>2. [Begin(tokens) EXCEPT !.pc = "bind"].pc = "bind"
    BY BeginForms, <1>1 DEF ExactInv, TypeInv, Forward
  <2>3. UNCHANGED <<tokensSoFar, said>>
    BY <1>3 DEF StartPrefill, engine
  <2>. QED  BY <1>1, <2>1, <2>2, <2>3, RefinesCallStep
<1>4. ASSUME NEW c \in Call, StartDecode(c) PROVE Reference!Taken
  <2>1. PICK t \in Token : Submit(c, Begin(<<t>>), Attend(tokensSoFar, t))
    BY <1>4 DEF StartDecode
  <2>2. Begin(<<t>>) \in Forward
    BY <1>1, ShortInputs, BeginForms DEF ExactInv, TypeInv
  <2>3. UNCHANGED <<tokensSoFar, said>>
    BY <1>4 DEF StartDecode, engine
  <2>. QED  BY <1>1, <2>1, <2>2, <2>3, RefinesSubmit
<1>5. ASSUME NEW c \in Call, SubmitPrefill(c) PROVE Reference!Taken
  <2>1. Submit(c, call[c], call[c].tokens) /\ UNCHANGED <<tokensSoFar, said>>
    BY <1>5 DEF SubmitPrefill, engine
  <2>2. call[c] \in Forward
    BY <1>1 DEF ExactInv, TypeInv, TypeOK
  <2>. QED  BY <1>1, <2>1, <2>2, RefinesSubmit
<1>6. ASSUME NEW c \in Call, WorkDone(c) PROVE Reference!Taken
  <2>1. Map(c, call[c], 1, mapping) /\ UNCHANGED <<tokensSoFar, said>>
    BY <1>6 DEF WorkDone, engine
  <2>2. call[c] \in Forward /\ 1 \in Chunk
    BY <1>1, EngineAssumption DEF ExactInv, TypeInv, TypeOK, Chunk
  <2>3. Become(c, [call[c] EXCEPT !.pc = "map", !.chunk = 1]) \/ Become(c, Failed)
    BY <2>1 DEF Map
  <2>. QED  BY <1>1, <2>1, <2>2, <2>3, RefinesGoesOn
<1>7. ASSUME NEW c \in Call, Refuse(c) \/ BindFails(c) \/ ReadBackFails(c) PROVE Reference!Taken
  <2>1. Become(c, Failed) /\ UNCHANGED <<tokensSoFar, said>>
    BY <1>7 DEF Refuse, BindFails, ReadBackFails, engine
  <2>2. Failed.pc # "done"
    BY DEF Failed, Idle
  <2>. QED  BY <1>1, <2>1, <2>2, RefinesCallStep
<1>8. ASSUME NEW c \in Call, ReadBack(c) PROVE Reference!Next
  BY <1>1, <1>8, RefinesReadBack, RefinesLateReadBack DEF Reference!Next
<1>9. Reset => Reference!Restart
  BY <1>1, RefinesReset
<1>10. DebugPoisonKVCache => Reference!Spoil \/ UNCHANGED Reference!vars
  BY <1>1, RefinesPoison
<1>. QED  BY <1>1, <1>2, <1>3, <1>4, <1>5, <1>6, <1>7, <1>8, <1>9, <1>10
     DEF Next, Start, Advance, Reference!Next

LEMMA RefinesInit == Init => Reference!Init
<1>1. SUFFICES ASSUME Init PROVE Reference!Init
  OBVIOUS
<1>2. tokensSoFar = 0 /\ \A c \in Call : call[c].pc = "idle"
  BY <1>1 DEF Init, Idle
<1>3. Answers = {}
  BY <1>2 DEF Answers
<1>. QED  BY <1>2, <1>3 DEF Reference!Init, CachedContext

(* The resident engine, with its queue, its pending readbacks, its refused *)
(* allocations and its repeated calls, shows its callers what the          *)
(* reference engine would: a position, a cache below it, and answers.      *)
THEOREM EngineImplementsGeneration ==
  ASSUME Separate
  PROVE  Safety => ImplementsGeneration
<1>1. ExactInv /\ ExactInv' /\ [Next]_vars => [Reference!Next]_(Reference!vars)
  BY RefinesNext
<1>. QED  BY <1>1, RefinesInit, ExactHolds, PTL DEF Safety, ImplementsGeneration, Reference!Spec
=============================================================================
