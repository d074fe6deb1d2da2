--------------------------- MODULE ResidentEngine ---------------------------
(***************************************************************************)
(* The GPU-resident LLM engine (llm/engine-q8-resident.ts): forward() and  *)
(* reset() of one LlamaEngineQ8Resident, the batch() it submits through    *)
(* (harness/resident.ts in Node, browser-resident-runtime.ts in the demo), *)
(* and the part of WebGPU they rely on: the queue, and staging buffers     *)
(* that are mapped.                                                        *)
(*                                                                         *)
(* A call is one promise forward() returned.  One step of a call is what   *)
(* the code does between two awaits; other calls and reset() happen in     *)
(* between.  Queue work takes effect when it is submitted, since nothing   *)
(* can observe it before a later submission or a mapping does.             *)
(*                                                                         *)
(* What a forward pass computes is abstracted to its context: the tokens   *)
(* it attended to.  The cache entry and the logits of a position are the   *)
(* tokens up to that position, or Garbage when they were computed from     *)
(* cache entries that do not belong together.                              *)
(***************************************************************************)
EXTENDS Naturals, Sequences

CONSTANTS
  Call,           \* forward() promises that may exist at once
  Token,          \* the vocabulary
  MaxSeqLen,      \* positions in the KV cache
  MaxPrompt,      \* the longest prompt prefill's checks let through
  LastChunk,      \* lm_head is 1 .. LastChunk chunks, a staging buffer each
  Browser,        \* TRUE: the demo's runtime, FALSE: harness/resident.ts
  Profiled,       \* TRUE: calls may pass a profile
  ResetInFlight,  \* TRUE: reset() may be called while a call is in flight
  MaxFaults,      \* how many faults, misuse included, a behaviour may contain
  Garbage,        \* what attending to a wrong cache yields
  NoCall          \* nobody

ASSUME EngineAssumption ==
  /\ MaxSeqLen \in Nat /\ MaxPrompt \in 1 .. MaxSeqLen
  /\ LastChunk \in Nat \ {0}
  /\ Browser \in BOOLEAN /\ Profiled \in BOOLEAN /\ ResetInFlight \in BOOLEAN
  /\ MaxFaults \in Nat
  /\ Garbage \notin Seq(Token) /\ NoCall \notin Call

VARIABLES
  tokensSoFar,  \* the engine's position, 0: the next forward is a prefill
  allocFailed,  \* harness/resident.ts: an allocation has failed
  cache,        \* cache[p]: the KV cache at position p, all layers
  staging,      \* staging[i]: the contents of chunk i's staging buffer
  mapping,      \* mapping[i]: the call whose mapAsync of it is pending
  binding,      \* the calls that await bind groups, in the order they began
  call,         \* call[c]: the state of call c
  said,         \* history: the tokens of this generation's resolved calls
  faults        \* history: faults so far

vars == <<tokensSoFar, allocFailed, cache, staging, mapping, binding, call, said, faults>>

engine == <<tokensSoFar, said>>

-----------------------------------------------------------------------------
Chunk == 1 .. LastChunk

Position == 0 .. MaxSeqLen - 1

Context == Seq(Token) \cup {Garbage}

Extend(ctx, tokens) == IF ctx = Garbage THEN Garbage ELSE ctx \o tokens

(* What forward may be called with.                                        *)
Input == UNION {[1 .. n -> Token] : n \in 0 .. MaxSeqLen + 1}

InFlightPhase == {"bind", "submitted", "map"}

Forward == [pc     : {"idle", "done", "failed"} \cup InFlightPhase,
            stale  : BOOLEAN,             \* generationEpoch moved since it began
            at     : 0 .. MaxSeqLen,      \* tokensSoFar when it began
            tokens : Input,
            expect : Context,             \* history: what its logits stand for
            chunk  : Chunk,               \* the chunk being read back
            parts  : [Chunk -> Context]]  \* the logits read back so far

NoLogits == [i \in Chunk |-> Garbage]

Idle == [pc |-> "idle", stale |-> FALSE, at |-> 0, tokens |-> <<>>,
         expect |-> <<>>, chunk |-> 1, parts |-> NoLogits]

InFlight(c) == call[c].pc \in InFlightPhase

(* A promise that is settled holds its outcome and nothing else.           *)
Failed == [Idle EXCEPT !.pc = "failed"]

Done(fw) == [Idle EXCEPT !.pc = "done", !.expect = fw.expect, !.parts = fw.parts]

(* Call c moves to fw; what settled before has been taken by its caller.   *)
Become(c, fw) ==
  call' = [d \in Call |-> IF d = c THEN fw ELSE IF InFlight(d) THEN call[d] ELSE Idle]

Fault == faults < MaxFaults /\ faults' = faults + 1

Init ==
  /\ tokensSoFar = 0
  /\ allocFailed = FALSE
  /\ cache = [p \in Position |-> Garbage]
  /\ staging = NoLogits
  /\ mapping = [i \in Chunk |-> NoCall]
  /\ binding = <<>>
  /\ call = [c \in Call |-> Idle]
  /\ said = <<>>
  /\ faults = 0

-----------------------------------------------------------------------------
(* batch() *)

(* A queue submission that uses a buffer with a pending map is invalid and *)
(* has no effect.                                                          *)
Submittable == \A i \in Chunk : mapping[i] = NoCall

(* mapAsync of chunk i, where m is the mapping so far: it rejects when     *)
(* that buffer has a pending map already.                                  *)
Map(c, fw, i, m) ==
  IF m[i] = NoCall
    THEN /\ Become(c, [fw EXCEPT !.pc = "map", !.chunk = i])
         /\ mapping' = [m EXCEPT ![i] = c]
    ELSE /\ Become(c, Failed)
         /\ mapping' = m

(* batch() from the submission to its next await: the first mapping, or    *)
(* the queue when the call is profiled.  No error scope is around the      *)
(* submission: nobody learns that it was invalid.                          *)
Submit(c, fw, logits) ==
  /\ staging' = IF Submittable THEN [i \in Chunk |-> logits] ELSE staging
  /\ \/ Map(c, fw, 1, mapping)
     \/ /\ Profiled
        /\ Become(c, [fw EXCEPT !.pc = "submitted"])
        /\ UNCHANGED mapping

WorkDone(c) ==
  /\ call[c].pc = "submitted"
  /\ Map(c, call[c], 1, mapping)
  /\ UNCHANGED <<engine, allocFailed, cache, staging, binding, faults>>

(* Mutant: a prefill moves the position by one.                            *)
NextPosition_ByOne(fw) == tokensSoFar + 1

(* The prompt's length after a prefill, one more after a decode step.      *)
NextPosition(fw) == IF fw.at = 0 THEN Len(fw.tokens) ELSE tokensSoFar + 1

(* Mutant: the epoch is not compared.                                      *)
Settle_NoEpoch(c, fw) ==
  /\ Become(c, Done(fw))
  /\ tokensSoFar' = NextPosition(fw)
  /\ said' = fw.expect

(* assertSameEpoch, then the position moves on.                            *)
Settle(c, fw) ==
  IF fw.stale
    THEN /\ Become(c, Failed)
         /\ UNCHANGED engine
    ELSE /\ Become(c, Done(fw))
         /\ tokensSoFar' = NextPosition(fw)
         /\ said' = fw.expect

(* Mutant: the staging buffer is not unmapped.                             *)
Unmap_Never(i) == mapping

Unmap(i) == [mapping EXCEPT ![i] = NoCall]

(* A chunk is mapped: its contents are copied out, it is unmapped and the  *)
(* next one is mapped, or the call settles.                                *)
ReadBack(c) ==
  /\ call[c].pc = "map"
  /\ LET i  == call[c].chunk
         fw == [call[c] EXCEPT !.parts[i] = staging[i]]
     IN  IF i = LastChunk
           THEN Settle(c, fw) /\ mapping' = Unmap(i)
           ELSE Map(c, fw, i + 1, Unmap(i)) /\ UNCHANGED engine
  /\ UNCHANGED <<allocFailed, cache, staging, binding, faults>>

-----------------------------------------------------------------------------
(* forward() and reset() *)

(* Callers await each forward before the next one; after a reset they do   *)
(* not wait for calls of the generation it ended.                          *)
MayBegin(c) == ~InFlight(c) /\ \A d \in Call : InFlight(d) => call[d].stale

Begin(tokens) ==
  [Idle EXCEPT !.at = tokensSoFar, !.tokens = tokens, !.expect = Extend(said, tokens)]

StartPrefill(c) ==
  /\ MayBegin(c)
  /\ tokensSoFar = 0
  /\ ~allocFailed
  /\ \E tokens \in Input :
       /\ Len(tokens) \in 1 .. MaxPrompt
       /\ Become(c, [Begin(tokens) EXCEPT !.pc = "bind"])
  /\ binding' = Append(binding, c)
  /\ UNCHANGED <<engine, allocFailed, cache, staging, mapping, faults>>

(* All bind groups are there.  Their validations are answered in the order *)
(* they were asked, so no prefill overtakes one that began before it.      *)
(* The prompt attends to itself only and is copied into the cache.         *)
SubmitPrefill(c) ==
  /\ call[c].pc = "bind"
  /\ Head(binding) = c
  /\ LET tokens == call[c].tokens
     IN  /\ cache' = IF Submittable
                       THEN [p \in Position |-> IF p < Len(tokens)
                                                  THEN SubSeq(tokens, 1, p + 1)
                                                  ELSE cache[p]]
                       ELSE cache
         /\ Submit(c, call[c], tokens)
  /\ binding' = Tail(binding)
  /\ UNCHANGED <<engine, allocFailed, faults>>

(* The cache holds, at every position below at, one and the same context.  *)
Coherent(at) ==
  /\ cache[at - 1] # Garbage
  /\ \A p \in 0 .. at - 1 : cache[p] = SubSeq(cache[at - 1], 1, p + 1)

(* Mutant: sEff is the position, not one more.                             *)
Attend_OffByOne(at, token) ==
  IF Coherent(at) THEN cache[at - 1] ELSE Garbage

Attend(at, token) ==
  IF Coherent(at) THEN Append(cache[at - 1], token) ELSE Garbage

(* Mutant: the last position is exceeded by one.                           *)
Fits_OffByOne(at) == at <= MaxSeqLen

Fits(at) == at + 1 <= MaxSeqLen

(* A decode step submits before its first await: it writes the cache at    *)
(* its position and attends to it and all positions before.                *)
StartDecode(c) ==
  /\ MayBegin(c)
  /\ tokensSoFar # 0
  /\ Fits(tokensSoFar)
  /\ \E t \in Token :
       /\ cache' = IF Submittable
                     THEN [cache EXCEPT ![tokensSoFar] = Attend(tokensSoFar, t)]
                     ELSE cache
       /\ Submit(c, Begin(<<t>>), Attend(tokensSoFar, t))
  /\ UNCHANGED <<engine, allocFailed, binding, faults>>

(* forward rejects what it cannot do before it changes anything; a prefill *)
(* after an allocation failed does so at its first bind group.             *)
Refuse(c) ==
  /\ MayBegin(c)
  /\ \E tokens \in Input :
       \/ tokensSoFar = 0 /\ (allocFailed \/ Len(tokens) \notin 1 .. MaxPrompt)
       \/ tokensSoFar # 0 /\ (Len(tokens) # 1 \/ ~Fits(tokensSoFar))
  /\ Become(c, Failed)
  /\ UNCHANGED <<engine, allocFailed, cache, staging, mapping, binding, faults>>

(* Mutant: reset does not move the epoch on.                               *)
Reset_SameEpoch ==
  /\ IF \E c \in Call : InFlight(c) THEN ResetInFlight /\ Fault ELSE UNCHANGED faults
  /\ tokensSoFar' = 0
  /\ said' = <<>>
  /\ UNCHANGED <<allocFailed, cache, staging, mapping, binding, call>>

(* generationEpoch moves on: every call in flight has captured another     *)
(* value from now on.  The cache is left as it is.                         *)
Reset ==
  /\ IF \E c \in Call : InFlight(c) THEN ResetInFlight /\ Fault ELSE UNCHANGED faults
  /\ tokensSoFar' = 0
  /\ said' = <<>>
  /\ call' = [c \in Call |-> IF InFlight(c) THEN [call[c] EXCEPT !.stale = TRUE] ELSE Idle]
  /\ UNCHANGED <<allocFailed, cache, staging, mapping, binding>>

(* The tests' proof that nothing old is read: the whole cache is poisoned. *)
DebugPoisonKVCache ==
  /\ \A c \in Call : ~InFlight(c)
  /\ cache' = [p \in Position |-> Garbage]
  /\ said' = IF tokensSoFar = 0 THEN said ELSE Garbage
  /\ UNCHANGED <<tokensSoFar, allocFailed, staging, mapping, binding, call, faults>>

-----------------------------------------------------------------------------
(* What goes wrong *)

(* The calls that await bind groups but for c, which is one of them, once. *)
Without(c) ==
  LET i == CHOOSE i \in DOMAIN binding : binding[i] = c
  IN  SubSeq(binding, 1, i - 1) \o SubSeq(binding, i + 1, Len(binding))

(* A buffer of a prefill could not be allocated: its bind group is refused;*)
(* harness/resident.ts refuses every later one too, so a prefill that      *)
(* still needs one fails as well.                                          *)
BindFails(c) ==
  /\ call[c].pc = "bind"
  /\ IF allocFailed THEN UNCHANGED faults ELSE Fault
  /\ allocFailed' = ~Browser
  /\ binding' = Without(c)
  /\ Become(c, Failed)
  /\ UNCHANGED <<engine, cache, staging, mapping>>

(* Mutant: the position moves on before the readback.                      *)
ReadBackFails_Counts(c) ==
  /\ call[c].pc = "map"
  /\ Fault
  /\ mapping' = Unmap(call[c].chunk)
  /\ Become(c, Failed)
  /\ tokensSoFar' = IF call[c].stale THEN tokensSoFar ELSE NextPosition(call[c])
  /\ UNCHANGED <<said, allocFailed, cache, staging, binding>>

(* mapAsync rejects: the work was done and its result is not seen.         *)
ReadBackFails(c) ==
  /\ call[c].pc = "map"
  /\ Fault
  /\ mapping' = Unmap(call[c].chunk)
  /\ Become(c, Failed)
  /\ UNCHANGED <<engine, allocFailed, cache, staging, binding>>

-----------------------------------------------------------------------------
Start(c) == StartPrefill(c) \/ StartDecode(c)

Advance(c) == SubmitPrefill(c) \/ WorkDone(c) \/ ReadBack(c)

Next ==
  \/ \E c \in Call : Start(c) \/ Refuse(c) \/ Advance(c) \/ BindFails(c) \/ ReadBackFails(c)
  \/ Reset
  \/ DebugPoisonKVCache

(* The device answers, callers go on while they can and reset when they    *)
(* cannot.                                                                 *)
Fairness ==
  /\ \A c \in Call : WF_vars(Advance(c))
  /\ WF_vars(\E c \in Call : Start(c))
  /\ WF_vars(Reset)

Safety == Init /\ [][Next]_vars

Spec == Safety /\ Fairness

-----------------------------------------------------------------------------
(* Properties *)

(* The engine's state has the shapes the code gives it; in particular no   *)
(* cache write is out of range, whatever forward is called with.           *)
TypeOK ==
  /\ tokensSoFar \in 0 .. MaxSeqLen
  /\ allocFailed \in BOOLEAN
  /\ cache \in [Position -> Context]
  /\ staging \in [Chunk -> Context]
  /\ mapping \in [Chunk -> Call \cup {NoCall}]
  /\ binding \in Seq(Call)
  /\ call \in [Call -> Forward]
  /\ said \in Context
  /\ faults \in 0 .. MaxFaults

(* A forward that resolves returns, in every chunk, logits for exactly the *)
(* tokens of this generation so far and its own: no position lost after a  *)
(* failed call that was repeated, none counted twice, nothing left over    *)
(* from a generation before a reset, no other call's readback.             *)
LogitsExact ==
  \A c \in Call :
    call[c].pc = "done" => \A i \in Chunk : call[c].parts[i] = call[c].expect

(* The position counts the tokens that were answered, and the cache holds  *)
(* them below it: a call that fails after its submission has written       *)
(* nothing a repetition does not overwrite.                                *)
CacheHoldsGeneration ==
  said # Garbage =>
    /\ tokensSoFar = Len(said)
    /\ \A p \in 0 .. tokensSoFar - 1 : cache[p] = SubSeq(said, 1, p + 1)

(* Whatever failed or was reset, forward calls go on being answered: no    *)
(* failed call leaves a staging buffer behind that no later batch can use. *)
Serves ==
  []<><<\E c \in Call : call[c].pc = "map" /\ call'[c].pc = "done">>_vars

(* What the cache holds below the position, and what was answered.         *)
CachedContext == IF tokensSoFar = 0 THEN <<>> ELSE cache[tokensSoFar - 1]

Answers == UNION {{call[c].parts[i] : i \in Chunk} : c \in {d \in Call : call[d].pc = "done"}}

Reference == INSTANCE Generation WITH
  position <- tokensSoFar, context <- CachedContext, answers <- Answers

(* forward keeps the contract of the reference engine (engine.ts: "the     *)
(* entire KV-cache-continuation contract"), with the queue, the readbacks, *)
(* failures and resets in between: what the device's cache holds below the *)
(* position grows by exactly the tokens that are answered.                 *)
ImplementsGeneration == Reference!Spec
=============================================================================
