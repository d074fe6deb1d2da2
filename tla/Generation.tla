----------------------------- MODULE Generation -----------------------------
(***************************************************************************)
(* What forward() promises whoever generates text with it, as the          *)
(* reference engine (llm/engine.ts over llm/kv-cache.ts) keeps it with no  *)
(* queue, staging buffer or pending call in sight: new tokens go at the    *)
(* position, attend to all tokens cached before them and are answered;     *)
(* a call that fails changes nothing.  ResidentEngine implements this.     *)
(*                                                                         *)
(* A sequence of tokens stands for the KV entries computed from it, and    *)
(* for the logits.                                                         *)
(***************************************************************************)
EXTENDS Naturals, Sequences

CONSTANTS
  Token,      \* the vocabulary
  MaxSeqLen,  \* positions in the KV cache
  Garbage     \* what attending to a spoiled cache yields

VARIABLES
  position,  \* tokensSoFar: where the next token goes
  context,   \* what the cache holds below it
  answers    \* what the call that resolved last was answered, until the next one

vars == <<position, context, answers>>

-----------------------------------------------------------------------------
Prompt == UNION {[1 .. n -> Token] : n \in 1 .. MaxSeqLen}

Extend(ctx, tokens) == IF ctx = Garbage THEN Garbage ELSE ctx \o tokens

Init ==
  /\ position = 0
  /\ context = <<>>
  /\ answers = {}

(* write() of the new entries, read() of all up to them, the logits.       *)
Forward(tokens) ==
  /\ position + Len(tokens) <= MaxSeqLen
  /\ position' = position + Len(tokens)
  /\ context' = Extend(context, tokens)
  /\ answers' = {context'}

(* The caller has taken its answer, or its next call was rejected.         *)
Taken ==
  /\ answers' = {}
  /\ UNCHANGED <<position, context>>

(* A new generation: another engine, or the same one after reset().        *)
Restart ==
  /\ position' = 0
  /\ context' = <<>>
  /\ answers' = {}

(* A test overwrites the cache of a generation that has begun.             *)
Spoil ==
  /\ position # 0
  /\ context' = Garbage
  /\ UNCHANGED <<position, answers>>

Next ==
  \/ \E tokens \in Prompt : Forward(tokens)
  \/ Taken
  \/ Restart
  \/ Spoil

Spec == Init /\ [][Next]_vars
=============================================================================
