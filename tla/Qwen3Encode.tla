----------------------------- MODULE Qwen3Encode -----------------------------
(***************************************************************************)
(* qwen3EncodeGpu (examples/zimage/src/text-encoder-gpu.ts): the           *)
(* dispatches of the text encoder, each awaited before the next.  c holds  *)
(* the shapes:                                                             *)
(*   hidden, heads, kvHeads, headDim, ffn, seq                             *)
(*   layers      the layers up to the one it stops after                   *)
(*   finalNorm   the caller wants the final norm                           *)
(***************************************************************************)
EXTENDS Recording

Linear(from, n, w, to) == Run(to, n, {from}, {w})

Rmsnorm(from, n, w, to) == Run(to, n, {from}, {w})

Elementwise(from, n, to) == Run(to, n, from, {})

Activation(from, n, to) == Run(to, n, {from}, {})

Rope(from, n, to) == Run(to, n, {from}, {})

SplitHeads(from, n, to) == OnHost(to, n, {from})

GroupedAttention(c, to) ==
  Run("probs", c.heads * c.seq * c.seq, {"qHeads", "kHeads"}, {<<"#", "zeroBias">>}) \o
  Run(to, c.seq * c.heads * c.headDim, {"probs", "vHeads"}, {})

Layer(c, i) ==
  LET q    == c.seq * c.heads * c.headDim
      kv   == c.seq * c.kvHeads * c.headDim
      n    == c.seq * c.hidden
      wide == c.seq * c.ffn
      w(name) == <<"layer" \o ToString(i), name>>
  IN Rmsnorm("hidden", n, w("input_layernorm"), "normed") \o
     Linear("normed", q, w("q_proj"), "q") \o Linear("normed", kv, w("k_proj"), "k") \o
     Linear("normed", kv, w("v_proj"), "v") \o
     Rmsnorm("q", q, w("q_norm"), "q") \o Rmsnorm("k", kv, w("k_norm"), "k") \o
     Rope("q", q, "q") \o Rope("k", kv, "k") \o
     SplitHeads("q", q, "qHeads") \o SplitHeads("k", kv, "kHeads") \o SplitHeads("v", kv, "vHeads") \o
     GroupedAttention(c, "attn") \o OnHost("merged", q, {"attn"}) \o
     Linear("merged", n, w("o_proj"), "projected") \o
     Elementwise({"hidden", "projected"}, n, "hidden") \o
     Rmsnorm("hidden", n, w("post_attention_layernorm"), "normed2") \o
     Linear("normed2", wide, w("gate_proj"), "gate") \o Activation("gate", wide, "gate") \o
     Linear("normed2", wide, w("up_proj"), "up") \o Elementwise({"gate", "up"}, wide, "product") \o
     Linear("product", n, w("down_proj"), "down") \o Elementwise({"hidden", "down"}, n, "hidden")

Qwen3Encode(c) ==
  LET n == c.seq * c.hidden
  IN Upload("hidden", n) \o Loop(c.layers, LAMBDA i : Layer(c, i)) \o
     (IF c.finalNorm THEN Rmsnorm("hidden", n, <<"model", "norm">>, "hidden") ELSE <<>>) \o
     Readback({"hidden"})
=============================================================================
