----------------------------- MODULE AnimaForward -----------------------------
(***************************************************************************)
(* animaForwardResident (examples/anima/src/dit-resident.ts): the steps of *)
(* one forward of the Anima model, as Recording writes them.  c holds the  *)
(* shapes and what the caller asked for:                                   *)
(*   dim, lora, seq, contextSeq, heads, headDim, ffn, blocks               *)
(*   from, to        the shard                                             *)
(*   trace           activations are captured                              *)
(*   bias            the embedders have biases                             *)
(*   flash           the flash kernel takes this head size                 *)
(*   perBatch        heads whose scores fit the budget                     *)
(*   perDispatch     elements one dispatch can cover                       *)
(***************************************************************************)
EXTENDS Recording

LOCAL Width(c) == c.heads * c.headDim

LOCAL Size(c) == c.seq * c.dim

(* Buffers the call makes on the host and keeps with the weights.          *)
LOCAL HostMade(name) == <<"#", name>>

-----------------------------------------------------------------------------
(* One dispatch each *)

Project(name, x, to, n) == Into(to, n, {x}, {name})

RmsNorm(x, name, to, n) == Into(to, n, {x}, {name})

LayernormNoAffine(c, x, to) ==
  Into(to, Size(c), {x}, {HostMade("lnWeight"), HostMade("lnBias")})

(* One dispatch, or several of a size that keeps the offsets aligned.      *)
ChunkedFlat(c, n) ==
  IF n <= c.perDispatch THEN <<Elements(n)>> ELSE Ranges(n, (c.perDispatch \div 2) * 2)

Elementwise(c, from, to, n, weights) == IntoParts(to, n, ChunkedFlat(c, n), from, weights)

Activation(c, x, to, n) == IntoParts(to, n, ChunkedFlat(c, n), {x}, {})

(* Rows against one row.                                                   *)
RowsOp(c, from, to, rows, cols, weights) ==
  IF rows * cols <= c.perDispatch
    THEN Into(to, rows * cols, from, weights)
    ELSE IntoParts(to, rows * cols,
                   RowRanges(rows, IF c.perDispatch < cols THEN 1 ELSE c.perDispatch \div cols, cols),
                   from, weights)

Permute(x, to, n) == Into(to, n, {x}, {})

(* The flash kernel, or scores and context per batch of heads through one  *)
(* buffer of probabilities.                                                *)
Attention(c, q, k, v, to, kv) ==
  LET n == c.heads * c.seq * c.headDim
      bias == {HostMade("zeroBias")}
      batch(heads) ==
        Rewrite("probs", Cardinality(heads) * c.seq * kv, Wide(Elements(Cardinality(heads)), c.seq * kv),
                {q, k}, bias) \o
        Write("attended", Wide(heads, c.seq * c.headDim), {"probs", v}, {})
      heads == Ranges(c.heads, c.perBatch)
  IN IF c.flash
       THEN Into(to, n, {q, k, v}, bias)
       ELSE Take("attended", n) \o Take("probs", c.perBatch * c.seq * kv) \o
            FlattenSeq([i \in DOMAIN heads |-> batch(heads[i])]) \o Name(to, "attended")

(* One pass per axis; the names of the positions say which.                *)
ApplyRope(c, x, to, n) ==
  Into("rotT", n, {x, "posT"}, {HostMade("axes")}) \o
  Into("rotH", n, {"rotT", "posH"}, {HostMade("axes")}) \o
  Into(to, n, {"rotH", "posW"}, {HostMade("axes")})

-----------------------------------------------------------------------------
(* A block *)

(* One of the three equal parts of a vector.                               *)
LOCAL Chunk(from, to, n) == Into(to, n, {from}, {})

Modulation(c, p, which) ==
  Activation(c, "emb", "activated", c.dim) \o
  Project(<<p, which \o "1">>, "activated", "inner", c.lora) \o
  Project(<<p, which \o "2">>, "inner", "projected", 3 * c.dim) \o
  Elementwise(c, {"projected", "adalnLora"}, "biased", 3 * c.dim, {}) \o
  Chunk("biased", "shift", c.dim) \o Chunk("biased", "scale", c.dim) \o
  Chunk("biased", "gate", c.dim)

Modulate(c, x, to) ==
  Elementwise(c, {"scale"}, "scalePlusOne", c.dim, {HostMade("ones")}) \o
  RowsOp(c, {x, "scalePlusOne"}, "scaled", c.seq, c.dim, {}) \o
  RowsOp(c, {"scaled", "shift"}, to, c.seq, c.dim, {})

Attend(c, p, prefix, query, keyValue, kv, withRope, to) ==
  LET nq == c.seq * Width(c)
      nk == kv * Width(c)
  IN Project(<<p, prefix \o "q">>, query, "q", nq) \o
     Project(<<p, prefix \o "k">>, keyValue, "k", nk) \o
     Project(<<p, prefix \o "v">>, keyValue, "v", nk) \o
     RmsNorm("q", <<p, prefix \o "qNorm">>, "q", nq) \o
     RmsNorm("k", <<p, prefix \o "kNorm">>, "k", nk) \o
     (IF withRope THEN ApplyRope(c, "q", "q", nq) \o ApplyRope(c, "k", "k", nk) ELSE <<>>) \o
     Permute("q", "qHeads", nq) \o Permute("k", "kHeads", nk) \o Permute("v", "vHeads", nk) \o
     Attention(c, "qHeads", "kHeads", "vHeads", "mixed", kv) \o
     Permute("mixed", "merged", nq) \o
     Project(<<p, prefix \o "out">>, "merged", to, Size(c))

LOCAL GatedResidual(c, result) ==
  RowsOp(c, {result, "gate"}, "gated", c.seq, c.dim, {}) \o
  Elementwise(c, {"x", "gated"}, "x", Size(c), {})

SelfAttention(c, p) ==
  Modulation(c, p, "self") \o LayernormNoAffine(c, "x", "normed") \o
  Modulate(c, "normed", "modulated") \o
  Attend(c, p, "self", "modulated", "modulated", c.seq, TRUE, "result") \o
  GatedResidual(c, "result")

CrossAttention(c, p) ==
  Modulation(c, p, "cross") \o LayernormNoAffine(c, "x", "normed") \o
  Modulate(c, "normed", "modulated") \o
  Attend(c, p, "cross", "modulated", "context", c.contextSeq, FALSE, "result") \o
  GatedResidual(c, "result")

Mlp(c, p) ==
  Modulation(c, p, "mlp") \o LayernormNoAffine(c, "x", "normed") \o
  Modulate(c, "normed", "modulated") \o
  Project(<<p, "layer1">>, "modulated", "hidden", c.seq * c.ffn) \o
  Activation(c, "hidden", "activated", c.seq * c.ffn) \o
  Project(<<p, "layer2">>, "activated", "result", Size(c)) \o
  GatedResidual(c, "result")

(* Mutant: the positions are forgotten.                                    *)
Kept_NoPositions == {"emb", "adalnLora", "context"}

(* Everything the next block reads outlives the submit.                    *)
Kept == {"emb", "adalnLora", "context", "posT", "posH", "posW"}

Block(c, index) ==
  LET p == "block" \o ToString(index)
      captured == c.trace /\ index \in {0, c.blocks - 1}
  IN Announce(p) \o SelfAttention(c, p) \o CrossAttention(c, p) \o Mlp(c, p) \o
     Flush(Kept \cup {"x"}, IF captured THEN {"x"} ELSE {})

-----------------------------------------------------------------------------
(* The forward *)

TimestepEmbedding(c) ==
  Announce("t_embed") \o Upload("sample", c.dim) \o
  Project(<<"t_embed", "linear_1">>, "sample", "hidden", c.dim) \o
  Activation(c, "hidden", "hidden", c.dim) \o
  Project(<<"t_embed", "linear_2">>, "hidden", "adalnLora", 3 * c.dim) \o
  RmsNorm("sample", <<"t_embed", "norm">>, "emb", c.dim) \o
  Flush({"emb", "adalnLora"}, IF c.trace THEN {"emb"} ELSE {})

(* The first shard starts from the latent, a later one from the activation *)
(* it is given.                                                            *)
Embed(c) ==
  IF c.from = 0
    THEN Announce("x_embedder") \o Upload("patches", Size(c)) \o
         Project(<<"x_embedder", "weight">>, "patches", "x", Size(c)) \o
         (IF c.bias THEN RowsOp(c, {"x"}, "x", c.seq, c.dim, {<<"x_embedder", "bias">>}) ELSE <<>>)
    ELSE Upload("x", Size(c))

Conditions(c) ==
  Upload("context", c.contextSeq * c.dim) \o
  Upload("posT", 3 * c.seq) \o Upload("posH", 3 * c.seq) \o Upload("posW", 3 * c.seq) \o
  Flush(Kept \cup {"x"}, {})

FinalLayer(c) ==
  LET p == "final"
  IN Announce(p) \o
     Activation(c, "emb", "activated", c.dim) \o
     Project(<<p, "1">>, "activated", "inner", c.lora) \o
     Project(<<p, "2">>, "inner", "projected", 2 * c.dim) \o
     Chunk("adalnLora", "loraPrefix", 2 * c.dim) \o
     Elementwise(c, {"projected", "loraPrefix"}, "mod", 2 * c.dim, {}) \o
     Chunk("mod", "shift", c.dim) \o Chunk("mod", "scale", c.dim) \o
     LayernormNoAffine(c, "x", "normed") \o Modulate(c, "normed", "shifted") \o
     Project(<<p, "linear">>, "shifted", "latent", Size(c)) \o
     (IF c.bias THEN RowsOp(c, {"latent"}, "latent", c.seq, c.dim, {<<p, "bias">>}) ELSE <<>>) \o
     Readback({"latent"})

AnimaForwardResident(c) ==
  TimestepEmbedding(c) \o Embed(c) \o Conditions(c) \o
  FlattenSeq([i \in 1 .. c.to - c.from |-> Block(c, c.from + i - 1)]) \o
  (IF c.to < c.blocks THEN Readback({"x"}) ELSE FinalLayer(c))
=============================================================================
