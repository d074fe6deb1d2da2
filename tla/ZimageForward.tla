---------------------------- MODULE ZimageForward ----------------------------
(***************************************************************************)
(* ditForwardResident (examples/zimage/src/dit-resident.ts): the steps of  *)
(* one forward of the Z-Image model.  c holds the shapes:                  *)
(*   dim, adaln, mid, patch, ffn, heads, headDim                           *)
(*   xSeq, capSeq    tokens of the image and of the caption                *)
(*   capValid        the caption's real tokens, which come first           *)
(*   refiners, layers                                                      *)
(*   trace           activations are captured                              *)
(*   perBatch        heads whose scores fit the budget                     *)
(*   perDispatch     elements one dispatch can cover                       *)
(*   maxRows         workgroups one dispatch can have                      *)
(***************************************************************************)
EXTENDS Recording

LOCAL Width(c) == c.heads * c.headDim

LOCAL HostMade(name) == <<"#", name>>

-----------------------------------------------------------------------------
(* One dispatch each *)

Project(name, x, to, n) == Into(to, n, {x}, {name})

(* One workgroup a row, so a long sequence is split by rows.               *)
RmsNorm(c, x, name, to, rows, cols) ==
  IF rows <= c.maxRows
    THEN Into(to, rows * cols, {x}, {name})
    ELSE IntoParts(to, rows * cols, RowRanges(rows, c.maxRows, cols), {x}, {name})

ChunkedFlat(c, n) ==
  IF n <= c.perDispatch THEN <<Elements(n)>> ELSE Ranges(n, (c.perDispatch \div 2) * 2)

Elementwise(c, from, to, n, weights) == IntoParts(to, n, ChunkedFlat(c, n), from, weights)

Activation(c, x, to, n) == IntoParts(to, n, ChunkedFlat(c, n), {x}, {})

RowsOp(c, from, to, rows, cols, weights) ==
  IF rows * cols <= c.perDispatch
    THEN Into(to, rows * cols, from, weights)
    ELSE IntoParts(to, rows * cols,
                   RowRanges(rows, IF c.perDispatch < cols THEN 1 ELSE c.perDispatch \div cols, cols),
                   from, weights)

RopeAxes(x, positions, to, n) == Into(to, n, {x, positions}, {HostMade("axisDims")})

Permute(x, to, n) == Into(to, n, {x}, {})

(* Scores and context per batch of heads, through one buffer.              *)
Attention(c, q, k, v, to, seq) ==
  LET heads == Ranges(c.heads, c.perBatch)
      batch(some) ==
        Rewrite("probs", Cardinality(some) * seq * seq, Wide(Elements(Cardinality(some)), seq * seq),
                {q, k}, {HostMade("zeroBias")}) \o
        Write("attended", Wide(some, seq * c.headDim), {"probs", v}, {})
  IN Take("attended", c.heads * seq * c.headDim) \o Take("probs", c.perBatch * seq * seq) \o
     FlattenSeq([i \in DOMAIN heads |-> batch(heads[i])]) \o Name(to, "attended")

-----------------------------------------------------------------------------
(* A block *)

(* Refiners of the caption are not modulated: their scales and gates are   *)
(* the one vector of ones, a weight.                                       *)
Modulation(c, p) ==
  LET chunk(to) == Into(to, c.dim, {"biased"}, {})
  IN Project(<<p, "adaLN">>, "adalnInput", "mod", 4 * c.dim) \o
     RowsOp(c, {"mod"}, "biased", 1, 4 * c.dim, {<<p, "adaLNbias">>}) \o
     chunk("scaleMsa") \o chunk("gateMsa") \o Activation(c, "gateMsa", "gateMsa", c.dim) \o
     chunk("scaleMlp") \o chunk("gateMlp") \o Activation(c, "gateMlp", "gateMlp", c.dim) \o
     Elementwise(c, {"scaleMsa"}, "scaleMsa", c.dim, {HostMade("ones")}) \o
     Elementwise(c, {"scaleMlp"}, "scaleMlp", c.dim, {HostMade("ones")})

(* Attention over the live rows only; the padded ones are zero.            *)
Merged(c, live, seq) ==
  IF live = seq
    THEN Name("merged", "mergedLive")
    ELSE Take("merged", seq * Width(c)) \o
         Write("merged", Elements(seq * Width(c)), {}, {HostMade("zeroTail")}) \o
         Write("merged", Elements(live * Width(c)), {"mergedLive"}, {})

Block(c, p, modulated, x, positions, seq, live) ==
  LET n    == seq * c.dim
      wide == seq * Width(c)
      Scaled(from, by, to) ==
        IF modulated THEN RowsOp(c, {from, by}, to, seq, c.dim, {})
                     ELSE RowsOp(c, {from}, to, seq, c.dim, {HostMade("ones")})
      PerHead(name, norm, to) ==
        RmsNorm(c, name, <<p, norm>>, to, seq * c.heads, c.headDim) \o
        RopeAxes(to, positions, to, wide)
  IN (IF modulated THEN Modulation(c, p) ELSE <<>>) \o
     RmsNorm(c, x, <<p, "norm1">>, "normed1", seq, c.dim) \o Scaled("normed1", "scaleMsa", "scaled1") \o
     Project(<<p, "to_q">>, "scaled1", "q", wide) \o Project(<<p, "to_k">>, "scaled1", "k", wide) \o
     Project(<<p, "to_v">>, "scaled1", "v", wide) \o
     PerHead("q", "norm_q", "q") \o PerHead("k", "norm_k", "k") \o
     Permute("q", "qLive", live * Width(c)) \o Permute("k", "kLive", live * Width(c)) \o
     Permute("v", "vLive", live * Width(c)) \o
     Attention(c, "qLive", "kLive", "vLive", "mixed", live) \o
     Permute("mixed", "mergedLive", live * Width(c)) \o Merged(c, live, seq) \o
     Project(<<p, "to_out">>, "merged", "projected", n) \o
     RmsNorm(c, "projected", <<p, "norm2">>, "normed2", seq, c.dim) \o
     Scaled("normed2", "gateMsa", "gated1") \o Elementwise(c, {x, "gated1"}, "h1", n, {}) \o
     RmsNorm(c, "h1", <<p, "ffn_norm1">>, "normed3", seq, c.dim) \o
     Scaled("normed3", "scaleMlp", "scaled2") \o
     Project(<<p, "w1">>, "scaled2", "gate", seq * c.ffn) \o
     Activation(c, "gate", "gate", seq * c.ffn) \o
     Project(<<p, "w3">>, "scaled2", "up", seq * c.ffn) \o
     Elementwise(c, {"gate", "up"}, "gated", seq * c.ffn, {}) \o
     Project(<<p, "w2">>, "gated", "ffn", n) \o
     RmsNorm(c, "ffn", <<p, "ffn_norm2">>, "normed4", seq, c.dim) \o
     Scaled("normed4", "gateMlp", "gated2") \o Elementwise(c, {"h1", "gated2"}, x, n, {})

-----------------------------------------------------------------------------
(* The forward *)

LOCAL Captured(c, here, x) == IF c.trace /\ here THEN {x} ELSE {}

(* Both embedders are preloaded before the first is read.                  *)
Embed(c) ==
  Announce("t_embedder") \o Announce("all_x_embedder") \o
  Upload("tFreq", c.mid) \o
  Project(<<"t_embedder", "0">>, "tFreq", "tMid", c.mid) \o
  RowsOp(c, {"tMid"}, "tMid", 1, c.mid, {<<"t_embedder", "0bias">>}) \o
  Activation(c, "tMid", "tMid", c.mid) \o
  Project(<<"t_embedder", "2">>, "tMid", "adalnInput", c.adaln) \o
  RowsOp(c, {"adalnInput"}, "adalnInput", 1, c.adaln, {<<"t_embedder", "2bias">>}) \o
  Upload("patches", c.xSeq * c.patch) \o
  Project(<<"all_x_embedder", "weight">>, "patches", "x", c.xSeq * c.dim) \o
  RowsOp(c, {"x"}, "x", c.xSeq, c.dim, {<<"all_x_embedder", "bias">>}) \o
  Flush({"adalnInput", "x"}, Captured(c, TRUE, "adalnInput"))

NoiseRefiner(c, i) ==
  LET p == "noise" \o ToString(i)
  IN Announce(p) \o Block(c, p, TRUE, "x", "xPositions", c.xSeq, c.xSeq) \o
     Flush({"adalnInput", "x", "xPositions"}, Captured(c, i = c.refiners - 1, "x"))

(* The caption's padding is a token of its own, copied over the tail.      *)
EmbedCaption(c) ==
  Announce("cap_embedder") \o Upload("capFeats", c.capSeq * c.dim) \o
  RmsNorm(c, "capFeats", <<"cap_embedder", "0">>, "capNormed", c.capSeq, c.dim) \o
  Project(<<"cap_embedder", "1">>, "capNormed", "cap", c.capSeq * c.dim) \o
  RowsOp(c, {"cap"}, "cap", c.capSeq, c.dim, {<<"cap_embedder", "bias">>}) \o
  Flush({"adalnInput", "x", "xPositions", "cap"}, {}) \o
  (IF c.capValid = c.capSeq THEN <<>>
   ELSE Announce("cap_pad_token") \o
        Rewrite("cap", c.capSeq * c.dim, Elements(c.capSeq * c.dim), {"cap"},
                {<<"cap_pad_token", "#capPad">>}))

ContextRefiner(c, i) ==
  LET p == "context" \o ToString(i)
  IN Announce(p) \o Block(c, p, FALSE, "cap", "capPositions", c.capSeq, c.capValid) \o
     Flush({"adalnInput", "x", "xPositions", "cap", "capPositions"},
           Captured(c, i = c.refiners - 1, "cap"))

(* The image's tokens and then the caption's.                              *)
Unify(c) ==
  LET n == (c.xSeq + c.capSeq) * c.dim
  IN Take("unified", n) \o
     Write("unified", Elements(c.xSeq * c.dim), {"x"}, {}) \o
     Write("unified", Elements(n) \ Elements(c.xSeq * c.dim), {"cap"}, {}) \o
     Upload("positions", 3 * (c.xSeq + c.capSeq)) \o
     Flush({"adalnInput", "unified", "positions"}, {})

Layer(c, i) ==
  LET p == "layer" \o ToString(i)
  IN Announce(p) \o
     Block(c, p, TRUE, "unified", "positions", c.xSeq + c.capSeq, c.xSeq + c.capValid) \o
     Flush({"adalnInput", "unified", "positions"}, Captured(c, i \in {0, c.layers - 1}, "unified"))

FinalLayer(c) ==
  LET p == "final"
      seq == c.xSeq + c.capSeq
  IN Announce(p) \o
     Activation(c, "adalnInput", "scale", c.adaln) \o
     Project(<<p, "adaLN">>, "scale", "scale", c.dim) \o
     RowsOp(c, {"scale"}, "scale", 1, c.dim, {<<p, "adaLNbias">>}) \o
     Elementwise(c, {"scale"}, "scale", c.dim, {HostMade("ones")}) \o
     Into("normed", seq * c.dim, {"unified"}, {HostMade("lnWeight"), HostMade("lnBias")}) \o
     RowsOp(c, {"normed", "scale"}, "scaled", seq, c.dim, {}) \o
     Project(<<p, "linear">>, "scaled", "projected", seq * c.patch) \o
     RowsOp(c, {"projected"}, "projected", seq, c.patch, {<<p, "linearBias">>}) \o
     Readback({"projected"})

DitForwardResident(c) ==
  Embed(c) \o Upload("xPositions", 3 * c.xSeq) \o Loop(c.refiners, LAMBDA i : NoiseRefiner(c, i)) \o
  EmbedCaption(c) \o Upload("capPositions", 3 * c.capSeq) \o
  Loop(c.refiners, LAMBDA i : ContextRefiner(c, i)) \o Unify(c) \o
  Loop(c.layers, LAMBDA i : Layer(c, i)) \o FinalLayer(c)
=============================================================================
