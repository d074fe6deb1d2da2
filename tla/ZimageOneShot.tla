---------------------------- MODULE ZimageOneShot ----------------------------
(***************************************************************************)
(* ditForwardGpu (examples/zimage/src/dit-gpu.ts): the same model as       *)
(* ZimageForward, one awaited dispatch at a time, with the padding, the    *)
(* head layout and the biases done on the host.  c holds the shapes of     *)
(* ZimageForward; perBatch counts heads, perDispatch elements.  Its one    *)
(* caller passes no prefetch hook and reads its weights from a file.       *)
(***************************************************************************)
EXTENDS Recording

LOCAL Width(c) == c.heads * c.headDim

Chunked(c, to, n, from) == RunParts(to, n, Ranges(n, c.perDispatch), from, {})

(* linear and linearPacked: the bias, if any, is added on the host.        *)
Linear(from, n, w, to) == Run(to, n, {from}, {w})

LinearBias(from, n, w, bias, to) == Run("y", n, {from}, {w, bias}) \o OnHost(to, n, {"y"})

Rmsnorm(from, n, w, to) == Run(to, n, {from}, {w})

Elementwise(c, from, n, to) == Chunked(c, to, n, from)

ElementwiseRows(from, n, to) == Run(to, n, from, {})

Activation(c, from, n, to) == Chunked(c, to, n, {from})

(* The padded input and the padded positions are made on the host.         *)
RopeAxes(from, positions, n, to) ==
  OnHost("padded", n, {from}) \o Run(to, n, {"padded", positions}, {})

SplitHeads(from, n, to) == OnHost(to, n, {from})

LOCAL Dispatch(c, some, seq, from, to) ==
  Run("probs", Cardinality(some) * seq * seq, from, {<<"#", "zeroBias">>}) \o
  Write(to, Wide(some, seq * c.headDim), {"probs", "vHeads"}, {}) \o Await

(* All heads at once when their scores fit, else a batch at a time.        *)
Attention(c, seq, to) ==
  LET heads == Ranges(c.heads, IF c.heads <= c.perBatch THEN c.heads ELSE c.perBatch)
  IN Take(to, c.heads * seq * c.headDim) \o
     FlattenSeq([i \in DOMAIN heads |-> Dispatch(c, heads[i], seq, {"qHeads", "kHeads"}, to)])

-----------------------------------------------------------------------------
(* Scales and gates: of the timestep, or ones.                             *)
Modulation(c, p, modulated) ==
  LET chunk(to) == OnHost(to, c.dim, {"mod"})
      ones(to)  == OnHost(to, c.dim, {})
  IN IF modulated
       THEN LinearBias("adalnInput", 4 * c.dim, <<p, "adaLN">>, <<p, "adaLNbias">>, "mod") \o
            chunk("scaleMsa") \o chunk("gate1") \o Activation(c, "gate1", c.dim, "gateMsa") \o
            chunk("scaleMlp") \o chunk("gate2") \o Activation(c, "gate2", c.dim, "gateMlp") \o
            OnHost("scaleMsa", c.dim, {"scaleMsa"}) \o OnHost("scaleMlp", c.dim, {"scaleMlp"})
       ELSE ones("scaleMsa") \o ones("gateMsa") \o ones("scaleMlp") \o ones("gateMlp")

(* Attention is over the live rows, which come first; the rest stay zero.  *)
Block(c, p, modulated, x, positions, seq, live) ==
  LET n     == seq * c.dim
      wide  == seq * Width(c)
      part  == live * Width(c)
      w(name) == <<p, name>>
  IN Modulation(c, p, modulated) \o
     Rmsnorm(x, n, w("norm1"), "normed1") \o ElementwiseRows({"normed1", "scaleMsa"}, n, "scaled1") \o
     Linear("scaled1", wide, w("to_q"), "q") \o Linear("scaled1", wide, w("to_k"), "k") \o
     Linear("scaled1", wide, w("to_v"), "v") \o
     Rmsnorm("q", wide, w("norm_q"), "q") \o Rmsnorm("k", wide, w("norm_k"), "k") \o
     RopeAxes("q", positions, wide, "q") \o RopeAxes("k", positions, wide, "k") \o
     SplitHeads("q", part, "qHeads") \o SplitHeads("k", part, "kHeads") \o SplitHeads("v", part, "vHeads") \o
     Attention(c, live, "attended") \o OnHost("merged", wide, {"attended"}) \o
     Linear("merged", n, w("to_out"), "projected") \o Rmsnorm("projected", n, w("norm2"), "normed2") \o
     ElementwiseRows({"normed2", "gateMsa"}, n, "gated1") \o Elementwise(c, {x, "gated1"}, n, "h") \o
     Rmsnorm("h", n, w("ffn_norm1"), "normed3") \o
     ElementwiseRows({"normed3", "scaleMlp"}, n, "scaled2") \o
     Linear("scaled2", seq * c.ffn, w("w1"), "gate") \o Activation(c, "gate", seq * c.ffn, "gate") \o
     Linear("scaled2", seq * c.ffn, w("w3"), "up") \o
     Elementwise(c, {"gate", "up"}, seq * c.ffn, "product") \o
     Linear("product", n, w("w2"), "ffn") \o Rmsnorm("ffn", n, w("ffn_norm2"), "normed4") \o
     ElementwiseRows({"normed4", "gateMlp"}, n, "gated2") \o Elementwise(c, {"h", "gated2"}, n, x)

(* A trace is a copy the host keeps.                                       *)
LOCAL Traced(c, x, n) == IF c.trace THEN OnHost("trace", n, {x}) ELSE <<>>

LOCAL Embed(c) ==
  Upload("tFreq", c.mid) \o
  LinearBias("tFreq", c.mid, <<"t", "0">>, <<"t", "0bias">>, "tMid") \o
  Activation(c, "tMid", c.mid, "tMid") \o
  LinearBias("tMid", c.adaln, <<"t", "2">>, <<"t", "2bias">>, "adalnInput") \o
  Upload("patches", c.xSeq * c.patch) \o
  LinearBias("patches", c.xSeq * c.dim, <<"x", "weight">>, <<"x", "bias">>, "x")

(* The padding token is written by the host over the caption's tail.       *)
LOCAL EmbedCaption(c) ==
  LET n == c.capSeq * c.dim
  IN Upload("capFeats", n) \o Rmsnorm("capFeats", n, <<"cap", "0">>, "capNormed") \o
     LinearBias("capNormed", n, <<"cap", "1">>, <<"cap", "bias">>, "cap") \o
     Write("cap", Wide(c.capValid .. c.capSeq - 1, c.dim), {}, {<<"cap", "pad">>})

LOCAL FinalLayer(c) ==
  LET n == (c.xSeq + c.capSeq) * c.dim
  IN Activation(c, "adalnInput", c.adaln, "silu") \o
     LinearBias("silu", c.dim, <<"final", "adaLN">>, <<"final", "adaLNbias">>, "scale") \o
     OnHost("scale", c.dim, {"scale"}) \o
     Run("normed", n, {"unified"}, {<<"#", "ones">>, <<"#", "zeros">>}) \o
     ElementwiseRows({"normed", "scale"}, n, "scaled") \o
     LinearBias("scaled", (c.xSeq + c.capSeq) * c.patch, <<"final", "linear">>,
                <<"final", "linearBias">>, "projected")

DitForwardGpu(c) ==
  LET name(kind, i) == kind \o ToString(i)
      seq == c.xSeq + c.capSeq
      noise(i)   == Block(c, name("noise", i), TRUE, "x", "xPositions", c.xSeq, c.xSeq)
      context(i) == Block(c, name("context", i), FALSE, "cap", "capPositions", c.capSeq, c.capValid)
      layer(i)   == Block(c, name("layer", i), TRUE, "unified", "positions", seq, c.xSeq + c.capValid) \o
                    (IF i = 0 THEN Traced(c, "unified", seq * c.dim) ELSE <<>>)
  IN Embed(c) \o Upload("xPositions", 3 * c.xSeq) \o Loop(c.refiners, noise) \o
     Traced(c, "x", c.xSeq * c.dim) \o
     EmbedCaption(c) \o Upload("capPositions", 3 * c.capSeq) \o Loop(c.refiners, context) \o
     Traced(c, "cap", c.capSeq * c.dim) \o
     Take("unified", seq * c.dim) \o
     Write("unified", Elements(c.xSeq * c.dim), {"x"}, {}) \o
     Write("unified", Elements(seq * c.dim) \ Elements(c.xSeq * c.dim), {"cap"}, {}) \o
     Upload("positions", 3 * seq) \o Loop(c.layers, layer) \o Traced(c, "unified", seq * c.dim) \o
     FinalLayer(c) \o Readback({"projected"})
=============================================================================
