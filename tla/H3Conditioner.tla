---------------------------- MODULE H3Conditioner ----------------------------
(***************************************************************************)
(* ConditionerGpu.forward (examples/h3-ref2v/src/conditioner-gpu.ts): the  *)
(* steps of one pass of the vision tower and the text stack that condition *)
(* a reference-to-video generation.  c holds the shapes:                   *)
(*   vision   hidden, heads, headDim, ffn, patch, merge (squared), out,    *)
(*            depth, taps (the blocks whose output the text stack is given) *)
(*   text     hidden, heads, kvHeads, headDim, ffn, layers                 *)
(*   tokens   patches of the references                                    *)
(*   seq      tokens of the text, and visual, the runs <<start, length>>   *)
(*            of it that stand for the references                          *)
(*   perDispatch, maxRows, align   how dispatches are split                *)
(***************************************************************************)
EXTENDS Recording

LOCAL W(p, name) == {<<p, name>>}

LOCAL Gcd(a, b) == Max({d \in 1 .. a : a % d = 0 /\ b % d = 0})

(* Row ranges no dispatch over rows of this width can exceed, aligned.     *)
RowChunks(c, rows, cols) ==
  LET perChunk == c.perDispatch \div cols
      step     == c.align \div Gcd(c.align, cols)
  IN Ranges(rows, IF perChunk >= rows THEN rows ELSE (perChunk \div step) * step)

LOCAL Flat(c, rows, cols) ==
  LET chunks == RowChunks(c, rows, cols)
  IN [i \in DOMAIN chunks |-> Wide(chunks[i], cols)]

LOCAL ByRow(c, rows, cols) ==
  RowRanges(rows, Min({rows, c.maxRows}), cols)

-----------------------------------------------------------------------------
(* One operation each *)

Linear(c, x, rows, p, name, bias, n, to) ==
  IF bias
    THEN Into("product", rows * n, {x}, W(p, name)) \o
         IntoParts(to, rows * n, Flat(c, rows, n), {"product"}, W(p, name \o ".bias"))
    ELSE Into(to, rows * n, {x}, W(p, name))

Rms(c, x, rows, cols, p, name, to) == IntoParts(to, rows * cols, ByRow(c, rows, cols), {x}, W(p, name))

Layer(c, x, rows, cols, p, name, to) ==
  IntoParts(to, rows * cols, ByRow(c, rows, cols), {x}, W(p, name) \cup W(p, name \o ".bias"))

Combined(c, a, b, rows, cols, to) == IntoParts(to, rows * cols, Flat(c, rows, cols), {a, b}, {})

Act(c, x, rows, cols, to) == IntoParts(to, rows * cols, Flat(c, rows, cols), {x}, {})

Rope(x, positions, n, to) == Into(to, n, {x, positions}, W("", "axisDims"))

LOCAL SwapLeading(x, n, to) == Into(to, n, {x}, {})

(* A copy of x, with a feature row added at each visual row.               *)
AddAtVisualRows(c, feature) ==
  Take("next", c.seq * c.text.hidden) \o
  Write("next", Elements(c.seq * c.text.hidden), {"x"}, {}) \o
  FlattenSeq([r \in DOMAIN c.visual |->
    Write("next", Wide({c.visual[r][1] + k : k \in Elements(c.visual[r][2])}, c.text.hidden),
          {"x", feature}, {})]) \o
  Name("x", "next")

(* Grouped heads are copied out to one per query head.                     *)
Attend(q, k, v, seq, heads, kvHeads, headDim, to) ==
  LET n        == heads * seq * headDim
      head(h)  == Wide({h}, seq * headDim)
      widen    == Take("wideK", n) \o Take("wideV", n) \o
                  Loop(heads, LAMBDA h : Write("wideK", head(h), {"kHeads"}, {}) \o
                                         Write("wideV", head(h), {"vHeads"}, {})) \o
                  Name("kHeads", "wideK") \o Name("vHeads", "wideV")
  IN SwapLeading(q, n, "qHeads") \o
     SwapLeading(k, kvHeads * seq * headDim, "kHeads") \o
     SwapLeading(v, kvHeads * seq * headDim, "vHeads") \o
     (IF kvHeads # heads THEN widen ELSE <<>>) \o
     Into("attended", n, {"qHeads", "kHeads", "vHeads", "noMask"}, {}) \o
     SwapLeading("attended", n, to)

(* Groups of merge tokens; normed before or after they are put together.   *)
Merger(c, p, postShuffle, to) ==
  LET v    == c.vision
      rows == c.tokens \div v.merge
      wide == v.hidden * v.merge
  IN (IF postShuffle THEN Layer(c, "x", rows, wide, p, "norm", "normed")
                     ELSE Layer(c, "x", c.tokens, v.hidden, p, "norm", "normed")) \o
     Linear(c, "normed", rows, p, "fc1", TRUE, wide, "first") \o
     Act(c, "first", rows, wide, "activated") \o
     Linear(c, "activated", rows, p, "fc2", TRUE, v.out, to)

-----------------------------------------------------------------------------
(* The vision tower *)

LOCAL Feature(tap) == "feature" \o ToString(tap)

(* The features made by the end of block i, counted from 0.                *)
LOCAL Features(c, i) == {Feature(tap) : tap \in {tap \in DOMAIN c.vision.taps : c.vision.taps[tap] <= i}}

VisionBlock(c, i) ==
  LET v == c.vision
      p == "vision" \o ToString(i)
      n == c.tokens * v.hidden
      project(name, to) == Linear(c, "normed", c.tokens, p, name, TRUE, v.hidden, to)
  IN Layer(c, "x", c.tokens, v.hidden, p, "norm1", "normed") \o
     project("q", "q") \o project("k", "k") \o project("v", "v") \o
     Rope("q", "rotary", n, "q") \o Rope("k", "rotary", n, "k") \o
     Attend("q", "k", "v", c.tokens, v.heads, v.heads, v.headDim, "merged") \o
     Linear(c, "merged", c.tokens, p, "proj", TRUE, v.hidden, "projected") \o
     Combined(c, "x", "projected", c.tokens, v.hidden, "x") \o
     Layer(c, "x", c.tokens, v.hidden, p, "norm2", "normed2") \o
     Linear(c, "normed2", c.tokens, p, "fc1", TRUE, v.ffn, "wide") \o
     Act(c, "wide", c.tokens, v.ffn, "activated") \o
     Linear(c, "activated", c.tokens, p, "fc2", TRUE, v.hidden, "ff") \o
     Combined(c, "x", "ff", c.tokens, v.hidden, "x") \o
     FlattenSeq([tap \in DOMAIN v.taps |->
       IF v.taps[tap] = i THEN Merger(c, "deepstack" \o ToString(tap), TRUE, Feature(tap)) ELSE <<>>]) \o
     Flush({"x", "rotary"} \cup Features(c, i), {})

VisionForward(c) ==
  LET v == c.vision
  IN Upload("input", c.tokens * v.patch) \o
     Linear(c, "input", c.tokens, "", "patch_embed", TRUE, v.hidden, "x") \o
     Upload("positional", c.tokens * v.hidden) \o
     Combined(c, "x", "positional", c.tokens, v.hidden, "x") \o
     Upload("rotary", c.tokens * v.headDim) \o
     Loop(v.depth, LAMBDA i : VisionBlock(c, i)) \o
     Merger(c, "merger", FALSE, "pooled")

-----------------------------------------------------------------------------
(* The text stack *)

TextLayer(c, i) ==
  LET t == c.text
      p == "layer" \o ToString(i)
      widthQ == t.heads * t.headDim
      widthKV == t.kvHeads * t.headDim
      plain(x, name, n, to) == Linear(c, x, c.seq, p, name, FALSE, n, to)
  IN (IF i > 0 /\ i <= Len(c.vision.taps) THEN AddAtVisualRows(c, Feature(i)) ELSE <<>>) \o
     Rms(c, "x", c.seq, t.hidden, p, "input_layernorm", "normed") \o
     plain("normed", "q_proj", widthQ, "q") \o plain("normed", "k_proj", widthKV, "k") \o
     plain("normed", "v_proj", widthKV, "v") \o
     Rms(c, "q", c.seq * t.heads, t.headDim, p, "q_norm", "q") \o
     Rms(c, "k", c.seq * t.kvHeads, t.headDim, p, "k_norm", "k") \o
     Rope("q", "positions", c.seq * widthQ, "q") \o Rope("k", "positions", c.seq * widthKV, "k") \o
     Attend("q", "k", "v", c.seq, t.heads, t.kvHeads, t.headDim, "merged") \o
     plain("merged", "o_proj", t.hidden, "projected") \o
     Combined(c, "x", "projected", c.seq, t.hidden, "x") \o
     Rms(c, "x", c.seq, t.hidden, p, "post_attention_layernorm", "normed2") \o
     plain("normed2", "gate_proj", t.ffn, "gate") \o Act(c, "gate", c.seq, t.ffn, "gate") \o
     plain("normed2", "up_proj", t.ffn, "up") \o
     Combined(c, "gate", "up", c.seq, t.ffn, "gated") \o
     plain("gated", "down_proj", t.hidden, "ff") \o
     Combined(c, "x", "ff", c.seq, t.hidden, "x") \o
     Flush({"x", "positions"} \cup Features(c, c.vision.depth), {})

(* The embedded text, with the pooled vision tokens copied over its runs.  *)
EmbedText(c) ==
  Upload("stream", c.seq * c.text.hidden) \o Name("x", "stream") \o
  FlattenSeq([r \in DOMAIN c.visual |->
    Write("x", Wide({c.visual[r][1] + k : k \in Elements(c.visual[r][2])}, c.text.hidden),
          {"pooled"}, {})]) \o
  Flush({"x"} \cup Features(c, c.vision.depth), {}) \o
  Upload("positions", c.seq * c.text.headDim)

ConditionerForward(c) ==
  Fix("noMask", Max({c.seq, c.tokens})) \o VisionForward(c) \o EmbedText(c) \o
  Loop(c.text.layers, LAMBDA i : TextLayer(c, i)) \o Readback({"x"})
=============================================================================
