----------------------------- MODULE H3DitForward -----------------------------
(***************************************************************************)
(* DitGpu.forward (examples/h3-dit/src/model-gpu.ts): the steps of one     *)
(* forward of the H3 diffusion transformer.  c holds the shapes:           *)
(*   hidden, ffn, heads, headDim, patch, audioIn                           *)
(*   video, audio, text   the rows of each modality, in order              *)
(*   adaln, timestep      the modulation row and the timestep of each row  *)
(*   refiners, layers                                                      *)
(*   split                splitBlockAboveRows is below the sequence        *)
(*   perDispatch          elements one dispatch can cover                  *)
(*   maxRows              workgroups one dispatch can have                 *)
(*   align                elements a binding's offset is a multiple of     *)
(***************************************************************************)
EXTENDS Recording

LOCAL Rows(c) == Len(c.adaln)

LOCAL Width(c) == c.heads * c.headDim

LOCAL Size(c) == Rows(c) * c.hidden

LOCAL W(p, name) == {<<p, name>>}

-----------------------------------------------------------------------------
(* How a dispatch is split *)

LOCAL Gcd(a, b) == Max({d \in 1 .. a : a % d = 0 /\ b % d = 0})

(* Row ranges no dispatch over rows of this width can exceed, aligned.     *)
RowChunks(c, rows, cols) ==
  LET perChunk == c.perDispatch \div cols
      step     == c.align \div Gcd(c.align, cols)
  IN Ranges(rows, IF perChunk >= rows THEN rows ELSE (perChunk \div step) * step)

LOCAL Flat(c, rows, cols) ==
  LET chunks == RowChunks(c, rows, cols)
  IN [i \in DOMAIN chunks |-> Wide(chunks[i], cols)]

(* The contiguous runs of rows that share a modulation row, from 0.        *)
ModulationRuns(indices) ==
  LET runs == RunsOf(Len(indices), LAMBDA i : indices[i] = indices[i - 1])
  IN [r \in DOMAIN runs |-> {i - 1 : i \in runs[r]}]

(* Run by run, and each run by chunks of its own.                          *)
ModulateChunk(c, x, table, indices, to) ==
  LET runs   == ModulationRuns(indices)
      of(r)  == LET chunks == RowChunks(c, Cardinality(r), c.hidden)
                IN [i \in DOMAIN chunks |-> Wide({Min(r) + k : k \in chunks[i]}, c.hidden)]
  IN IntoParts(to, Len(indices) * c.hidden, FlattenSeq([i \in DOMAIN runs |-> of(runs[i])]), {x}, table)

-----------------------------------------------------------------------------
(* One operation each *)

Linear(c, x, rows, p, name, bias, n, to) ==
  IF bias
    THEN Into("product", rows * n, {x}, W(p, name)) \o
         IntoParts(to, rows * n, Flat(c, rows, n), {"product"}, W(p, name \o ".bias"))
    ELSE Into(to, rows * n, {x}, W(p, name))

Norm(x, rows, cols, p, name, to) == Into(to, rows * cols, {x}, W(p, name))

Combined(c, a, b, rows, cols, to) == IntoParts(to, rows * cols, Flat(c, rows, cols), {a, b}, {})

(* Chunks of tokens, so that the slices of the positions are aligned too.  *)
Rope(c, x, to) ==
  LET least == c.align
      chunk == Max({least, ((c.perDispatch \div (Width(c) \div 2)) \div least) * least})
  IN IntoParts(to, Rows(c) * Width(c), RowRanges(Rows(c), chunk, Width(c)), {x, "positions"},
               W("", "rope.axisDims"))

(* A row per head.                                                         *)
QkNorm(c, x, rows, p, name, to) ==
  IntoParts(to, rows * Width(c), RowRanges(rows * c.heads, Min({rows * c.heads, c.maxRows}), c.headDim),
            {x}, W(p, name))

(* q, k and v are dead once the kernel is recorded; the block that keeps   *)
(* something submits here.                                                 *)
Attention(c, rows, keep, to) ==
  Into(to, rows * Width(c), {"q", "k", "v", "noMask"}, {}) \o
  Recycle("q") \o Recycle("k") \o Recycle("v") \o
  (IF c.split /\ keep # {} THEN Flush({to} \cup keep, {}) ELSE <<>>)

FeedForward(c, x, rows, p, to) ==
  Linear(c, x, rows, p, "ff.hidden", FALSE, c.ffn, "value") \o
  Linear(c, x, rows, p, "ff.gate", FALSE, c.ffn, "gate") \o
  IntoParts("activated", rows * c.ffn, Flat(c, rows, c.ffn), {"gate"}, {}) \o
  Recycle("gate") \o
  Combined(c, "value", "activated", rows, c.ffn, "gatedFf") \o
  Recycle("value") \o Recycle("activated") \o
  Linear(c, "gatedFf", rows, p, "ff.net.2", FALSE, c.hidden, to) \o
  Recycle("gatedFf")

-----------------------------------------------------------------------------
(* The blocks *)

LOCAL Split(c, keep) == IF c.split THEN Flush(keep, {}) ELSE <<>>

LOCAL Modulated(c, x, p, to) ==
  ModulateChunk(c, x, W(p, "adaln"), c.adaln, "scaled") \o Recycle(x) \o
  ModulateChunk(c, "scaled", W(p, "adaln"), c.adaln, to) \o Recycle("scaled")

LOCAL Gated(c, x, p) == ModulateChunk(c, x, W(p, "adaln"), c.adaln, "gated") \o Recycle(x)

Block(c, index) ==
  LET p   == "block" \o ToString(index)
      seq == Rows(c)
      QK(x, norm) ==
        Consume(x, QkNorm(c, x, seq, p, norm, "made"))
  IN Norm("x", seq, c.hidden, p, "norm1", "normed") \o Modulated(c, "normed", p, "shifted") \o
     Linear(c, "shifted", seq, p, "to_q", FALSE, Width(c), "q") \o
     Linear(c, "shifted", seq, p, "to_k", FALSE, Width(c), "k") \o
     Linear(c, "shifted", seq, p, "to_v", FALSE, Width(c), "v") \o
     QK("q", "norm_q") \o QK("k", "norm_k") \o
     Consume("q", Rope(c, "q", "made")) \o Consume("k", Rope(c, "k", "made")) \o
     Recycle("shifted") \o
     Split(c, {"q", "k", "v", "x", "positions"}) \o
     Attention(c, seq, {"x", "positions"}, "merged") \o
     Split(c, {"merged", "x", "positions"}) \o
     Linear(c, "merged", seq, p, "to_out", FALSE, c.hidden, "projected") \o Recycle("merged") \o
     Gated(c, "projected", p) \o
     Combined(c, "x", "gated", seq, c.hidden, "residual") \o Recycle("gated") \o
     Split(c, {"residual", "positions"}) \o
     Norm("residual", seq, c.hidden, p, "norm2", "normed2") \o
     Modulated(c, "normed2", p, "shifted2") \o
     FeedForward(c, "shifted2", seq, p, "ff") \o Recycle("shifted2") \o
     Split(c, {"ff", "residual", "positions"}) \o
     Gated(c, "ff", p) \o
     Combined(c, "residual", "gated", seq, c.hidden, "x") \o Recycle("gated")

(* Neither modulation nor positions, and nothing is recycled but by what   *)
(* it shares with the block.                                               *)
RefinerBlock(c, index) ==
  LET p    == "refiner" \o ToString(index)
      rows == Len(c.text)
  IN Norm("texts", rows, c.hidden, p, "norm1", "normed") \o
     Linear(c, "normed", rows, p, "to_q", FALSE, Width(c), "q") \o
     Linear(c, "normed", rows, p, "to_k", FALSE, Width(c), "k") \o
     Linear(c, "normed", rows, p, "to_v", FALSE, Width(c), "v") \o
     QkNorm(c, "q", rows, p, "norm_q", "q") \o QkNorm(c, "k", rows, p, "norm_k", "k") \o
     Attention(c, rows, {}, "merged") \o
     Linear(c, "merged", rows, p, "to_out", FALSE, c.hidden, "projected") \o
     Combined(c, "texts", "projected", rows, c.hidden, "residual") \o
     Norm("residual", rows, c.hidden, p, "norm2", "normed2") \o
     FeedForward(c, "normed2", rows, p, "ff") \o
     Combined(c, "residual", "ff", rows, c.hidden, "texts")

-----------------------------------------------------------------------------
(* The forward *)

(* A copy per run of consecutive rows.                                     *)
LOCAL IndexRuns(indices) == RunsOf(Len(indices), LAMBDA i : indices[i] = indices[i - 1] + 1)

CopyRuns(from, to, indices, width) ==
  LET runs == IndexRuns(indices)
  IN FlattenSeq([r \in DOMAIN runs |->
       Write(to, Wide({indices[i] : i \in runs[r]}, width), {from}, {})])

GatherRuns(from, to, indices, width) ==
  LET runs == IndexRuns(indices)
  IN FlattenSeq([r \in DOMAIN runs |->
       Write(to, Wide({i - 1 : i \in runs[r]}, width), {from}, {})])

Embed(c) ==
  LET project(name, rows, cols, to) ==
        Upload("given", rows * cols) \o Linear(c, "given", rows, "", name, TRUE, c.hidden, to)
  IN Upload("positions", 4 * Rows(c)) \o
     project("proj_in", Len(c.video), c.patch, "videos") \o
     project("audio_proj_in", Len(c.audio), c.audioIn, "audios") \o
     project("context_embedder", Len(c.text), c.hidden, "texts") \o
     Loop(c.refiners, LAMBDA i : RefinerBlock(c, i)) \o
     Norm("texts", Len(c.text), c.hidden, "", "final_norm", "texts") \o
     Take("x", Size(c)) \o
     CopyRuns("videos", "x", c.video, c.hidden) \o
     CopyRuns("audios", "x", c.audio, c.hidden) \o
     CopyRuns("texts", "x", c.text, c.hidden) \o
     Flush({"x", "positions"}, {})

Heads(c) ==
  LET table == W("", "normOut")
  IN Norm("x", Rows(c), c.hidden, "", "norm_out", "normed") \o
     ModulateChunk(c, "normed", table, c.timestep, "scaled") \o
     ModulateChunk(c, "scaled", table, c.timestep, "modulated") \o
     Linear(c, "modulated", Rows(c), "", "proj_out", TRUE, c.patch, "videoAll") \o
     Linear(c, "modulated", Rows(c), "", "audio_proj_out", TRUE, c.audioIn, "audioAll") \o
     Take("videoOut", Len(c.video) * c.patch) \o Take("audioOut", Len(c.audio) * c.audioIn) \o
     GatherRuns("videoAll", "videoOut", c.video, c.patch) \o
     GatherRuns("audioAll", "audioOut", c.audio, c.audioIn) \o
     Readback({"videoOut", "audioOut"})

DitForward(c) ==
  Fix("noMask", Rows(c)) \o Embed(c) \o
  Loop(c.layers, LAMBDA i : Block(c, i) \o Flush({"x", "positions"}, {})) \o
  Flush({"x", "positions"}, {}) \o Heads(c)
=============================================================================
