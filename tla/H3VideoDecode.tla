---------------------------- MODULE H3VideoDecode ----------------------------
(***************************************************************************)
(* VideoDecoderGpu.decode (examples/h3-video/src/decoder-gpu.ts): the      *)
(* steps of one decode of the H3 video decoder.  c holds the shapes:       *)
(*   channels, dim, heads, headDim, ffn, patch                             *)
(*   patches, registers   tokens of the latent and learned ones; one more  *)
(*                        token is zero                                    *)
(*   layers, blocksPerSubmit                                               *)
(*   split                splitBlockAboveRows is below the sequence        *)
(*   perBinding           elements one binding can cover                   *)
(***************************************************************************)
EXTENDS Recording

LOCAL Tokens(c) == c.patches + c.registers + 1

LOCAL Width(c) == c.heads * c.headDim

LOCAL W(p, name) == {<<p, name>>}

-----------------------------------------------------------------------------
(* Row ranges small enough to bind, when the widest tensor is not.  Rows   *)
(* whose ranges would not start where a binding may, which the code        *)
(* refuses, are not among the shapes.                                      *)
RowChunks(c, rows, widest) ==
  IF rows * widest <= c.perBinding
    THEN <<Elements(rows)>>
    ELSE Ranges(rows, Max({1, c.perBinding \div widest}))

LOCAL Chunked(c, rows, widest, cols) ==
  LET chunks == RowChunks(c, rows, widest)
  IN [i \in DOMAIN chunks |-> Wide(chunks[i], cols)]

(* The product without the bias is dead once the bias is added.            *)
Linear(c, x, rows, cols, p, name, bias, n, to) ==
  LET product(into) == IntoParts(into, rows * n, Chunked(c, rows, Max({cols, n}), n), {x}, W(p, name))
  IN IF bias
       THEN product("product") \o
            IntoParts(to, rows * n, Chunked(c, rows, n, n), {"product"}, W(p, name \o ".bias")) \o
            Recycle("product")
       ELSE product(to)

Norm(x, n, p, name, to) == Into(to, n, {x}, W(p, name))

(* Rows against a vector that is a weight.                                 *)
RowsBy(c, x, rows, cols, p, name, to) ==
  IntoParts(to, rows * cols, Chunked(c, rows, cols, cols), {x}, W(p, name))

Combined(c, a, b, rows, cols, to) ==
  IntoParts(to, rows * cols, Chunked(c, rows, cols, cols), {a, b}, {})

QkNorm(c, x, to) == Into(to, Tokens(c) * Width(c), {x}, W("", "qk.ones"))

Rope(c, x, to) == Into(to, Tokens(c) * Width(c), {x, "positions"}, W("", "rope.axisDims"))

-----------------------------------------------------------------------------
Block(c, index) ==
  LET p   == "block" \o ToString(index)
      seq == Tokens(c)
      project(name, to) == Linear(c, "normed", seq, c.dim, p, name, TRUE, Width(c), to)
      widen(name, to)   == Linear(c, "normed2", seq, c.dim, p, name, TRUE, c.ffn, to)
  IN Norm("hidden", seq * c.dim, p, "norm1", "normed") \o
     project("q", "q") \o project("k", "k") \o project("v", "v") \o Recycle("normed") \o
     Consume("q", QkNorm(c, "q", "made")) \o Consume("k", QkNorm(c, "k", "made")) \o
     Consume("q", Rope(c, "q", "made")) \o Consume("k", Rope(c, "k", "made")) \o
     Into("attended", seq * Width(c), {"q", "k", "v", "noMask"}, {}) \o
     Recycle("q") \o Recycle("k") \o Recycle("v") \o
     Linear(c, "attended", seq, Width(c), p, "out", TRUE, c.dim, "projected") \o
     Recycle("attended") \o
     RowsBy(c, "projected", seq, c.dim, p, "scale1", "scaled") \o Recycle("projected") \o
     Combined(c, "hidden", "scaled", seq, c.dim, "hidden") \o Recycle("scaled") \o
     (IF c.split THEN Flush({"hidden", "positions", "noMask"}, {}) ELSE <<>>) \o
     Norm("hidden", seq * c.dim, p, "norm2", "normed2") \o
     widen("gate", "gate") \o widen("up", "up") \o Recycle("normed2") \o
     IntoParts("activated", seq * c.ffn, Chunked(c, seq, c.ffn, c.ffn), {"gate"}, {}) \o
     Recycle("gate") \o
     Combined(c, "activated", "up", seq, c.ffn, "gated") \o
     Recycle("activated") \o Recycle("up") \o
     Linear(c, "gated", seq, c.ffn, p, "w2", TRUE, c.dim, "ff") \o Recycle("gated") \o
     RowsBy(c, "ff", seq, c.dim, p, "scale2", "scaled2") \o Recycle("ff") \o
     Combined(c, "hidden", "scaled2", seq, c.dim, "hidden") \o Recycle("scaled2")

(* The patches, the learned tokens, and one of zeros that the host writes, *)
(* because a pooled buffer holds what was there before.                    *)
Embed(c) ==
  LET tokens(first, n) == {first * c.dim + e : e \in Elements(n * c.dim)}
  IN Upload("input", c.patches * c.channels) \o
     Linear(c, "input", c.patches, c.channels, "", "post_quant", TRUE, c.channels, "quantised") \o
     Linear(c, "quantised", c.patches, c.channels, "", "x_embedder", TRUE, c.dim, "embedded") \o
     Take("hidden", Tokens(c) * c.dim) \o
     Write("hidden", tokens(0, c.patches), {"embedded"}, {}) \o
     Write("hidden", tokens(c.patches, c.registers), {}, W("", "register_tokens")) \o
     HostWrite("hidden", tokens(c.patches + c.registers, 1)) \o
     Upload("positions", 4 * Tokens(c))

LOCAL Submits(c, i) == (i + 1) % c.blocksPerSubmit = 0 \/ i = c.layers - 1

Decode(c) ==
  Fix("noMask", Tokens(c)) \o Embed(c) \o
  Loop(c.layers, LAMBDA i :
    Block(c, i) \o (IF Submits(c, i) THEN Flush({"hidden", "positions"}, {}) ELSE <<>>)) \o
  Norm("hidden", Tokens(c) * c.dim, "", "norm_out", "normed") \o
  Linear(c, "normed", Tokens(c), c.dim, "", "proj_out", TRUE, c.patch, "projected") \o
  Readback({"projected"})
=============================================================================
