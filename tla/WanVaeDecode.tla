----------------------------- MODULE WanVaeDecode -----------------------------
(***************************************************************************)
(* wanVaeDecodeGpu (examples/anima/src/vae-gpu.ts): the dispatches that    *)
(* turn one latent into an image, each of them awaited before the next.    *)
(* c holds the shapes:                                                     *)
(*   z, dims, resBlocks, height, width   dims[1] is the innermost width    *)
(*   shortcuts   the residual blocks whose checkpoint has a shortcut       *)
(*   perDispatch, maxRows                elements and rows of a dispatch   *)
(*   scores, perBuffer                   elements of a buffer              *)
(*                                                                         *)
(* A plane is [C, hw], and the live one is in the variable x.              *)
(***************************************************************************)
EXTENDS Recording

LOCAL W(p) == {<<"vae", p \o ".weight">>, <<"vae", p \o ".bias">>}

LOCAL Gamma(p) == {<<"vae", p \o ".gamma">>}

LOCAL Cells(x) == x.C * x.hw

LOCAL Fit(budget, row, rows) == Max({1, Min({rows, budget \div row})})

Chunked(c, to, n, from) == RunParts(to, n, Ranges(n, c.perDispatch), from, {})

Conv(from, made, p, to) == Run(to, Cells(made), {from}, W(p))

Transpose(from, n, to) == Run(to, n, {from}, {})

(* A row is a pixel, and a dispatch has a limit on rows.                   *)
RmsNorm(c, from, x, p, to) ==
  LET n == Cells(x)
  IN Transpose(from, n, "rows") \o
     RunParts("normed", n, RowRanges(x.hw, c.maxRows, x.C), {"rows"}, Gamma(p)) \o
     Transpose("normed", n, to)

Silu(c, x, to) == Chunked(c, to, Cells(x), {to})

(* lastTap is taken on the host, from the weight alone.                    *)
ResidualBlock(c, x, p, outDim) ==
  LET out == [x EXCEPT !.C = outDim]
  IN RmsNorm(c, "x", x, p \o "0", "h") \o Silu(c, x, "h") \o Conv("h", out, p \o "2", "h") \o
     RmsNorm(c, "h", out, p \o "3", "h") \o Silu(c, out, "h") \o Conv("h", out, p \o "6", "h") \o
     (IF p \in c.shortcuts THEN Conv("x", out, p \o "s", "shortcut") ELSE Name("shortcut", "x")) \o
     Chunked(c, "x", Cells(out), {"h", "shortcut"})

(* One head over every pixel, a few query rows at a time.                  *)
AttentionBlock(c, x, p) ==
  LET n     == Cells(x)
      parts == Ranges(x.hw, Fit(c.scores, x.hw, x.hw))
      rows(part) ==
        Run("probs", Cardinality(part) * x.hw, {"q", "k"}, {<<"#", "zeroBias">>}) \o
        Write("attended", Wide(part, x.C), {"probs", "v"}, {}) \o Await
  IN RmsNorm(c, "x", x, p \o "norm", "normed") \o Conv("normed", [x EXCEPT !.C = 3 * @], p \o "qkv", "qkv") \o
     OnHost("q", n, {"qkv"}) \o OnHost("k", n, {"qkv"}) \o OnHost("v", n, {"qkv"}) \o
     Take("attended", n) \o FlattenSeq([i \in DOMAIN parts |-> rows(parts[i])]) \o
     Transpose("attended", n, "planes") \o Conv("planes", x, p \o "proj", "projected") \o
     Chunked(c, "x", n, {"projected", "x"})

(* Nearest neighbour, a few channels at a time.                            *)
Resample(c, x, p, outDim) ==
  LET big == [x EXCEPT !.hw = 4 * @]
  IN RunParts("x", Cells(big), RowRanges(x.C, Fit(c.perBuffer, big.hw, x.C), big.hw), {"x"}, {}) \o
     Conv("x", [big EXCEPT !.C = outDim], p, "x")

(* A stage: its blocks, and the resampling after all but the last, which   *)
(* halves the channels.                                                    *)
LOCAL Stage(c, acc, i) ==
  LET outDim == c.dims[i + 1]
      p      == "up" \o ToString(i) \o "."
      wide   == [acc.x EXCEPT !.C = outDim]
      block(b) == ResidualBlock(c, IF b = 0 THEN acc.x ELSE wide, p \o ToString(b) \o ".", outDim)
      last   == i = Len(c.dims) - 1
  IN [program |-> acc.program \o Loop(c.resBlocks + 1, block) \o
                  (IF last THEN <<>> ELSE Resample(c, wide, p \o "resample", outDim \div 2)),
      x |-> IF last THEN wide ELSE [C |-> outDim \div 2, hw |-> 4 * wide.hw]]

WanVaeDecode(c) ==
  LET latent == [C |-> c.z, hw |-> c.height * c.width]
      inner  == [latent EXCEPT !.C = c.dims[1]]
      start  == [program |->
                   Upload("x", Cells(latent)) \o Conv("x", latent, "conv2", "x") \o
                   Conv("x", inner, "conv1", "x") \o ResidualBlock(c, inner, "mid0.", inner.C) \o
                   AttentionBlock(c, inner, "mid1.") \o ResidualBlock(c, inner, "mid2.", inner.C),
                 x |-> inner]
      up     == FoldLeft(LAMBDA acc, i : Stage(c, acc, i), start, [i \in 1 .. Len(c.dims) - 1 |-> i])
  IN up.program \o RmsNorm(c, "x", up.x, "head", "x") \o Silu(c, up.x, "x") \o
     Conv("x", [up.x EXCEPT !.C = 3], "head2", "x") \o Readback({"x"})
=============================================================================
