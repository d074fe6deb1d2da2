--------------------------- MODULE ZimageVaeDecode ---------------------------
(***************************************************************************)
(* decodeGpu (examples/zimage-vae/src/decoder-gpu.ts): the dispatches that *)
(* turn one latent into an image, each of them awaited before the next.    *)
(* c holds the shapes:                                                     *)
(*   latentChannels, blockOut, layersPerBlock, outChannels, height, width  *)
(*   perDispatch   elements one dispatch can cover                         *)
(*   scores        scores one buffer can hold                              *)
(*   perBuffer     upsampled elements one buffer can hold                  *)
(*                                                                         *)
(* A map is [C, hw], and the live one is in the variable x.                *)
(***************************************************************************)
EXTENDS Recording

LOCAL W(p) == {<<"vae", p \o ".weight">>, <<"vae", p \o ".bias">>}

LOCAL Cells(x) == x.C * x.hw

LOCAL Chunked(c, to, n, from) == RunParts(to, n, Ranges(n, c.perDispatch), from, {})

(* The elements of a rectangle that fit a budget, in whole rows and at     *)
(* least one.                                                              *)
LOCAL Fit(budget, row, rows) == Max({1, Min({rows, budget \div row})})

Conv(from, made, p, to) == Run(to, Cells(made), {from}, W(p))

GroupNormSilu(c, from, x, p, to) ==
  Run("normed", Cells(x), {from}, W(p)) \o Chunked(c, to, Cells(x), {"normed"})

(* The shortcut is a convolution only when the channels change.            *)
Resnet(c, x, p, outC) ==
  LET out == [x EXCEPT !.C = outC]
  IN GroupNormSilu(c, "x", x, p \o ".norm1", "h") \o Conv("h", out, p \o ".conv1", "h") \o
     GroupNormSilu(c, "h", out, p \o ".norm2", "h") \o Conv("h", out, p \o ".conv2", "h") \o
     (IF x.C # outC THEN Conv("x", out, p \o ".conv_shortcut", "skip") ELSE Name("skip", "x")) \o
     Chunked(c, "x", Cells(out), {"skip", "h"})

(* The weight is transposed, and the bias added, on the host.              *)
Linear(from, n, p, to) ==
  Run("y", n, {from}, W(p)) \o OnHost(to, n, {"y"})

(* A query row attends to every key: the scores are made, and used, a few  *)
(* rows at a time.                                                         *)
MidAttention(c, x, p) ==
  LET n     == Cells(x)
      some  == Fit(c.scores, x.hw, x.hw)
      parts == Ranges(x.hw, some)
      rows(part) ==
        Run("probs", Cardinality(part) * x.hw, {"q", "k"}, {<<"#", "zeroBias">>}) \o
        Write("attended", Wide(part, x.C), {"probs", "v"}, {}) \o Await
  IN Run("normed", n, {"x"}, W(p \o ".group_norm")) \o OnHost("tokens", n, {"normed"}) \o
     Linear("tokens", n, p \o ".to_q", "q") \o Linear("tokens", n, p \o ".to_k", "k") \o
     Linear("tokens", n, p \o ".to_v", "v") \o Take("attended", n) \o
     FlattenSeq([i \in DOMAIN parts |-> rows(parts[i])]) \o
     Linear("attended", n, p \o ".to_out", "projected") \o OnHost("map", n, {"projected"}) \o
     Chunked(c, "x", n, {"x", "map"})

(* Nearest neighbour, a few channels at a time.                            *)
Upsample(c, x, p) ==
  LET big == [x EXCEPT !.hw = 4 * @]
  IN RunParts("x", Cells(big), RowRanges(x.C, Fit(c.perBuffer, big.hw, x.C), big.hw), {"x"}, {}) \o
     Conv("x", big, p, "x")

(* An up block: its resnets, and the upsampling after all but the last.    *)
LOCAL UpBlock(c, acc, i) ==
  LET outC == c.blockOut[Len(c.blockOut) + 1 - i]
      p    == "up" \o ToString(i)
      wide == [acc.x EXCEPT !.C = outC]
      resnet(r) == Resnet(c, IF r = 0 THEN acc.x ELSE wide, p \o ".r" \o ToString(r), outC)
      last == i = Len(c.blockOut)
  IN [program |-> acc.program \o Loop(c.layersPerBlock + 1, resnet) \o
                  (IF last THEN <<>> ELSE Upsample(c, wide, p)),
      x |-> IF last THEN wide ELSE [wide EXCEPT !.hw = 4 * @]]

Decode(c) ==
  LET latent == [C |-> c.latentChannels, hw |-> c.height * c.width]
      top    == [latent EXCEPT !.C = c.blockOut[Len(c.blockOut)]]
      start  == [program |->
                   Upload("latent", Cells(latent)) \o OnHost("x", Cells(latent), {"latent"}) \o
                   Conv("x", top, "conv_in", "x") \o Resnet(c, top, "mid0", top.C) \o
                   MidAttention(c, top, "mid") \o Resnet(c, top, "mid1", top.C),
                 x |-> top]
      up     == FoldLeft(LAMBDA acc, i : UpBlock(c, acc, i), start, [i \in DOMAIN c.blockOut |-> i])
      image  == [up.x EXCEPT !.C = c.outChannels]
  IN up.program \o GroupNormSilu(c, "x", up.x, "conv_norm_out", "x") \o
     Conv("x", image, "conv_out", "x") \o Readback({"x"})
=============================================================================
