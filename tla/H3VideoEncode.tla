---------------------------- MODULE H3VideoEncode ----------------------------
(***************************************************************************)
(* EncoderGpu.encode (examples/h3-encoder/src/encoder-gpu.ts): the steps   *)
(* of encoding one clip.  c holds the shapes:                              *)
(*   channels, frames, height, width   the clip                            *)
(*   z, blocks                                                             *)
(*   levels   for each level its channels mid and its strides space, time  *)
(*                                                                         *)
(* A volume is [C, D, H, W], and the program carries the one that is live  *)
(* in the variable v.                                                      *)
(***************************************************************************)
EXTENDS Recording

LOCAL W(p, name) == {<<p, name>>, <<p, name \o ".bias">>}

LOCAL Size(v) == v.C * v.D * v.H * v.W

(* padAxis: one axis at a time, `before` and `after` of it.                *)
LOCAL Pad(x, v, to) == Into(to, Size(v), {x}, {})

(* conv: the volume it makes.                                              *)
LOCAL ConvOf(v, C, K, stride) ==
  [C |-> C, D |-> (v.D - K) \div stride[1] + 1, H |-> (v.H - K) \div stride[2] + 1,
   W |-> (v.W - K) \div stride[2] + 1]

LOCAL Conv(x, made, p, name, to) == Into(to, Size(made), {x}, W(p, name))

(* Width, then height, then the frames before.                             *)
PadForCausalConv(x, v, to) ==
  LET wide == [v EXCEPT !.W = @ + 2]
      tall == [wide EXCEPT !.H = @ + 2]
  IN Pad(x, wide, "padW") \o Pad("padW", tall, "padH") \o Pad("padH", [tall EXCEPT !.D = @ + 2], to)

Conv3x3x3(x, v, C, p, name, to) ==
  PadForCausalConv(x, v, "padded") \o Conv("padded", [v EXCEPT !.C = C], p, name, to)

LOCAL SwapLeading(x, v, to) == Into(to, Size(v), {x}, {})

PerFrameGroupNorm(x, v, p, name, to) ==
  SwapLeading(x, v, "merged") \o Into("normed", Size(v), {"merged"}, W(p, name)) \o
  SwapLeading("normed", v, to)

Silu(x, v, to) == Into(to, Size(v), {x}, {})

(* The shortcut is a convolution only when the channels change.            *)
ResnetBlock(v, p, C) ==
  LET out == [v EXCEPT !.C = C]
  IN PerFrameGroupNorm("v", v, p, "norm1", "h") \o Silu("h", v, "h") \o
     Conv3x3x3("h", v, C, p, "conv1", "h") \o
     PerFrameGroupNorm("h", out, p, "norm2", "h") \o Silu("h", out, "h") \o
     Conv3x3x3("h", out, C, p, "conv2", "h") \o
     (IF v.C # C THEN Conv("v", out, p, "nin_shortcut", "residual") ELSE Name("residual", "v")) \o
     Into("v", Size(out), {"residual", "h"}, {})

(* Padded on the far side only, and not at all along what is not strided.  *)
LOCAL FarPadded(v, level) ==
  IF level.space = 2 THEN [v EXCEPT !.W = @ + 1, !.H = @ + 1] ELSE v

Downsampled(v, level) ==
  ConvOf([FarPadded(v, level) EXCEPT !.D = @ + 2], level.mid, 3, <<level.time, level.space>>)

Downsample(v, level, p) ==
  LET far == FarPadded(v, level)
  IN (IF level.space = 2
        THEN Pad("v", [v EXCEPT !.W = @ + 1], "padW") \o Pad("padW", far, "far")
        ELSE Name("far", "v")) \o
     Pad("far", [far EXCEPT !.D = @ + 2], "padded") \o
     Conv("padded", Downsampled(v, level), p, "conv", "v")

LOCAL Submitted == Flush({"v"}, {})

(* A level: its blocks and the downsampling after them.                    *)
LOCAL Level(c, acc, l) ==
  LET level == c.levels[l]
      p     == "down" \o ToString(l)
      wide  == [acc.v EXCEPT !.C = level.mid]
      block(b) == ResnetBlock(IF b = 0 THEN acc.v ELSE wide, p \o ".block" \o ToString(b), level.mid)
                  \o Submitted
      down  == level.space * level.time > 1
  IN [program |-> acc.program \o Loop(c.blocks, block) \o
                  (IF down THEN Downsample(wide, level, p) \o Submitted ELSE <<>>),
      v |-> IF down THEN Downsampled(wide, level) ELSE wide]

Encode(c) ==
  LET clip  == [C |-> c.channels, D |-> c.frames, H |-> c.height, W |-> c.width]
      first == [clip EXCEPT !.C = c.levels[1].mid]
      start == [program |-> Upload("input", Size(clip)) \o
                            Conv3x3x3("input", clip, c.levels[1].mid, "", "conv_in", "v") \o Submitted,
                v |-> first]
      down  == FoldLeft(LAMBDA acc, l : Level(c, acc, l), start, [l \in DOMAIN c.levels |-> l])
      z     == [down.v EXCEPT !.C = 2 * c.z]
  IN down.program \o
     PerFrameGroupNorm("v", down.v, "", "norm_out", "v") \o Silu("v", down.v, "v") \o
     Conv3x3x3("v", down.v, 2 * c.z, "", "conv_out", "v") \o
     Conv("v", z, "", "quant_conv", "v") \o Readback({"v"})
=============================================================================
