---------------------------- MODULE H3AudioDecode ----------------------------
(***************************************************************************)
(* AudioVaeGpu.decode (examples/h3-audio/src/decoder-gpu.ts): the steps of *)
(* decoding one latent to a waveform, all of it one submission.  c holds   *)
(* the shapes:                                                             *)
(*   latent, latentDim, dim, frames                                        *)
(*   rates     upsampling per stage; the kernel is twice the rate          *)
(*   kernels   kernel sizes of a stage's blocks                            *)
(*   dilations dilations of a block                                        *)
(*   ratio, taps   of the anti-aliasing filter                             *)
(*                                                                         *)
(* A slab is [C, L]; the constant buffers, zero biases among them, are     *)
(* weights.                                                                *)
(***************************************************************************)
EXTENDS Recording

LOCAL W(name) == {<<"", name>>}

LOCAL Size(x) == x.C * x.L

(* The length a convolution leaves.                                        *)
ConvLength(L, K, stride, padding, dilation) ==
  (L + 2 * padding - dilation * (K - 1) - 1) \div stride + 1

TransposedLength(L, K, stride, padding) == (L - 1) * stride - 2 * padding + K

LOCAL Conv(x, C, L, weights, to) == Into(to, C * L, {x}, weights)

LOCAL PadAxis(x, C, L, to) == Into(to, C * L, {x}, {})

LOCAL Snake(x, n, name, to) == Into(to, n, {x}, W(name))

(* y += x, in place.                                                       *)
Accumulate(y, x, n) == Rewrite(y, n, Elements(n), {x, y}, {})

LOCAL Scale(x, n, to) == Into(to, n, {x}, W("zeroBias"))

(* Padded, upsampled, activated, padded and downsampled.                   *)
AntialiasedSnake(c, x, s, name, to) ==
  LET pad   == c.taps \div c.ratio - 1
      trim  == pad * c.ratio + (c.taps - c.ratio) \div 2
      upper == TransposedLength(s.L + 2 * pad, c.taps, c.ratio, trim)
      left  == c.taps \div 2 - (IF c.taps % 2 = 0 THEN 1 ELSE 0)
      right == c.taps \div 2
  IN PadAxis(x, s.C, s.L + 2 * pad, "padded") \o
     Conv("padded", s.C, upper, W("filter") \cup W("zeroBias"), "upper") \o
     Snake("upper", s.C * upper, name, "activated") \o
     PadAxis("activated", s.C, upper + left + right, "downPadded") \o
     Conv("downPadded", s.C, ConvLength(upper + left + right, c.taps, c.ratio, 0, 1),
          W("filter") \cup W("zeroBias"), to)

(* What keeps the length under a kernel and a dilation.                    *)
LOCAL AmplePadding(K, dilation) == (K * dilation - dilation) \div 2

(* A residual per dilation, each added in place to what came of it.        *)
AmpBlock(c, s, index, K) ==
  LET name(d, part) == "resblock" \o ToString(index) \o part \o ToString(d)
      length(dilation) == ConvLength(s.L, K, 1, AmplePadding(K, dilation), dilation)
      residual(d) ==
        AntialiasedSnake(c, "current", s, name(2 * d, "act"), "t") \o
        Conv("t", s.C, length(c.dilations[d + 1]), W(name(d, "convs1")), "t") \o
        AntialiasedSnake(c, "t", s, name(2 * d + 1, "act"), "t") \o
        Conv("t", s.C, length(1), W(name(d, "convs2")), "t") \o
        Accumulate("t", "current", Size(s)) \o Name("current", "t")
  IN Name("current", "x") \o Loop(Len(c.dilations), residual)

(* The stage's blocks read the same x; their sum is made in the first.     *)
Stage(c, i, s) ==
  LET n == Len(c.kernels)
      block(j) == AmpBlock(c, s, i * n + j, c.kernels[j + 1]) \o
                  (IF j = 0 THEN Name("sum", "current") ELSE Accumulate("sum", "current", Size(s)))
  IN Loop(n, block) \o Scale("sum", Size(s), "x")

Decode(c) ==
  LET stage(acc, i) ==
        LET K == 2 * c.rates[i + 1]
            s == [C |-> acc.s.C \div 2,
                  L |-> TransposedLength(acc.s.L, K, c.rates[i + 1], (K - c.rates[i + 1]) \div 2)]
        IN [program |-> acc.program \o Conv("x", s.C, s.L, W("ups" \o ToString(i)), "x") \o Stage(c, i, s),
            s |-> s]
      start == [program |->
                  Upload("input", c.latent * c.frames) \o
                  Conv("input", c.latentDim, c.frames, W("dec_in_proj"), "x") \o
                  Conv("x", c.dim, ConvLength(c.frames, 7, 1, 3, 1), W("conv_pre"), "x"),
                s |-> [C |-> c.dim, L |-> c.frames]]
      up == FoldLeft(stage, start, [i \in DOMAIN c.rates |-> i - 1])
  IN up.program \o
     AntialiasedSnake(c, "x", up.s, "activation_post", "x") \o
     Conv("x", 1, ConvLength(up.s.L, 7, 1, 3, 1), W("conv_post") \cup W("zeroBias"), "waveform") \o
     Readback({"waveform"})
=============================================================================
