------------------------------- MODULE Forwards -------------------------------
(***************************************************************************)
(* The recorded forwards, on shapes small enough to run step by step: every *)
(* loop goes round at least twice, the last time for less, wherever the    *)
(* code can split what it does.                                            *)
(***************************************************************************)
EXTENDS Recording

LOCAL A == INSTANCE AnimaForward
LOCAL Z == INSTANCE ZimageForward
LOCAL D == INSTANCE H3DitForward
LOCAL V == INSTANCE H3VideoDecode
LOCAL C == INSTANCE H3Conditioner
LOCAL E == INSTANCE H3VideoEncode
LOCAL S == INSTANCE H3AudioDecode
LOCAL T == INSTANCE Qwen3Encode
LOCAL O == INSTANCE ZimageOneShot
LOCAL P == INSTANCE ZimageVaeDecode
LOCAL Q == INSTANCE WanVaeDecode

-----------------------------------------------------------------------------
(* The calls a model is given, in turn.  An object with a pool of its own  *)
(* sees clips of several lengths, and sequences above and below the size   *)
(* from which blocks are split.                                            *)
Programs ==
  LET
    Anima ==
      [dim |-> 2, lora |-> 1, seq |-> 3, contextSeq |-> 1, heads |-> 3, headDim |-> 1, ffn |-> 4,
       blocks |-> 2, from |-> 0, to |-> 2, trace |-> TRUE, bias |-> TRUE, flash |-> TRUE,
       perBatch |-> 2, perDispatch |-> 5]
    Zimage ==
      [dim |-> 2, adaln |-> 1, mid |-> 3, patch |-> 1, ffn |-> 3, heads |-> 2, headDim |-> 1,
       xSeq |-> 2, capSeq |-> 3, capValid |-> 2, refiners |-> 1, layers |-> 2, trace |-> TRUE,
       perBatch |-> 1, perDispatch |-> 5, maxRows |-> 4]
    H3Dit ==
      [hidden |-> 2, ffn |-> 3, heads |-> 2, headDim |-> 2, patch |-> 2, audioIn |-> 1,
       video |-> <<0, 1>>, audio |-> <<4>>, text |-> <<2, 3>>,
       adaln |-> <<0, 0, 1, 1, 0>>, timestep |-> <<0, 0, 0, 0, 1>>,
       refiners |-> 1, layers |-> 2, split |-> TRUE, perDispatch |-> 8, maxRows |-> 4, align |-> 2]
    H3Video ==
      [channels |-> 1, dim |-> 2, heads |-> 1, headDim |-> 2, ffn |-> 3, patch |-> 3, patches |-> 3,
       registers |-> 1, layers |-> 3, blocksPerSubmit |-> 2, split |-> TRUE, perBinding |-> 6]
    Conditioner ==
      [vision |-> [hidden |-> 2, heads |-> 2, headDim |-> 1, ffn |-> 3, patch |-> 2, merge |-> 2,
                   out |-> 2, depth |-> 2, taps |-> <<0>>],
       text |-> [hidden |-> 2, heads |-> 2, kvHeads |-> 1, headDim |-> 1, ffn |-> 3, layers |-> 2],
       tokens |-> 4, seq |-> 5, visual |-> <<<<1, 1>>, <<3, 1>>>>,
       perDispatch |-> 6, maxRows |-> 3, align |-> 2]
    Encoder ==
      [channels |-> 1, frames |-> 3, height |-> 4, width |-> 4, z |-> 1, blocks |-> 1,
       levels |-> <<[mid |-> 1, space |-> 2, time |-> 2], [mid |-> 2, space |-> 1, time |-> 1]>>]
    Audio ==
      [latent |-> 1, latentDim |-> 2, dim |-> 4, frames |-> 2, rates |-> <<2, 2>>,
       kernels |-> <<3, 5>>, dilations |-> <<1, 3>>, ratio |-> 2, taps |-> 4]
    Qwen3 ==
      [hidden |-> 2, heads |-> 2, kvHeads |-> 1, headDim |-> 2, ffn |-> 3, seq |-> 3, layers |-> 2,
       finalNorm |-> TRUE]
    ZimageVae ==
      [latentChannels |-> 1, blockOut |-> <<1, 3>>, layersPerBlock |-> 1, outChannels |-> 3,
       height |-> 1, width |-> 3, perDispatch |-> 5, scores |-> 7, perBuffer |-> 25]
    WanVae ==
      [z |-> 1, dims |-> <<2, 2, 1>>, resBlocks |-> 1, height |-> 1, width |-> 3,
       shortcuts |-> {"up2.0."}, perDispatch |-> 5, maxRows |-> 2, scores |-> 7, perBuffer |-> 13]
  IN
    [anima       |-> <<A!AnimaForwardResident(Anima)>>,
     animaShards |->
       <<A!AnimaForwardResident([Anima EXCEPT !.blocks = 3, !.to = 1, !.flash = FALSE, !.trace = FALSE]),
         A!AnimaForwardResident([Anima EXCEPT !.blocks = 3, !.from = 1, !.to = 3, !.flash = FALSE, !.bias = FALSE])>>,
     zimage      |-> <<Z!DitForwardResident(Zimage)>>,
     zimageBoth  |->
       <<Z!DitForwardResident([Zimage EXCEPT !.trace = FALSE]),
         Z!DitForwardResident([Zimage EXCEPT !.trace = FALSE, !.capSeq = 2])>>,
     h3dit       |-> <<D!DitForward(H3Dit)>>,
     h3ditBoth   |-> <<D!DitForward(H3Dit), D!DitForward([H3Dit EXCEPT !.split = FALSE])>>,
     h3video     |-> <<V!Decode(H3Video)>>,
     h3videoBoth |-> <<V!Decode(H3Video), V!Decode([H3Video EXCEPT !.patches = 5, !.split = FALSE])>>,
     conditioner |-> <<C!ConditionerForward(Conditioner)>>,
     encoder     |-> <<E!Encode(Encoder), E!Encode([Encoder EXCEPT !.frames = 2])>>,
     audio       |-> <<S!Decode(Audio)>>,
     textEncoder |-> <<T!Qwen3Encode(Qwen3), T!Qwen3Encode([Qwen3 EXCEPT !.finalNorm = FALSE])>>,
     zimageOne   |-> <<O!DitForwardGpu([Zimage EXCEPT !.perDispatch = 4])>>,
     zimageVae   |-> <<P!Decode(ZimageVae)>>,
     wanVae      |-> <<Q!WanVaeDecode(WanVae)>>]

(* The tensors that are quantized: convert_dit.py takes the projections    *)
(* that are large both ways.                                               *)
AnimaPacked ==
  {"linear_1", "linear_2", "1", "2", "layer1", "layer2"} \cup
  {a \o b : a \in {"self", "cross", "mlp"}, b \in {"1", "2"}} \cup
  {a \o b : a \in {"self", "cross"}, b \in {"q", "k", "v", "out"}}

ZimagePacked == {"adaLN", "to_q", "to_k", "to_v", "to_out", "w1", "w2", "w3", "1", "linear"}

(* How each of them pools buffers, keeps weights and preloads them.        *)
Policies ==
  LET
    CallPool ==
      [scope |-> "call", class |-> "best", grain |-> 1, budget |-> 1000,
       source |-> "fifo", limit |-> [dense |-> 6, packed |-> 18], packed |-> AnimaPacked,
       permutes |-> {"selfq", "selfk", "selfqNorm", "selfkNorm"}, held |-> "generation"]
    Shards == [CallPool EXCEPT !.limit.packed = 16, !.held = "call"]
    Zimage ==
      [CallPool EXCEPT !.source = "lru", !.limit = [dense |-> 10, packed |-> 10], !.packed = ZimagePacked,
                       !.permutes = {}, !.held = "page"]
    NoPool ==
      [CallPool EXCEPT !.source = "none", !.limit = [dense |-> 0, packed |-> 0], !.packed = {},
                       !.permutes = {}, !.held = "call"]
    ObjectPool == [NoPool EXCEPT !.scope = "object", !.class = "grain", !.grain = 4, !.held = "page"]
  IN
    [anima       |-> CallPool,
     animaShards |-> Shards,
     zimageBoth  |-> Zimage,
     zimage      |-> Zimage,
     h3dit       |-> ObjectPool,
     h3ditBoth   |-> [ObjectPool EXCEPT !.budget = 60],
     h3video     |-> ObjectPool,
     h3videoBoth |-> [ObjectPool EXCEPT !.budget = 60],
     conditioner |-> ObjectPool,
     encoder     |-> ObjectPool,
     audio       |-> [ObjectPool EXCEPT !.class = "power"],
     textEncoder |-> NoPool,
     zimageOne   |-> NoPool,
     zimageVae   |-> NoPool,
     wanVae      |-> NoPool]
=============================================================================
