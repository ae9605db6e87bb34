------------------------------ MODULE ActForward ------------------------------
(***************************************************************************)
(* Whether the model that ActModel builds can run on a batch: the shapes   *)
(* its forward pass goes through (rerobot-train model/act.rs, model/ops.rs,*)
(* model/backbone.rs).                                                     *)
(*                                                                         *)
(* A batch is a function from the name of an input to the shape of its     *)
(* tensor, which begins with the number of samples.  Of a tensor there is  *)
(* its shape; what has none, because the program returns an error instead, *)
(* is Failed, which has no extent.                                         *)
(***************************************************************************)
EXTENDS ActModel

Failed == <<>>

Shape(tensors, of, at, name, part) ==
  (CHOOSE t \in tensors : t.of = of /\ t.at = at /\ t.name = name /\ t.part = part).shape

(* Linear::forward, of rank 2 or 3.                                        *)
Times(weight, input) ==
  IF Len(input) \in {2, 3} /\ Last(input) = weight[2]
  THEN Front(input) \o <<weight[1]>>
  ELSE Failed

Projected(tensors, of, at, name, input) == Times(Shape(tensors, of, at, name, "weight"), input)

(* LayerNorm::forward                                                      *)
Normable(tensors, of, at, name, input) ==
  Shape(tensors, of, at, name, "weight") = <<Last(input)>>

(* MultiheadAttention::forward, with a value of the key's shape.           *)
Attended(tensors, of, at, name, query, key, mask, heads) ==
  IF /\ query[3] % heads = 0
     /\ Shape(tensors, of, at, name, "in_proj_weight") = <<3 * query[3], key[3]>>
     /\ query[1] = key[1]
     /\ mask # Absent => Product(mask) = key[1] * key[2]
  THEN Times(Shape(tensors, of, at, name, "out_proj_weight"), query)
  ELSE Failed

(* Activation::forward: glu halves.                                        *)
Activated(activation, input) ==
  CASE input = Failed \/ activation # "glu" -> input
    [] input # Failed /\ activation = "glu" /\ Last(input) % 2 = 0 ->
         Front(input) \o <<Last(input) \div 2>>
    [] OTHER -> Failed

FedForward(tensors, of, at, policy, input) ==
  Projected(tensors, of, at, "linear2",
            Activated(policy.feedforward_activation,
                      Projected(tensors, of, at, "linear1", input)))

(* run_encoder: what is added to x has its shape, and a layer gives it.    *)
EncoderRuns(tensors, of, count, policy, x, positions, mask) ==
  /\ positions = x
  /\ \A i \in 1..count :
       /\ \A norm \in {"norm1", "norm2"} : Normable(tensors, of, <<i>>, norm, x)
       /\ Attended(tensors, of, <<i>>, "self_attn", x, x, mask, policy.n_heads) = x
       /\ FedForward(tensors, of, <<i>>, policy, x) = x
  /\ policy.pre_norm => Normable(tensors, of, <<>>, "norm", x)

(* run_decoder, on what the encoder has made of the observation.           *)
DecoderRuns(tensors, policy, x, positions, memory, memoryPositions) ==
  LET heads == policy.n_heads
  IN /\ positions = x /\ memoryPositions = memory
     /\ \A norm \in {"norm1", "norm2", "norm3"} : Normable(tensors, "decoder", <<1>>, norm, x)
     /\ Attended(tensors, "decoder", <<1>>, "self_attn", x, x, Absent, heads) = x
     /\ Attended(tensors, "decoder", <<1>>, "multihead_attn", x, memory, Absent, heads) = x
     /\ FedForward(tensors, "decoder", <<1>>, policy, x) = x
     /\ Normable(tensors, "decoder", <<>>, "norm", x)

(***************************************************************************)
(* Cameras                                                                 *)
(***************************************************************************)
(* How many places a kernel has on `length` of them.                       *)
Extent(length, kernel, stride, padding) == (length + 2 * padding - kernel) \div stride + 1

(* Conv2d::forward, and FrozenBatchNorm2d::forward after it.               *)
Convolved(tensors, at, name, input, stride, padding) ==
  LET weight == Shape(tensors, "backbone", at, name, "weight")
      norm == Shape(tensors, "backbone", at, name, "mean")
      Side(n) == Extent(n, weight[3], stride, padding)
  IN IF input # Failed /\ input[2] = weight[2] /\ norm = <<weight[1]>>
     THEN <<input[1], weight[1], Side(input[3]), Side(input[4])>>
     ELSE Failed

(* BasicBlock::forward, of two branches that are added.                    *)
BlockOut(tensors, at, input) ==
  LET stride == IF at[1] > 1 /\ at[2] = 1 THEN 2 ELSE 1
      hidden == Convolved(tensors, at, "conv2",
                          Convolved(tensors, at, "conv1", input, stride, 1), 1, 1)
      identity == IF \E t \in tensors : t.of = "backbone" /\ t.at = at /\ t.name = "downsample"
                  THEN Convolved(tensors, at, "downsample", input, stride, 0)
                  ELSE input
  IN IF hidden = identity THEN hidden ELSE Failed

(* max_pool2d                                                              *)
Pooled(input, kernel, stride, padding) ==
  IF input # Failed /\ \A i \in {3, 4} : input[i] + 2 * padding >= kernel
  THEN [i \in DOMAIN input |->
          IF i \in {3, 4} THEN Extent(input[i], kernel, stride, padding) ELSE input[i]]
  ELSE Failed

(* ResNetBackbone::forward, stage after stage, block after block.          *)
StageOut(tensors, stage, count, input) ==
  LET out[n \in 0..count] ==
        IF n = 0 THEN input ELSE BlockOut(tensors, <<stage, n>>, out[n - 1])
  IN out[count]

BackboneOut(tensors, name, image) ==
  LET stem == Pooled(Convolved(tensors, <<>>, "conv1", image, 2, 3), 3, 2, 1)
      Stage(s, input) == StageOut(tensors, s, StageBlocks(name)[s], input)
  IN Stage(4, Stage(3, Stage(2, Stage(1, stem))))

(* One token for each place of the feature map, with a position of its own *)
(* (sinusoidal_position_embedding_2d of half the dimension).               *)
CameraTokens(tensors, policy, features) ==
  LET weight == Shape(tensors, "model", <<>>, "image", "weight")
  IN IF /\ features # Failed /\ features[2] = weight[2]
        /\ 4 * (policy.dim_model \div 4) = policy.dim_model
     THEN <<features[1], features[3] * features[4], weight[1]>>
     ELSE Failed

(***************************************************************************)
(* ActModel::forward                                                       *)
(***************************************************************************)
(* The inputs a pass looks up in the batch.                                *)
Consumed(policy, training) ==
  Cameras(policy)
    \cup {name \in {"state", "environment"} : Width(Features(policy.input_features), name) > 0}
    \cup (IF training THEN {Action} ELSE {})

(* The latent of the actions: their tokens after those of the class and    *)
(* the state, and the mask over all of them.                               *)
Latent(tensors, policy, batch, samples) ==
  LET leading == IF "state" \in Consumed(policy, TRUE) THEN 2 ELSE 1
      actions == Projected(tensors, "model", <<>>, "vae_action", batch[Action])
      x == <<samples, leading + actions[2], policy.dim_model>>
      positions == Shape(tensors, "model", <<>>, "vae_positions", "table")
  IN IF /\ actions # Failed
        /\ "state" \in Consumed(policy, TRUE) =>
             Projected(tensors, "model", <<>>, "vae_state", batch["state"]) # Failed
        /\ EncoderRuns(tensors, "vae", policy.n_vae_encoder_layers, policy, x,
                       <<samples>> \o Tail(positions),
                       <<samples, leading + batch[Action][2]>>)
        /\ Projected(tensors, "model", <<>>, "vae_latent", <<samples, policy.dim_model>>)
             = <<samples, 2 * policy.latent_dim>>
     THEN <<samples, policy.latent_dim>>
     ELSE Failed

(* The latent, the state and the environment are a token each, with a      *)
(* table of positions of their own.                                        *)
ScalarTokens(tensors, policy, batch, latent) ==
  LET names == Consumed(policy, FALSE) \ Cameras(policy)
      one == Projected(tensors, "model", <<>>, "latent", latent)
      positions == Shape(tensors, "model", <<>>, "encoder_positions", "weight")
      count == 1 + Cardinality(names)
  IN IF /\ one # Failed
        /\ \A name \in names : Projected(tensors, "model", <<>>, name, batch[name]) = one
        /\ Product(positions) = count * policy.dim_model
     THEN <<one[1], count, one[2]>>
     ELSE Failed

(* The encoder on all tokens, the decoder on what it makes of them.        *)
Predicted(tensors, policy, scalars, images) ==
  LET count == FoldFunction(LAMBDA shape, n : n + shape[2], scalars[2], images)
      memory == <<scalars[1], count, policy.dim_model>>
      queries == <<scalars[1], policy.chunk_size, policy.dim_model>>
  IN IF /\ scalars # Failed
        /\ \A name \in DOMAIN images : images[name] # Failed
        /\ EncoderRuns(tensors, "encoder", policy.n_encoder_layers, policy, memory, memory, Absent)
        /\ DecoderRuns(tensors, policy, queries,
                       <<scalars[1]>> \o Shape(tensors, "model", <<>>, "decoder_positions", "weight"),
                       memory, memory)
     THEN Projected(tensors, "model", <<>>, "action_head", queries)
     ELSE Failed

(* The tokens of a batch, through the model these tensors are of.          *)
Observed(tensors, policy, batch, samples, training) ==
  LET latent == IF policy.use_vae /\ training THEN Latent(tensors, policy, batch, samples)
                ELSE <<samples, policy.latent_dim>>
      Image(name) == BackboneOut(tensors, policy.vision_backbone, batch[name])
  IN Predicted(tensors, policy, ScalarTokens(tensors, policy, batch, latent),
               [name \in Cameras(policy) |-> CameraTokens(tensors, policy, Image(name))])

(* checked_inference_output_values                                         *)
OutputFits(policy, samples) ==
  4 * samples * policy.chunk_size * Width(policy.output_features, Action) <= Limits.output

Forward(policy, batch, training) ==
  LET samples == batch[CHOOSE name \in DOMAIN batch : TRUE][1]
  IN IF Consumed(policy, training) \subseteq DOMAIN batch /\ OutputFits(policy, samples)
     THEN Observed(Parameters(policy) \cup Buffers(policy), policy, batch, samples, training)
     ELSE Failed

(* `loss`: an error for each action that is asked for.                     *)
LossTaken(policy, batch) == Forward(policy, batch, TRUE) = batch[Action]

(* predict_action_steps                                                    *)
Leading(chunk, steps) ==
  IF chunk # Failed /\ steps <= chunk[2] THEN [chunk EXCEPT ![2] = steps] ELSE Failed

Steps(policy, batch) == Leading(Forward(policy, batch, FALSE), policy.n_action_steps)
=============================================================================
