------------------------------ MODULE ActModel ------------------------------
(***************************************************************************)
(* Which model a policy's configuration builds: its parameters and buffers *)
(* by name and shape (rerobot-train model/act.rs, model/backbone.rs,       *)
(* model/params.rs), and which saved weights and optimizer state it takes  *)
(* (params.rs, optim.rs).                                                  *)
(*                                                                         *)
(* A tensor is [of, at, name, part, shape]: the part of the model, the     *)
(* place in it, the operation that has the tensor and what it is of that   *)
(* operation, which is how the program puts its name together.  The        *)
(* numbers in a tensor and how they are drawn are left out.                *)
(***************************************************************************)
EXTENDS PolicyConfig

CONSTANT Limits \* of each dimension of a policy, a feature, a tensor, a model

(***************************************************************************)
(* resolve_shape                                                           *)
(***************************************************************************)
InLimits(shape, limit) ==
  /\ shape \in Seq(1..limit)
  /\ Product(shape) <= Limits.feature

Width(features, name) ==
  IF name \in DOMAIN features THEN Product(features[name].shape) ELSE 0

Cameras(policy) == Visual(Features(policy.input_features))

(* resolve_cameras                                                         *)
CamerasFit(policy) ==
  Cameras(policy) # {} =>
    /\ Cardinality(Cameras(policy)) <= Limits.cameras
    /\ policy.vision_backbone \in {"resnet18", "resnet34"}
    /\ policy.pretrained_backbone_weights = Absent
    /\ policy.replace_final_stride_with_dilation = 0
    /\ \A name \in Cameras(policy) :
         LET shape == policy.input_features[name].shape
         IN Len(shape) = 3 /\ shape[1] = 3 /\ InLimits(shape, Limits.extent)

ShapeFits(policy) ==
  LET inputs == Features(policy.input_features)
      outputs == Features(policy.output_features)
  IN /\ CamerasFit(policy)
     /\ \A name \in DOMAIN inputs \cap {"state", "environment"} :
          InLimits(inputs[name].shape, Limits.feature)
     /\ Action \in DOMAIN outputs
     /\ InLimits(outputs[Action].shape, Limits.feature)
     /\ Cameras(policy) # {} \/ DOMAIN inputs \cap {"state", "environment"} # {}
     /\ policy.n_heads > 0 /\ policy.dim_model % policy.n_heads = 0
     /\ Cameras(policy) # {} => policy.dim_model % 4 = 0

(***************************************************************************)
(* ActModel::new                                                           *)
(***************************************************************************)
Tensor(of, at, name, part, shape) ==
  [of |-> of, at |-> at, name |-> name, part |-> part, shape |-> shape]

Linear(of, at, name, outs, ins) ==
  {Tensor(of, at, name, "weight", <<outs, ins>>), Tensor(of, at, name, "bias", <<outs>>)}

Norm(of, at, name, dim) ==
  {Tensor(of, at, name, part, <<dim>>) : part \in {"weight", "bias"}}

Attention(of, at, name, dim) ==
  {Tensor(of, at, name, "in_proj_weight", <<3 * dim, dim>>),
   Tensor(of, at, name, "in_proj_bias", <<3 * dim>>),
   Tensor(of, at, name, "out_proj_weight", <<dim, dim>>),
   Tensor(of, at, name, "out_proj_bias", <<dim>>)}

Layer(of, at, policy, attentions, norms) ==
  LET dim == policy.dim_model
      hidden == policy.dim_feedforward
  IN (UNION {Attention(of, at, name, dim) : name \in attentions})
       \cup (UNION {Norm(of, at, name, dim) : name \in norms})
       \cup Linear(of, at, "linear1", hidden, dim) \cup Linear(of, at, "linear2", dim, hidden)

EncoderLayers(of, count, policy) ==
  (UNION {Layer(of, <<i>>, policy, {"self_attn"}, {"norm1", "norm2"}) : i \in 1..count})
    \cup IF policy.pre_norm THEN Norm(of, <<>>, "norm", policy.dim_model) ELSE {}

(* One decoder layer, as n_decoder_layers is by default.                   *)
DecoderLayers(policy) ==
  Layer("decoder", <<1>>, policy, {"self_attn", "multihead_attn"}, {"norm1", "norm2", "norm3"})
    \cup Norm("decoder", <<>>, "norm", policy.dim_model)

Vae(policy) ==
  LET dim == policy.dim_model
      state == Width(Features(policy.input_features), "state")
  IN EncoderLayers("vae", policy.n_vae_encoder_layers, policy)
       \cup {Tensor("model", <<>>, "vae_cls", "weight", <<1, dim>>)}
       \cup Linear("model", <<>>, "vae_action", dim, Width(policy.output_features, Action))
       \cup Linear("model", <<>>, "vae_latent", 2 * policy.latent_dim, dim)
       \cup IF state > 0 THEN Linear("model", <<>>, "vae_state", dim, state) ELSE {}

(* A BasicBlock's convolutions; where the size changes there is a third.   *)
Block(stage, index, ins, outs) ==
  LET at == <<stage, index>>
      Convolution(name, from, kernel) ==
        Tensor("backbone", at, name, "weight", <<outs, from, kernel, kernel>>)
  IN {Convolution("conv1", ins, 3), Convolution("conv2", outs, 3)}
       \cup IF stage > 1 /\ index = 1 THEN {Convolution("downsample", ins, 1)} ELSE {}

Channels == <<64, 128, 256, 512>>

StageBlocks(name) == IF name = "resnet34" THEN <<3, 4, 6, 3>> ELSE <<2, 2, 2, 2>>

Backbone(name) ==
  {Tensor("backbone", <<>>, "conv1", "weight", <<64, 3, 7, 7>>)}
    \cup (UNION {Block(at[1], at[2],
                      Channels[IF at[2] > 1 \/ at[1] = 1 THEN at[1] ELSE at[1] - 1],
                      Channels[at[1]]) :
                  at \in {a \in (1..4) \X (1..6) : a[2] <= StageBlocks(name)[a[1]]}})

(* What is trained, in the order of these names.                           *)
Parameters(policy) ==
  LET dim == policy.dim_model
      inputs == Features(policy.input_features)
      Input(name) == IF Width(inputs, name) > 0
                     THEN Linear("model", <<>>, name, dim, Width(inputs, name)) ELSE {}
      tokens == 1 + Cardinality(DOMAIN inputs \cap {"state", "environment"})
  IN (IF policy.use_vae THEN Vae(policy) ELSE {})
       \cup EncoderLayers("encoder", policy.n_encoder_layers, policy)
       \cup DecoderLayers(policy)
       \cup Input("state") \cup Input("environment")
       \cup Linear("model", <<>>, "latent", dim, policy.latent_dim)
       \cup Linear("model", <<>>, "action_head", Width(policy.output_features, Action), dim)
       \cup {Tensor("model", <<>>, "encoder_positions", "weight", <<tokens, dim>>),
             Tensor("model", <<>>, "decoder_positions", "weight", <<policy.chunk_size, dim>>)}
       \cup (IF Cameras(policy) = {} THEN {}
             ELSE Backbone(policy.vision_backbone)
                    \cup Linear("model", <<>>, "image", dim, 512))

(* A bug would be to forget the state.                                     *)
VaeTokensSlip(policy) == 1 + policy.chunk_size

(* The class, the state and the actions.                                   *)
VaeTokens(policy) ==
  1 + policy.chunk_size + (IF Width(Features(policy.input_features), "state") > 0 THEN 1 ELSE 0)

(* Saved with them but not trained: the table of positions, and what       *)
(* normalizes the output of each convolution.                              *)
Buffers(policy) ==
  LET normalized == {t \in Parameters(policy) : t.of = "backbone"}
      Positions == Tensor("model", <<>>, "vae_positions", "table",
                          <<1, VaeTokens(policy), policy.dim_model>>)
  IN {Tensor("backbone", t.at, t.name, part, <<t.shape[1]>>) :
        t \in normalized, part \in {"scale", "shift", "mean", "var"}}
       \cup (IF policy.use_vae THEN {Positions} ELSE {})

(* ParameterStore::account, of four bytes a number.                        *)
Affordable(tensors) ==
  LET Bytes(t) == 4 * Product(t.shape)
  IN /\ \A t \in tensors : Bytes(t) <= Limits.tensor
     /\ MapThenSumSet(Bytes, tensors) <= Limits.model

ModelFits(policy) ==
  /\ ShapeFits(policy)
  /\ policy.feedforward_activation \in {"relu", "gelu", "glu"}
  /\ Affordable(Parameters(policy) \cup Buffers(policy))

(***************************************************************************)
(* Saved tensors.  `built` is the policy of the model they were saved of.  *)
(***************************************************************************)
(* ParameterStore::load: the same names, the same shapes.                  *)
WeightsFit(weights, policy) ==
  Parameters(weights.built) \cup Buffers(weights.built)
    = Parameters(policy) \cup Buffers(policy)

(* AdamW::load_state_tensors: moments of every parameter, or of none.      *)
OptimizerFits(optimizer, policy) ==
  optimizer.steps > 0 => Parameters(optimizer.built) = Parameters(policy)

(* act_parameter_groups: the backbone learns at its own rate.              *)
Groups(policy) ==
  {[params |-> {t \in Parameters(policy) : t.of # "backbone"}, lr |-> policy.optimizer_lr],
   [params |-> {t \in Parameters(policy) : t.of = "backbone"},
    lr |-> policy.optimizer_lr_backbone]}

(* AdamW::new: every parameter is in one group.                            *)
GroupsFit(groups, policy) ==
  /\ UNION {g.params : g \in groups} = Parameters(policy)
  /\ \A g, h \in groups : g # h => g.params \cap h.params = {}
=============================================================================
