----------------------------- MODULE MCTrainRuns -----------------------------
(***************************************************************************)
(* Three runs over datasets with one camera, two and none that may be       *)
(* renamed, with and without usable statistics, an environment and a       *)
(* second action; into three directories.                                  *)
(***************************************************************************)
EXTENDS TrainRuns

Feature(type, shape) == [type |-> type, shape |-> shape]
Camera == Feature("VISUAL", <<3, 33, 64>>)

StatisticsOf(root, name, width) ==
  [of |-> <<root, name>>, width |-> width, modes |-> {"MEAN_STD"}, finite |-> TRUE]

Dataset(root, order, actions) ==
  LET all == ("state" :> Feature("STATE", <<2>>)) @@ ("environment" :> Feature("ENV", <<2, 1>>))
               @@ ("action_left" :> Feature("ACTION", <<1>>))
               @@ (Action :> Feature("ACTION", <<actions>>))
      scalars == Range(order) \cap DOMAIN all
  IN [order |-> order,
      features |-> [name \in Range(order) |-> IF name \in scalars THEN all[name] ELSE Camera],
      stats |-> [name \in scalars |-> StatisticsOf(root, name, Product(all[name].shape))],
      cameraStats |-> Range(order) \ scalars,
      episodes |-> {0, 1}]

Both == Dataset("both", <<"state", "top", "side", Action>>, 1)

MCDatasets ==
  [plain |-> Dataset("plain", <<"state", "top", Action>>, 1),
   both  |-> Both,
   other |-> Dataset("other", <<"side", "state", Action>>, 1),
   wide  |-> Dataset("wide", <<"state", "top", Action>>, 2),
   hands |-> Dataset("hands", <<"state", "top", Action, "action_left">>, 1),
   world |-> Dataset("world", <<"environment", "state", Action>>, 1),
   bare  |-> [Both EXCEPT !.stats = Nothing, !.cameraStats = {}],
   odd   |-> [Both EXCEPT !.stats[Action].finite = FALSE]]

Text(s) == [str |-> s]
Object(map) == [map |-> map]
List(list) == [list |-> list]
No == [null |-> 0]
Off == [bool |-> FALSE]
NoFlags == <<>>

Small ==
  [pretrained_backbone_weights |-> No, chunk_size |-> Number(2), n_action_steps |-> Number(1),
   dim_model |-> Number(4), n_heads |-> Number(2), dim_feedforward |-> Number(2),
   n_encoder_layers |-> Number(1), n_vae_encoder_layers |-> Number(0), latent_dim |-> Number(2)]

(* What a user or upstream may have written: declared inputs, no seed, and *)
(* in the policy digits for numbers, a list of pairs for an object.        *)
Written(root, out, policy) ==
  Object([dataset |-> Object([root |-> Text(root), use_imagenet_stats |-> [bool |-> TRUE]]),
          output_dir |-> Text(out), batch_size |-> Number(2), steps |-> Number(1),
          save_freq |-> Number(0), tolerance_s |-> [float |-> 0],
          policy |-> Object([type |-> Text("act"), push_to_hub |-> Off] @@ policy @@ Small)])

WrittenFeature(type, shape) == Object([type |-> Text(type), shape |-> shape])
RGB == WrittenFeature("VISUAL", List(<<Number(3), Number(33), Number(64)>>))

MCFiles ==
  [upstream |->
     Written("both", "A",
             [device |-> Text("cpu"), n_heads |-> [bool |-> TRUE], use_amp |-> [truth |-> FALSE],
              input_features |->
                List(<<List(<<Text("state"), WrittenFeature("STATE", [digit |-> 2])>>),
                       List(<<Text("top"), RGB>>)>>)]),
   wrist |-> Written("plain", "A", [input_features |-> Object([wrist |-> RGB])]),
   eye   |-> Written("plain", "A", [input_features |-> Object([state |-> RGB])]),
   ours  |-> Written("plain", "B", [device |-> No, latent_dim |-> [digit |-> 2]]),
   extra |-> Written("plain", "B", [focal_length |-> Number(3)]),
   other |-> Written("plain", "B", [type |-> Text("diffusion")]),
   whole |-> [Written("plain", "B", NoFlags) EXCEPT !.map.tolerance_s = Number(0)],
   short |-> Object([dataset |-> Object([root |-> Text("plain")]), output_dir |-> Text("A")])]

MCLimits ==
  [chunk_size |-> 3, n_action_steps |-> 3, dim_model |-> 8, n_heads |-> 4,
   dim_feedforward |-> 4, n_encoder_layers |-> 2, n_vae_encoder_layers |-> 1, latent_dim |-> 4,
   feature |-> 100000, extent |-> 100, cameras |-> 2, output |-> 100, tensor |-> 10000000,
   model |-> 100000000]

A1 == <<"A", 1>>
B1 == <<"B", 1>>
Common == [batch_size |-> Number(2), steps |-> Number(1), save_freq |-> Number(1)]

New(root, out, path, more, policy) ==
  [resume |-> FALSE, config |-> Absent, path |-> path, policyType |-> path = Absent,
   flags |-> [root |-> Text(root), output_dir |-> Text(out)] @@ more @@ Common,
   policyFlags |-> IF path = Absent THEN policy @@ Small ELSE policy]

FromConfig(path, resume, flags, policy) ==
  [resume |-> resume, config |-> path, path |-> Absent, policyType |-> FALSE,
   flags |-> flags, policyFlags |-> policy]

Path(form, place) == [form |-> form, place |-> place]
Mapping(map) == [rename_map |-> Object(map)]
Swap == Mapping([top |-> Text("side"), side |-> Text("top")])
OwnCameras == [use_imagenet_stats |-> Off]
RawState == [normalization_mapping |-> Object("STATE" :> Text("IDENTITY"))]

Fresh ==
  {New("plain", "A", Absent, NoFlags, NoFlags),
   New("both", "A", Absent, OwnCameras, NoFlags),
   New("both", "A", Absent,
       [steps |-> Number(2), save_freq |-> Number(2), episodes |-> List(<<Number(1)>>)],
       [dropout |-> [float |-> 0], use_vae |-> Off] @@ RawState),
   New("hands", "A", Absent, NoFlags, NoFlags),
   New("bare", "A", Absent, OwnCameras, NoFlags),
   New("bare", "A", Absent, NoFlags, NoFlags),
   New("odd", "A", Absent, NoFlags, NoFlags),
   New("plain", "A", Absent, [batch_size |-> Number(16)], NoFlags),
   New("world", "A", Absent, NoFlags, [pre_norm |-> [bool |-> TRUE], n_vae_encoder_layers |-> Number(1)]),
   FromConfig(Path("file", "upstream"), FALSE, NoFlags, NoFlags),
   FromConfig(Path("file", "wrist"), FALSE, NoFlags, NoFlags),
   FromConfig(Path("file", "eye"), FALSE, NoFlags, NoFlags),
   FromConfig(Path("file", "ours"), FALSE, NoFlags, NoFlags),
   FromConfig(Path("document", A1), FALSE, [output_dir |-> Text("B")], NoFlags)}

Tuned ==
  {New("both", "B", A1, OwnCameras, NoFlags),
   New("other", "B", A1, Mapping([side |-> Text("top")]), NoFlags),
   New("both", "B", A1, Swap, NoFlags),
   New("plain", "B", A1, NoFlags, RawState),
   New("plain", "A", B1, NoFlags, NoFlags),
   New("other", "C", B1, NoFlags, NoFlags),
   New("wide", "B", A1, NoFlags, NoFlags)}

Resumed ==
  {FromConfig(Path("directory", A1), TRUE, [steps |-> Number(2)], NoFlags),
   FromConfig(Path("last", "A"), TRUE, [steps |-> Number(2), seed |-> No],
              [optimizer_lr |-> [float |-> 2]]),
   FromConfig(Path("document", B1), TRUE, [steps |-> Number(2), output_dir |-> Text("C")], NoFlags),
   FromConfig(Path("directory", A1), TRUE, OwnCameras, NoFlags),
   FromConfig(Path("last", "B"), TRUE, [steps |-> Number(2)], [n_heads |-> Number(1)]),
   FromConfig(Path("directory", A1), TRUE, [steps |-> Number(2)], [use_vae |-> Off]),
   FromConfig(Path("file", "upstream"), TRUE, NoFlags, NoFlags)}

Refused ==
  {New("plain", "A", Absent, [steps |-> Number(0)], NoFlags),
   New("plain", "A", Absent, [batch_size |-> Text("2")], NoFlags),
   New("plain", "A", Absent, [wandb |-> Text("x")], NoFlags),
   New("plain", "A", Absent, Mapping([side |-> Text("top")]), NoFlags),
   New("plain", "A", Absent, [episodes |-> List(<<Number(7)>>)], NoFlags),
   New("plain", "A", Absent, NoFlags, [n_heads |-> Number(3)]),
   New("plain", "A", Absent, NoFlags, [temporal_ensemble_coeff |-> [float |-> 10],
                                       n_action_steps |-> Number(2)]),
   New("plain", "A", Absent, NoFlags, [pretrained_backbone_weights |-> Text("IMAGENET1K_V1")]),
   New("plain", "A", Absent, NoFlags, [vision_backbone |-> Text("resnet50")]),
   New("plain", "A", Absent, NoFlags, [dim_model |-> Number(6)]),
   New("world", "A", Absent, NoFlags, [feedforward_activation |-> Text("glu")]),
   New("world", "A", Absent, NoFlags, [device |-> Text("tpu")])}
  \cup {FromConfig(Path("file", name), FALSE, NoFlags, NoFlags) :
          name \in {"extra", "other", "whole", "short"}}
  \cup {FromConfig(Path("directory", A1), TRUE, [use_preset |-> Off], NoFlags)}

MCCommands == Fresh \cup Tuned \cup Resumed \cup Refused
=============================================================================
