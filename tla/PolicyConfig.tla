---------------------------- MODULE PolicyConfig ----------------------------
(***************************************************************************)
(* The configuration of a policy and the document it is kept in:           *)
(* rerobot-core policy/act.rs and policy/draccus.rs.                       *)
(*                                                                         *)
(* A JSON value is a record with one field, its kind: null, bool, int,     *)
(* float, map, list, and of strings `str`, those that spell a digit        *)
(* (`digit`) and those that spell a truth value (`truth`).  A real number  *)
(* is a whole number of thousandths.  Of settings the program treats alike *)
(* there is one.  replace_final_stride_with_dilation is an integer also    *)
(* where the program keeps a Boolean equal to it.  Operators named ...Slip *)
(* are not the program.                                                    *)
(***************************************************************************)
EXTENDS Integers, FiniteSets, SequencesExt, Sums

CONSTANT Absent

Action == "action"
Nothing == <<>> \* no features, no mapping
FeatureTypes == {"STATE", "VISUAL", "ENV", "ACTION", "REWARD", "LANGUAGE"}
Modes == {"MIN_MAX", "MEAN_STD", "IDENTITY", "QUANTILES", "QUANTILE10"}

Number(n) == [int |-> n]
Kind(raw) == CHOOSE kind \in DOMAIN raw : TRUE
Of(kinds, raw) == IF Kind(raw) \in kinds THEN {raw[Kind(raw)]} ELSE {}
Strings == {"str", "digit", "truth"}

(* The arrays among the fields of an object are arrays.                    *)
IsArray(list) == Len(list) \in Nat /\ DOMAIN list = 1..Len(list)

HoldsArrays(raw) ==
  \A map \in Of({"map"}, raw) :
    \A name \in DOMAIN map : \A list \in Of({"list"}, map[name]) : IsArray(list)

(* python_str                                                              *)
TextOf(raw) ==
  CASE Kind(raw) = "str"   -> raw.str
    [] Kind(raw) = "digit" -> ToString(raw.digit)
    [] Kind(raw) = "truth" -> IF raw.truth THEN "true" ELSE "false"
    [] OTHER               -> ToString(raw)

Only(set) == CHOOSE x \in set : TRUE

(* All that f says, and g of the rest.                                     *)
Over(f, g) ==
  [x \in DOMAIN f \cup DOMAIN g |-> IF x \in DOMAIN f THEN f[x] ELSE g[x]]

(***************************************************************************)
(* The settings                                                            *)
(***************************************************************************)
PolicyTypes ==
  [n_obs_steps |-> "int", input_features |-> "features", output_features |-> "features",
   device |-> "text", use_amp |-> "bool", push_to_hub |-> "bool", repo_id |-> "text",
   private |-> "bool", tags |-> "texts", pretrained_path |-> "path",
   chunk_size |-> "int", n_action_steps |-> "int", normalization_mapping |-> "modes",
   vision_backbone |-> "text", pretrained_backbone_weights |-> "text",
   replace_final_stride_with_dilation |-> "int", pre_norm |-> "bool", dim_model |-> "int",
   n_heads |-> "int", dim_feedforward |-> "int", feedforward_activation |-> "text",
   n_encoder_layers |-> "int", use_vae |-> "bool", latent_dim |-> "int",
   n_vae_encoder_layers |-> "int", temporal_ensemble_coeff |-> "float", dropout |-> "float",
   optimizer_lr |-> "float", optimizer_lr_backbone |-> "float"]

Nullable ==
  {"input_features", "output_features", "device", "repo_id", "private", "tags",
   "pretrained_path", "pretrained_backbone_weights", "temporal_ensemble_coeff"}

DefaultPolicy ==
  [n_obs_steps |-> 1, input_features |-> Nothing, output_features |-> Nothing,
   device |-> Absent, use_amp |-> FALSE, push_to_hub |-> TRUE, repo_id |-> Absent,
   private |-> Absent, tags |-> Absent, pretrained_path |-> Absent, chunk_size |-> 100, n_action_steps |-> 100,
   normalization_mapping |-> [type \in {"VISUAL", "STATE", "ACTION"} |-> "MEAN_STD"],
   vision_backbone |-> "resnet18", pretrained_backbone_weights |-> "IMAGENET1K_V1",
   replace_final_stride_with_dilation |-> 0, pre_norm |-> FALSE, dim_model |-> 512,
   n_heads |-> 8, dim_feedforward |-> 3200, feedforward_activation |-> "relu",
   n_encoder_layers |-> 4, use_vae |-> TRUE, latent_dim |-> 32, n_vae_encoder_layers |-> 4,
   temporal_ensemble_coeff |-> Absent, dropout |-> 100, optimizer_lr |-> 1,
   optimizer_lr_backbone |-> 1]

(* ActConfig::validate                                                     *)
PolicyValid(policy) ==
  /\ policy.vision_backbone \in {"resnet18", "resnet34", "resnet50"}
  /\ policy.temporal_ensemble_coeff # Absent => policy.n_action_steps <= 1
  /\ policy.n_action_steps <= policy.chunk_size
  /\ policy.n_obs_steps = 1

Features(declared) == IF declared = Absent THEN Nothing ELSE declared

Visual(features) == {name \in DOMAIN features : features[name].type = "VISUAL"}

(* validate_features                                                       *)
SeesSomething(policy) ==
  \E name \in DOMAIN Features(policy.input_features) :
    policy.input_features[name].type \in {"VISUAL", "ENV"}

(***************************************************************************)
(* Reading a document as Draccus would: a set of the value, or of none     *)
(* when it is refused                                                      *)
(***************************************************************************)
DecodedInt(raw) ==
  Of({"int", "digit"}, raw) \cup {IF b THEN 1 ELSE 0 : b \in Of({"bool"}, raw)}

DecodedFloat(raw) == Of({"float"}, raw) \cup {1000 * n : n \in DecodedInt(raw)}

DecodedBool(raw) == Of({"bool", "truth"}, raw)

(* Every element decoded, or none.                                         *)
AllDecoded(found) ==
  IF \A i \in DOMAIN found : found[i] # {}
  THEN {[i \in DOMAIN found |-> Only(found[i])]}
  ELSE {}

(* A digit is a string of one character, and the names in an object here   *)
(* spell no number.                                                        *)
DecodedShape(raw) ==
  (UNION {AllDecoded([i \in DOMAIN list |-> DecodedInt(list[i])]) : list \in Of({"list"}, raw)})
    \cup {<<digit>> : digit \in Of({"digit"}, raw)}
    \cup {Nothing : map \in {m \in Of({"map"}, raw) : DOMAIN m = {}}}

(* decode_policy_feature: both fields and no other.                        *)
DecodedFeature(raw) ==
  {[type |-> map.type.str, shape |-> Only(DecodedShape(map.shape))] :
     map \in {m \in Of({"map"}, raw) :
                /\ DOMAIN m = {"type", "shape"}
                /\ Of({"str"}, m.type) \cap FeatureTypes # {}
                /\ DecodedShape(m.shape) # {}}}

DecodedMode(raw) == Of({"str"}, raw) \cap Modes

(* decode_map: an object, or a list of pairs of which the last with a name *)
(* counts.  A pair is a list of two; the program also takes an object of   *)
(* two names for one, which is left out as the names of an object have no  *)
(* order here.  (Of the strings of two characters that it takes none holds *)
(* a mode or a feature.)                                                   *)
DecodedMap(type, raw) ==
  LET Entry(value) == IF type = "modes" THEN DecodedMode(value) ELSE DecodedFeature(value)
      Pair(p) == Kind(p) = "list" /\ Len(p.list) = 2
      FromPairs(list, values) ==
        LET name(i) == TextOf(list[i].list[1])
        IN [n \in {name(i) : i \in DOMAIN list} |->
              values[Max({i \in DOMAIN list : name(i) = n})]]
  IN (UNION {AllDecoded([name \in DOMAIN map |-> Entry(map[name])]) : map \in Of({"map"}, raw)})
       \cup (UNION {{FromPairs(list, values) :
                      values \in AllDecoded([i \in DOMAIN list |-> Entry(list[i].list[2])])} :
                    list \in {l \in Of({"list"}, raw) : \A i \in DOMAIN l : Pair(l[i])}})

DecodedTexts(raw) == {[i \in DOMAIN list |-> TextOf(list[i])] : list \in Of({"list"}, raw)}

DecodedAs(type, raw) ==
  CASE type = "int"      -> DecodedInt(raw)
    [] type = "float"    -> DecodedFloat(raw)
    [] type = "bool"     -> DecodedBool(raw)
    [] type = "text"     -> {TextOf(raw)}
    [] type = "texts"    -> DecodedTexts(raw)
    [] type = "path"     -> Of({"str"}, raw)
    [] type \in {"modes", "features"} -> DecodedMap(type, raw)

(* `field` and `optional`.                                                 *)
DecodedField(document, name) ==
  CASE name \notin DOMAIN document -> {DefaultPolicy[name]}
    [] name \in DOMAIN document /\ name \in Nullable /\ Kind(document[name]) = "null" -> {Absent}
    [] OTHER -> DecodedAs(PolicyTypes[name], document[name])

(* from_checkpoint_value: the fields of an ACT policy and no other; a set  *)
(* of one policy, or of none when the document is refused.                 *)
Decoded(raw) ==
  LET documents == {m \in Of({"map"}, raw) :
                      /\ "type" \in DOMAIN m /\ m.type = [str |-> "act"]
                      /\ DOMAIN m \subseteq DOMAIN PolicyTypes \cup {"type"}}
      Read(m) == AllDecoded([name \in DOMAIN PolicyTypes |-> DecodedField(m, name)])
  IN {policy \in UNION {Read(m) : m \in documents} : PolicyValid(policy)}

(***************************************************************************)
(* Writing it                                                              *)
(***************************************************************************)
EncodedFeature(feature) ==
  [map |-> [type |-> [str |-> feature.type],
            shape |-> [list |-> [i \in DOMAIN feature.shape |-> Number(feature.shape[i])]]]]

EncodedAs(type, value) ==
  CASE type = "int"      -> Number(value)
    [] type = "float"    -> [float |-> value]
    [] type = "bool"     -> [bool |-> value]
    [] type \in {"text", "path"} -> [str |-> value]
    [] type = "texts"    -> [list |-> [i \in DOMAIN value |-> [str |-> value[i]]]]
    [] type = "modes"    -> [map |-> [name \in DOMAIN value |-> [str |-> value[name]]]]
    [] type = "features" -> [map |-> [name \in DOMAIN value |-> EncodedFeature(value[name])]]

(* to_checkpoint_value: what may be None is null.                           *)
EncodedField(name, value) ==
  IF name \in Nullable /\ value = Absent
  THEN [null |-> 0]
  ELSE EncodedAs(PolicyTypes[name], value)

Encoded(policy) ==
  [map |-> Over([name \in DOMAIN policy |-> EncodedField(name, policy[name])],
                [type |-> [str |-> "act"]])]
=============================================================================
