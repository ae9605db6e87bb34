------------------------------ MODULE Processors ------------------------------
(***************************************************************************)
(* What stands between a dataset or a robot and the model: renaming,       *)
(* normalization, and the pipelines and statistics a checkpoint keeps of   *)
(* them (rerobot-train processor.rs, rerobot-core policy/normalize.rs).    *)
(*                                                                         *)
(* A statistic is [of, width, modes, finite]: where its numbers are from,  *)
(* how many there are, the modes they serve, whether all are finite.       *)
(* Operators named ...Slip are not the program.                            *)
(***************************************************************************)
EXTENDS ActForward

(***************************************************************************)
(* Renaming                                                                *)
(***************************************************************************)
(* A bug would be to send what was renamed through the mapping again.      *)
RenamedKeySlip(map, name) ==
  LET Once(n) == IF n # Action /\ n \in DOMAIN map THEN map[n] ELSE n
  IN Once(Once(name))

(* Padding masks follow the feature they mask.                             *)
RenamedKey(map, name) == IF name # Action /\ name \in DOMAIN map THEN map[name] ELSE name

(* rename_stats, of what load_state has read in the order of a hash map:   *)
(* of two that get one name either may be the last.  `action` is renamed   *)
(* like any other.                                                         *)
RenamedStats(stats, map) ==
  LET Target(name) == IF name \in DOMAIN map THEN map[name] ELSE name
      targets == {Target(name) : name \in DOMAIN stats}
  IN {[name \in targets |-> stats[pick[name]]] :
        pick \in {p \in [targets -> DOMAIN stats] :
                    \A name \in targets : Target(p[name]) = name}}

(* Of these features, the one that info.json has last.                     *)
LastOf(data, names) == data.order[Max({i \in DOMAIN data.order : data.order[i] \in names})]

(* Where the batch a model sees has a feature from: the last of those that *)
(* are renamed to it, and a camera before anything that is none.           *)
FedFrom(data, map, name) ==
  LET all == {n \in DOMAIN data.features : RenamedKey(map, n) = name}
      cameras == {n \in all : data.features[n].type = "VISUAL"}
  IN CASE all = {}                     -> Absent
       [] all # {} /\ cameras = {}     -> LastOf(data, all)
       [] OTHER                        -> LastOf(data, cameras)

(***************************************************************************)
(* Normalization                                                           *)
(***************************************************************************)
Restricted(features, names) == [name \in DOMAIN features \cap names |-> features[name]]

Mode(policy, feature) ==
  LET modes == policy.normalization_mapping
  IN IF feature.type \in DOMAIN modes THEN modes[feature.type] ELSE "IDENTITY"

(* Normalizer::new: what is not VISUAL, has a mode and has statistics.     *)
Scalars(policy) ==
  LET all == Over(Features(policy.output_features), Features(policy.input_features))
  IN Restricted(all, DOMAIN all \ Visual(all))

Normalized(policy, stats) ==
  {name \in DOMAIN Scalars(policy) \cap DOMAIN stats :
     Mode(policy, Scalars(policy)[name]) # "IDENTITY"}

NormalizerFits(policy, stats) ==
  \A name \in Normalized(policy, stats) :
    /\ Mode(policy, Scalars(policy)[name]) \in stats[name].modes
    /\ Product(Scalars(policy)[name].shape) = stats[name].width

Normalizer(policy, stats) ==
  [name \in Normalized(policy, stats) |->
     [of |-> stats[name].of, mode |-> Mode(policy, Scalars(policy)[name])]]

(* camera_normalizations_from_stats: by the policy's names.  A statistic   *)
(* under a camera's name is taken to have a mean and a standard deviation, *)
(* as long as one another and not negative; the program refuses it         *)
(* otherwise.                                                              *)
SavedCameras(policy, stats) == Restricted(stats, Cameras(policy))

(* load_state refuses a file without a tensor or with a number that is not *)
(* finite.                                                                 *)
Readable(stats) ==
  DOMAIN stats # {} /\ \A name \in DOMAIN stats : stats[name].finite

(***************************************************************************)
(* The pipelines                                                           *)
(***************************************************************************)
PreprocessorSteps ==
  <<"rename_observations_processor", "to_batch_processor", "device_processor",
    "normalizer_processor">>

PostprocessorSteps == <<"unnormalizer_processor", "device_processor">>

(* step: its name, its settings and the file of its statistics.            *)
Step(name, settings, state) ==
  [registry_name |-> name, config |-> settings, state_file |-> state]

Device(policy) == [device |-> IF policy.device = Absent THEN "cpu" ELSE policy.device]

NormalizationConfig(policy, features) ==
  [features |-> [name \in DOMAIN features |-> EncodedFeature(features[name])],
   norm_map |-> policy.normalization_mapping]

Preprocessor(policy, map) ==
  [name  |-> "policy_preprocessor",
   steps |->
     <<Step(PreprocessorSteps[1], [rename_map |-> map], Absent),
       Step(PreprocessorSteps[2], <<>>, Absent),
       Step(PreprocessorSteps[3], Device(policy), Absent),
       Step(PreprocessorSteps[4],
            NormalizationConfig(policy, Over(policy.output_features, policy.input_features)),
            "normalizer_state")>>]

Postprocessor(policy) ==
  [name  |-> "policy_postprocessor",
   steps |->
     <<Step(PostprocessorSteps[1], NormalizationConfig(policy, policy.output_features),
            "unnormalizer_state"),
       Step(PostprocessorSteps[2], Device(policy), Absent)>>]

(* validate_pipeline: these steps, of which `stateful` has the state.      *)
PipelineFits(document, name, steps, stateful, state) ==
  /\ document.name = name
  /\ Len(document.steps) = Len(steps)
  /\ \A i \in DOMAIN steps :
       /\ document.steps[i].registry_name = steps[i]
       /\ document.steps[i].state_file = IF i = stateful THEN state ELSE Absent

(* rename_map_from_pipeline                                                *)
SavedMap(document) == document.steps[1].config.rename_map

(* load_internal, of the documents and the state of a checkpoint.          *)
ProcessorsFit(checkpoint) ==
  /\ PipelineFits(checkpoint.preprocessor, "policy_preprocessor", PreprocessorSteps,
                  4, "normalizer_state")
  /\ PipelineFits(checkpoint.postprocessor, "policy_postprocessor", PostprocessorSteps,
                  1, "unnormalizer_state")
  /\ Readable(checkpoint.stats)
=============================================================================
