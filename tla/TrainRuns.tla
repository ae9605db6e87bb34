------------------------------ MODULE TrainRuns ------------------------------
(***************************************************************************)
(* Runs that go on from one another's checkpoints: TrainSession, train()   *)
(* and write_checkpoint_contents of rerobot-train run.rs, processor.rs,    *)
(* the parameters (model/params.rs, model/act.rs) and the optimizer        *)
(* (optim.rs), and what of a checkpoint InferenceSession::load reads       *)
(* (deploy.rs).                                                            *)
(*                                                                         *)
(* A command starts a run; the run opens a session, on the dataset alone,  *)
(* on a policy's weights (--policy.path) or on the checkpoint it resumes;  *)
(* it trains, publishes checkpoints, and ends, fails or is killed.         *)
(*                                                                         *)
(* Abstracted: a statistic is where its numbers are from, their number     *)
(* and the modes they serve; weights are the policy they were built for    *)
(* and, a history, how what they were trained on was normalized.  How a    *)
(* checkpoint reaches the disk is CheckpointStore, which frames a batch    *)
(* has Training.                                                           *)
(* Operators named ...Slip are not the program.                            *)
(***************************************************************************)
EXTENDS TrainConfigs, Processors

CONSTANTS
  Commands,   \* [resume, config, path, policyType, flags, policyFlags]
  MaxCommands \* a bound: the runs of a behaviour

(* The features of a dataset are those of a policy; its statistics are     *)
(* only of what is no camera (meta.rs, load_stats_for_features), and of    *)
(* the documents the arrays are arrays.                                    *)
DatasetFits(data) ==
  /\ IsArray(data.order)
  /\ Range(data.order) = DOMAIN data.features
  /\ \A name \in DOMAIN data.features :
       LET feature == data.features[name]
       IN /\ feature = [type |-> feature.type, shape |-> feature.shape]
          /\ feature.type \in FeatureTypes
          /\ feature.shape = [i \in DOMAIN feature.shape |-> feature.shape[i]]
  /\ Action \in DOMAIN data.features => data.features[Action].type = "ACTION"
  /\ DOMAIN data.stats \cap Visual(data.features) = {}
  /\ data.stats = [name \in DOMAIN data.stats |-> data.stats[name]]

(* The output directories that commands and files name.                    *)
OutputDirs ==
  {Only(FlagValues("output_dir", "text", command.flags.output_dir)) :
     command \in {c \in Commands : "output_dir" \in DOMAIN c.flags}}
    \cup (UNION {{c.output_dir : c \in FromFile(Files[file])} : file \in DOMAIN Files})

ASSUME RunAssumption ==
  /\ \A root \in DOMAIN Datasets : DatasetFits(Datasets[root])
  /\ \A file \in DOMAIN Files :
       "policy" \in DOMAIN Fields(Files[file]) => HoldsArrays(Fields(Files[file]).policy)
  /\ \A command \in Commands : HoldsArrays([map |-> command.policyFlags])
  /\ MaxNatural \in Nat /\ MaxNatural >= 100000
  /\ Absent \notin OutputDirs \X Nat \* no place is None
  /\ \A name \in DOMAIN Limits \cap DOMAIN PolicyTypes : PolicyTypes[name] = "int"
  /\ {"chunk_size", "dim_model", "feature", "extent"} \subseteq DOMAIN Limits
  /\ \A name \in DOMAIN Limits : Limits[name] \in Nat

VARIABLES
  saved,   \* <<output_dir, step>> -> checkpoint
  last,    \* output_dir -> the checkpoint its marker names
  config,  \* of the run, Absent before and after it
  session, \* of the run once it is open
  commands \* how many there have been

runVars == <<saved, last, config, session, commands>>

ImageNet == <<"imagenet", "imagenet">>

(***************************************************************************)
(* What a session trains: the features, the mapping, the statistics        *)
(***************************************************************************)
UsedMap(c, checkpoints) ==
  LET path == c.policy.pretrained_path
  IN IF c.rename_map # Nothing THEN c.rename_map
     ELSE IF path # Absent THEN SavedMap(checkpoints[path].preprocessor)
     ELSE Nothing

(* policy_feature_split: every action of a dataset is an output.           *)
Actions(data) == {name \in DOMAIN data.features : data.features[name].type = "ACTION"}
Outputs(data) == Restricted(data.features, Actions(data))

(* resolved_policy_features_with_rename; of those that rename_policy_      *)
(* features gives one name the last counts.                                *)
Inputs(c, data, map) ==
  LET declared == Features(c.policy.input_features)
      own == DOMAIN data.features \ Actions(data)
      Named(name) == {n \in own : RenamedKey(map, n) = name}
      renamed == [name \in {RenamedKey(map, n) : n \in own} |->
                    data.features[LastOf(data, Named(name))]]
  IN IF c.policy.pretrained_path # Absent /\ declared # Nothing
     THEN declared
     ELSE Over(Restricted(declared, Visual(declared)), renamed)

Resolved(c, data, map) ==
  [c.policy EXCEPT !.input_features = Inputs(c, data, map),
                   !.output_features = Outputs(data)]

(* resolve_camera_normalizations: by the dataset's names; what has neither *)
(* is left as it is.                                                       *)
DatasetCameras(c, data) ==
  LET statistics(of) == [of |-> of, width |-> 3, modes |-> {"MEAN_STD"}, finite |-> TRUE]
  IN IF c.use_imagenet_stats
     THEN [name \in Visual(data.features) |-> statistics(ImageNet)]
     ELSE [name \in Visual(data.features) \cap data.cameraStats |->
             statistics(<<c.root, name>>)]

(* with_image_normalizations, normalized: how what feeds an input is       *)
(* normalized.                                                             *)
NormalizationOf(s, data, name) ==
  LET from == FedFrom(data, s.rename, name)
      camera(n) == [of |-> s.cameras[n].of, mode |-> "MEAN_STD"]
  IN IF name \in Cameras(s.policy)
     THEN CASE name \in DOMAIN s.cameras -> camera(name)
            [] name \notin DOMAIN s.cameras /\ from \in DOMAIN s.cameras -> camera(from)
            [] OTHER -> Absent
     ELSE IF name \in DOMAIN s.normalizer THEN s.normalizer[name] ELSE Absent

Fed(s, data) == {name \in Consumed(s.policy, TRUE) : FedFrom(data, s.rename, name) # Absent}

Normalizations(s, data) == [name \in Fed(s, data) |-> NormalizationOf(s, data, name)]

(***************************************************************************)
(* Opening a session                                                       *)
(***************************************************************************)
Session(c, policy, map, stats, cameras, weights) ==
  [policy |-> policy, rename |-> map, stats |-> stats, cameras |-> cameras,
   normalizer |-> Normalizer(policy, stats), weights |-> weights,
   optimizer |-> [built |-> policy, steps |-> 0],
   groups |-> <<policy.optimizer_lr, policy.optimizer_lr_backbone>>,
   rng |-> [seed |-> IF c.seed = Absent THEN 0 ELSE c.seed, drawn |-> 0],
   step |-> 0]

(* A bug would be to normalize with what the new dataset says.             *)
StatisticsSlip(c, policy, map, checkpoints) ==
  LET data == Datasets[c.root]
  IN {[stats |-> data.stats, cameras |-> DatasetCameras(c, data)]}

(* What the session may normalize with: the dataset's statistics, or those *)
(* that come with the weights.                                             *)
Statistics(c, policy, map, checkpoints) ==
  LET data == Datasets[c.root]
      path == c.policy.pretrained_path
  IN IF path = Absent
     THEN {[stats |-> data.stats, cameras |-> DatasetCameras(c, data)]}
     ELSE {[stats |-> stats, cameras |-> SavedCameras(policy, stats)] :
             stats \in RenamedStats(checkpoints[path].stats, map)}

Weights(c, policy, checkpoints) ==
  LET path == c.policy.pretrained_path
  IN IF path = Absent THEN [built |-> policy, trained |-> Absent] ELSE checkpoints[path].weights

(* Where TrainSession::new and restore refuse, whatever the statistics.    *)
Refuses(c, checkpoints) ==
  LET path == c.policy.pretrained_path
      data == Datasets[c.root]
      policy == Resolved(c, data, UsedMap(c, checkpoints))
  IN \/ c.root \notin DOMAIN Datasets
     \/ path # Absent /\ path \notin DOMAIN checkpoints
     \/ c.episodes # Absent /\ ~(Range(c.episodes) \subseteq data.episodes)
     \/ ~PolicyValid(policy) \/ ~SeesSomething(policy)
     \/ ~ModelFits(policy) \/ ~GroupsFit(Groups(policy), policy)
     \/ path # Absent /\ ~ProcessorsFit(checkpoints[path])
     \/ path # Absent /\ ~WeightsFit(checkpoints[path].weights, policy)
     \/ c.resume /\ ~OptimizerFits(checkpoints[c.checkpoint].optimizer, policy)

(* TrainSession::restore                                                   *)
Restored(s, checkpoint) ==
  [s EXCEPT !.weights = checkpoint.weights, !.optimizer = checkpoint.optimizer,
            !.rng = checkpoint.rng, !.step = checkpoint.step]

(* TrainSession::new, and restored when the run resumes.                   *)
Opened(c, policy, map, with, checkpoints) ==
  LET new == Session(c, policy, map, with.stats, with.cameras, Weights(c, policy, checkpoints))
  IN IF c.resume THEN Restored(new, checkpoints[c.checkpoint]) ELSE new

(* All that may come of it, and whether an error may.                      *)
Sessions(c, checkpoints) ==
  LET map == UsedMap(c, checkpoints)
      policy == Resolved(c, Datasets[c.root], map)
  IN IF Refuses(c, checkpoints) THEN {}
     ELSE {Opened(c, policy, map, with, checkpoints) :
             with \in {w \in Statistics(c, policy, map, checkpoints) :
                         NormalizerFits(policy, w.stats)}}

OpenMayFail(c, checkpoints) ==
  LET map == UsedMap(c, checkpoints)
      policy == Resolved(c, Datasets[c.root], map)
  IN \/ Refuses(c, checkpoints)
     \/ \E with \in Statistics(c, policy, map, checkpoints) : ~NormalizerFits(policy, with.stats)

(***************************************************************************)
(* A checkpoint                                                            *)
(***************************************************************************)
(* A bug would be to leave the cameras out.                                *)
SavedStatsSlip(s) == s.stats

(* write_state: cameras over statistics of the same name.                  *)
SavedStats(s) == Over(s.cameras, s.stats)

(* A bug would be to write the mapping the command named.                  *)
CheckpointSlip(c, s) ==
  [policy |-> Encoded(s.policy), config |-> ToJson(c),
   preprocessor |-> Preprocessor(s.policy, c.rename_map),
   postprocessor |-> Postprocessor(s.policy), stats |-> SavedStats(s), weights |-> s.weights, optimizer |-> s.optimizer,
   rng |-> s.rng, step |-> s.step, by |-> [config |-> c, session |-> s]]

(* write_checkpoint_contents; `by` is a history.                           *)
Checkpoint(c, s) ==
  [policy |-> Encoded(s.policy), config |-> ToJson(c),
   preprocessor |-> Preprocessor(s.policy, s.rename),
   postprocessor |-> Postprocessor(s.policy), stats |-> SavedStats(s), weights |-> s.weights, optimizer |-> s.optimizer, rng |-> s.rng, step |-> s.step,
   by |-> [config |-> c, session |-> s]]

(***************************************************************************)
(* The runs                                                                *)
(***************************************************************************)
RunInit ==
  /\ saved = <<>> /\ last = <<>>
  /\ config = Absent /\ session = Absent
  /\ commands = 0

(* The beginning of train(): a fresh run is refused a directory that is    *)
(* there.  Of those a run has left there without a checkpoint nothing is   *)
(* kept: whether a directory is one of them is open.                       *)
Begun(command) ==
  {c \in Parsed(command, saved, last) :
     /\ Valid(c)
     /\ c.resume \/ \A place \in DOMAIN saved : place[1] # c.output_dir}

(* main                                                                    *)
Start(command) ==
  /\ config = Absent
  /\ commands < MaxCommands
  /\ commands' = commands + 1
  /\ \/ \E c \in Begun(command) : config' = c
     \/ (\A c \in Begun(command) : ~c.resume) /\ UNCHANGED config
  /\ UNCHANGED <<saved, last, session>>

Open ==
  /\ config # Absent /\ session = Absent
  /\ \/ \E s \in Sessions(config, saved) : session' = s /\ UNCHANGED config
     \/ OpenMayFail(config, saved) /\ config' = Absent /\ UNCHANGED session
  /\ UNCHANGED <<saved, last, commands>>

(* collate_images and collate, of this many samples: a scalar feature is   *)
(* flat, and of actions there is a chunk.                                  *)
Sampled(policy, name, feature, samples) ==
  CASE feature.type = "VISUAL" -> <<samples>> \o feature.shape
    [] feature.type # "VISUAL" /\ name = Action -> <<samples, policy.chunk_size, Product(feature.shape)>>
    [] OTHER -> <<samples, Product(feature.shape)>>

(* camera_input: a camera is what the policy declares.                     *)
KindsFit(s, data) ==
  \A name \in Fed(s, data) :
    LET from == data.features[FedFrom(data, s.rename, name)]
    IN IF name \in Cameras(s.policy)
       THEN from = s.policy.input_features[name]
       ELSE from.type # "VISUAL"

(* step_on, whose results are finite.                                      *)
BatchFits ==
  LET data == Datasets[config.root]
      Batch(name) == Sampled(session.policy, name,
                             data.features[FedFrom(data, session.rename, name)],
                             config.batch_size)
  IN /\ KindsFit(session, data)
     /\ LossTaken(session.policy, [name \in Fed(session, data) |-> Batch(name)])

Trained ==
  [session EXCEPT
     !.step = @ + 1,
     !.weights.trained = Normalizations(session, Datasets[config.root]),
     !.optimizer.steps = @ + 1,
     !.rng.drawn = @ + 1]

ShouldSave(c, step) ==
  c.save_checkpoint /\ (step = c.steps \/ (c.save_freq > 0 /\ step % c.save_freq = 0))

End ==
  /\ config' = Absent /\ session' = Absent
  /\ UNCHANGED <<saved, last, commands>>

TrainStep ==
  /\ session # Absent /\ session.step < config.steps
  /\ BatchFits
  /\ LET place == <<config.output_dir, session.step + 1>>
     IN IF ~ShouldSave(config, session.step + 1)
        THEN session' = Trained /\ UNCHANGED <<saved, last, config, commands>>
        ELSE IF place \in DOMAIN saved
        THEN End
        ELSE /\ session' = Trained
             /\ saved' = Over([p \in {place} |-> Checkpoint(config, Trained)], saved)
             /\ last' = Over([dir \in {config.output_dir} |-> place], last)
             /\ UNCHANGED <<config, commands>>

(* A batch the model cannot take, no step left, or the process is killed.  *)
StepFails == session # Absent /\ session.step < config.steps /\ ~BatchFits /\ End
Finish    == session # Absent /\ session.step >= config.steps /\ End
Kill      == config # Absent /\ End

RunNext == \/ \E command \in Commands : Start(command)
           \/ Open \/ TrainStep \/ StepFails \/ Finish \/ Kill

RunSpec == RunInit /\ [][RunNext]_runVars

(***************************************************************************)
(* Properties                                                              *)
(***************************************************************************)
(* Statistics are kept under the policy's names, and renamed again         *)
(* whenever they are read: what the mapping renames is then another.       *)
MapMeetsStats(map, stats) ==
  \E name \in DOMAIN map \cap DOMAIN stats : map[name] # name

(* Inputs a file had declared hide those the policy has got.               *)
DeclaredOthers(checkpoint) ==
  \E written \in FromFile(checkpoint.config), policy \in Decoded(checkpoint.policy) :
    Features(written.policy.input_features) \notin {Nothing, policy.input_features}

(* Whatever commands and datasets led to a checkpoint, the run can be      *)
(* resumed from it: what train_config.json says is accepted again, the     *)
(* statistics are read and the weights have the shapes the model is built  *)
(* with.  (from_config_document, load_internal, ParameterStore::load,      *)
(* AdamW::load_state_tensors.)  Exempt are statistics that no file may     *)
(* hold, declared inputs the policy does not have, and statistics that are *)
(* renamed again.                                                          *)
SavedResumes ==
  \A place \in DOMAIN saved :
    LET checkpoint == saved[place]
    IN \/ ~Readable(checkpoint.stats)
       \/ DeclaredOthers(checkpoint)
       \/ MapMeetsStats(SavedMap(checkpoint.preprocessor), checkpoint.stats)
       \/ \E c \in FromCheckpoint(saved, place) :
            Valid(c) /\ ~OpenMayFail(c, saved) /\ Sessions(c, saved) # {}

(* ... and goes on as it would have without the interruption: the same     *)
(* settings, features, mapping, weights, optimizer, random numbers and     *)
(* step, its inputs normalized as before.  The features are exempt where   *)
(* declared inputs hide them, how they are normalized there and where      *)
(* statistics are renamed again.  (write_checkpoint_contents against       *)
(* restore.)                                                               *)
ResumeContinues ==
  \A place \in DOMAIN saved :
    LET by == saved[place].by
        Settings(x) == [[x EXCEPT !.policy.input_features = Nothing]
                          EXCEPT !.policy.output_features = Nothing]
    IN \A c \in FromCheckpoint(saved, place) :
         /\ ToJson(Settings([c EXCEPT !.policy.pretrained_path = Absent]))
              = ToJson(Settings([by.config EXCEPT !.policy.pretrained_path = Absent]))
         /\ \A s \in Sessions(c, saved) :
              /\ s.weights = by.session.weights /\ s.optimizer = by.session.optimizer
              /\ s.rng = by.session.rng /\ s.step = by.session.step
              /\ s.groups = by.session.groups
              /\ s.rename = by.session.rename
              /\ ~DeclaredOthers(saved[place]) =>
                   s.policy.input_features = by.session.policy.input_features
              /\ (/\ ~DeclaredOthers(saved[place])
                  /\ ~MapMeetsStats(s.rename, saved[place].stats)) =>
                   Normalizations(s, Datasets[c.root]) = by.session.weights.trained

(* What both ask of an input: a camera's or a mode.                        *)
AskAlike(policy, other, name) ==
  /\ name \in Cameras(policy) <=> name \in Cameras(other)
  /\ name \notin Cameras(policy) =>
       Mode(policy, Scalars(policy)[name]) = Mode(other, Scalars(other)[name])

(* Loaded weights are given inputs normalized with the statistics they     *)
(* were trained with, on whatever dataset, under whatever names and        *)
(* settings they are trained further; unless another mode is asked for.    *)
(* Exempt are mappings from names that statistics have.                    *)
(* (load_with_rename_map, camera_normalizations_for_input_images.)         *)
Kept(checkpoint) ==
  LET now == Normalizations(session, Datasets[config.root])
      before == session.weights.trained
  IN \A policy \in Decoded(checkpoint.policy) :
       \A name \in DOMAIN now \cap DOMAIN before :
         AskAlike(session.policy, policy, name) => now[name] = before[name]

NormalizationKept ==
  (/\ session # Absent /\ session.weights.trained # Absent
   /\ config.policy.pretrained_path # Absent) =>
    LET checkpoint == saved[config.policy.pretrained_path]
    IN (\A map \in {session.rename, SavedMap(checkpoint.preprocessor)} :
          ~MapMeetsStats(map, checkpoint.stats)) => Kept(checkpoint)

(* A feature of the dataset that a mapping names feeds the input it is     *)
(* mapped to, whatever else the mapping says, unless another is renamed to *)
(* the same input.  (rename_policy_features, rename_observation_batch.)    *)
MappingHonoured ==
  session # Absent =>
    LET data == Datasets[config.root]
        map == session.rename
        names == DOMAIN data.features
        Target(name) == IF name # Action /\ name \in DOMAIN map THEN map[name] ELSE name
    IN \A name \in names \cap DOMAIN map :
         (/\ name # Action
          /\ map[name] \in Fed(session, data)
          /\ \A other \in names \ {name} : Target(other) # map[name])
           => FedFrom(data, map, map[name]) = name

(* Samples of the inputs a policy declares, and of its actions.            *)
OwnBatch(policy, training, samples) ==
  LET features == Over(Restricted(policy.output_features, {Action}), policy.input_features)
  IN [name \in Consumed(policy, training) |-> Sampled(policy, name, features[name], samples)]

(* Whatever configuration is accepted, the model built for it runs on the  *)
(* inputs it declares, in training and in deployment: its tables of        *)
(* positions have a row for each token, its projections the widths of what *)
(* they are given.  Accepted as well, and failing in every step, are glu,  *)
(* which halves what the next layer takes; a camera under the name of the  *)
(* state, the environment or the actions; and more actions for a batch     *)
(* than the program lets a pass compute.  These are exempt.                *)
(* (ActModel::new against ActModel::forward.)                              *)
ModelsRun ==
  (/\ session # Absent
   /\ session.policy.feedforward_activation # "glu"
   /\ Cameras(session.policy) \cap {"state", "environment", Action} = {}) =>
    LET policy == session.policy
    IN /\ OutputFits(policy, config.batch_size) =>
            LossTaken(policy, OwnBatch(policy, TRUE, config.batch_size))
       /\ OutputFits(policy, 1) => Steps(policy, OwnBatch(policy, FALSE, 1)) # Failed

(***************************************************************************)
(* Deployment: InferenceSession::load                                      *)
(***************************************************************************)
(* load_camera_normalization: unless it says no, ImageNet's are asked for. *)
AsksForImageNet(document) ==
  LET settings == document.map.dataset.map
  IN "use_imagenet_stats" \in DOMAIN settings => settings.use_imagenet_stats.bool

DeployedCamera(checkpoint, stats, name) ==
  CASE name \in DOMAIN stats -> [of |-> stats[name].of, mode |-> "MEAN_STD"]
    [] name \notin DOMAIN stats /\ AsksForImageNet(checkpoint.config) ->
         [of |-> ImageNet, mode |-> "MEAN_STD"]
    [] OTHER -> Absent

(* How a deployed policy normalizes each of its inputs, and its actions.   *)
Deployed(checkpoint, policy, stats) ==
  LET normalizer == Normalizer(policy, stats)
  IN [name \in Consumed(policy, TRUE) |->
        IF name \in Cameras(policy) THEN DeployedCamera(checkpoint, stats, name)
        ELSE IF name \in DOMAIN normalizer THEN normalizer[name]
        ELSE Absent]

(* A camera without statistics in a checkpoint that asks for ImageNet's.   *)
ImageNetInstead(checkpoint, policy, stats, name) ==
  name \in Cameras(policy) \ DOMAIN stats /\ AsksForImageNet(checkpoint.config)

AsTrained(checkpoint) ==
  \E policy \in Decoded(checkpoint.policy) :
    \A stats \in RenamedStats(checkpoint.stats, SavedMap(checkpoint.preprocessor)) :
      \A name \in DOMAIN checkpoint.weights.trained :
        \/ Deployed(checkpoint, policy, stats)[name] = checkpoint.weights.trained[name]
        \/ ImageNetInstead(checkpoint, policy, stats, name)

(* A deployed policy is given what it was trained on: each input is        *)
(* normalized as in the last training step.  Exempt are cameras that have  *)
(* no statistics in a checkpoint that asks for those of ImageNet, and      *)
(* mappings from names that statistics have.                               *)
(* (load_checkpoint, load_camera_normalization against next_batch.)        *)
DeployedAsTrained ==
  \A place \in DOMAIN saved :
    LET checkpoint == saved[place]
    IN (Readable(checkpoint.stats) /\ ~MapMeetsStats(SavedMap(checkpoint.preprocessor), checkpoint.stats))
         => AsTrained(checkpoint)

(* The same whatever the mapping: "Processor state is saved in the source  *)
(* namespace, then the rename step exposes the destination namespace to    *)
(* the normalizer" (processor.rs).                                         *)
StatsInSourceNamespace ==
  \A place \in DOMAIN saved : Readable(saved[place].stats) => AsTrained(saved[place])
=============================================================================
