----------------------------- MODULE TrainConfigs -----------------------------
(***************************************************************************)
(* What a training command asks for, and what of it is written beside the  *)
(* weights: rerobot-cli train.rs, rerobot-train config.rs, limits.rs,      *)
(* device.rs.                                                              *)
(*                                                                         *)
(* A setting has one name here on the command line, in the configuration   *)
(* and in the document, where those of the dataset are in an object of     *)
(* their own.  What the document says of what is not ported is left out,   *)
(* as is a flag given twice.  Operators named ...Slip are not the program. *)
(***************************************************************************)
EXTENDS ActModel

CONSTANTS
  Datasets,   \* what is at each dataset root
  Files,      \* the train_config.json files a user brings, by name
  Devices,    \* that the build has: cpu, of a build with CUDA cuda and cuda:0
  MaxNatural, \* u64::MAX
  MaxBatch,   \* MAX_BATCH_SIZE
  MaxSteps,   \* MAX_STEPS
  LastIsLink  \* whether `last` is a link, or the file of a system without

(***************************************************************************)
(* Flags                                                                   *)
(***************************************************************************)
RunTypes ==
  [root |-> "text", episodes |-> "integers", use_imagenet_stats |-> "bool",
   output_dir |-> "text", rename_map |-> "map", seed |-> "natural", batch_size |-> "natural",
   steps |-> "natural", num_workers |-> "natural", save_freq |-> "int",
   tolerance_s |-> "float", save_checkpoint |-> "bool", use_preset |-> "bool"]

(* apply_policy_flag: features and where the weights are from are no       *)
(* flags; normalization_mapping stands for the flags of its entries.       *)
PolicyFlags ==
  [name \in {n \in DOMAIN PolicyTypes : PolicyTypes[n] \notin {"features", "path"}} |->
     PolicyTypes[name]]

NaturalOf(raw) == Of({"int"}, raw) \cap (0..MaxNatural)

IntegersOf(raw) ==
  {[i \in DOMAIN list |-> list[i].int] :
     list \in {l \in Of({"list"}, raw) :
                 \A i \in DOMAIN l : Of({"int"}, l[i]) \cap (-MaxNatural..MaxNatural) # {}}}

(* as_string: a number is its text.                                        *)
FlagText(raw) == IF Kind(raw) \in {"int", "str"} THEN {TextOf(raw)} ELSE {}

(* parse_rename_map, string_map_field                                      *)
StringMap(raw) ==
  {[name \in DOMAIN map |-> TextOf(map[name])] :
     map \in {m \in Of({"map"}, raw) : \A name \in DOMAIN m : Kind(m[name]) \in Strings}}

(* as_bool, as_u64...: a set of one value, or of none when it is refused.  *)
ReadFlag(type, raw) ==
  CASE type = "bool"     -> Of({"bool"}, raw)
    [] type = "natural"  -> NaturalOf(raw)
    [] type = "int"      -> Of({"int"}, raw)
    [] type = "float"    -> Of({"float"}, raw) \cup {1000 * n : n \in Of({"int"}, raw)}
    [] type = "text"     -> FlagText(raw)
    [] type = "texts"    -> {[i \in DOMAIN list |-> Only(FlagText(list[i]))] :
                               list \in {l \in Of({"list"}, raw) :
                                           \A i \in DOMAIN l : FlagText(l[i]) # {}}}
    [] type = "modes"    -> DecodedMap(type, raw)
    [] type = "map"      -> StringMap(raw)
    [] type = "integers" -> IntegersOf(raw)

(* Only false is taken for the dilation, and is not looked at again.       *)
FlagValues(name, type, raw) ==
  CASE name = "replace_final_stride_with_dilation" -> Of({"bool"}, raw) \cap {FALSE}
    [] name \in Nullable \cup {"seed"} /\ Kind(raw) = "null" -> {Absent}
    [] OTHER -> ReadFlag(type, raw)

(* Whatever is no flag of these is refused: classify.                      *)
FlagsFit(flags, types) ==
  \A name \in DOMAIN flags :
    name \in DOMAIN types /\ FlagValues(name, types[name], flags[name]) # {}

Values(flags, types) ==
  [name \in DOMAIN flags |-> Only(FlagValues(name, types[name], flags[name]))]

(* What flags name is theirs, the rest stays.                              *)
PolicyOverridden(policy, given) ==
  [name \in DOMAIN policy |->
     CASE \/ name \notin DOMAIN given
          \/ name = "replace_final_stride_with_dilation" -> policy[name]
       [] name \in DOMAIN given /\ name = "normalization_mapping" -> Over(given[name], policy[name])
       [] OTHER -> given[name]]

Overridden(config, command) ==
  [Over(Values(command.flags, RunTypes), config) EXCEPT
     !.policy = PolicyOverridden(@, Values(command.policyFlags, PolicyFlags))]

CommandLinePolicy == [DefaultPolicy EXCEPT !.device = "cpu", !.push_to_hub = FALSE]

(***************************************************************************)
(* The document of a run                                                   *)
(***************************************************************************)
NewConfig ==
  [episodes |-> Absent, use_imagenet_stats |-> TRUE, rename_map |-> Nothing, seed |-> 1000,
   batch_size |-> 8, steps |-> 100000, save_freq |-> 20000, tolerance_s |-> 0,
   save_checkpoint |-> TRUE, num_workers |-> 0, use_preset |-> TRUE, resume |-> FALSE,
   checkpoint |-> Absent]

DatasetSettings == {"root", "episodes", "use_imagenet_stats"}
OfDataset(settings) == [name \in DOMAIN settings \cap DatasetSettings |-> settings[name]]
OfRun(settings) == [name \in DOMAIN settings \ DatasetSettings |-> settings[name]]

Required == {"root", "output_dir", "policy", "batch_size", "steps", "save_freq", "tolerance_s"}

(* What may be null, and is then as if it were not there.                  *)
Optional == {"seed", "episodes"}

EncodedSetting(name, value) ==
  LET type == RunTypes[name]
  IN IF name \in Optional /\ value = Absent
     THEN [null |-> 0]
     ELSE CASE type \in {"int", "natural"} -> Number(value)
            [] type = "bool"     -> [bool |-> value]
            [] type = "float"    -> [float |-> value]
            [] type = "text"     -> [str |-> value]
            [] type = "map"      -> [map |-> [n \in DOMAIN value |-> [str |-> value[n]]]]
            [] type = "integers" -> [list |-> [i \in DOMAIN value |-> Number(value[i])]]

(* A bug would be to print a whole real number as an integer.              *)
ToJsonSlip(config) ==
  LET Json(name) == IF name = "tolerance_s" /\ config[name] % 1000 = 0
                    THEN Number(config[name] \div 1000)
                    ELSE EncodedSetting(name, config[name])
      settings == [name \in DOMAIN RunTypes |-> Json(name)]
  IN [map |-> Over([dataset |-> [map |-> OfDataset(settings)],
                    policy |-> Encoded(config.policy)],
                   OfRun(settings))]

(* to_json: all but what the command line decides each time.               *)
ToJson(config) ==
  LET settings == [name \in DOMAIN RunTypes |-> EncodedSetting(name, config[name])]
  IN [map |-> Over([dataset |-> [map |-> OfDataset(settings)],
                    policy |-> Encoded(config.policy)],
                   OfRun(settings))]

(* string_field, bool_field...: a whole number is no real one here, nor a  *)
(* number a text.                                                          *)
ReadField(type, raw) ==
  CASE type = "float" -> Of({"float"}, raw)
    [] type = "text"  -> IF Kind(raw) \in Strings THEN {TextOf(raw)} ELSE {}
    [] OTHER          -> ReadFlag(type, raw)

(* The settings there are; null where none is meant is as none.            *)
Fields(document) ==
  LET set(m) == {name \in DOMAIN m : name \notin Optional \/ Kind(m[name]) # "null"}
      Given(m) == [name \in set(m) \cap (DOMAIN RunTypes \cup {"policy"}) |-> m[name]]
  IN IF /\ Kind(document) = "map" /\ "dataset" \in DOMAIN document.map
        /\ Kind(document.map.dataset) = "map"
     THEN Over(OfDataset(Given(document.map.dataset.map)), OfRun(Given(document.map)))
     ELSE Nothing

(* from_config_document, of no checkpoint: a set of the configuration, or  *)
(* of none.  A document without a seed asks for none.                      *)
FromFields(fields) ==
  LET settings == AllDecoded([name \in DOMAIN fields \ {"policy"} |->
                                ReadField(RunTypes[name], fields[name])])
  IN {Over(given, Over([policy |-> policy], [NewConfig EXCEPT !.seed = Absent])) :
        given \in settings, policy \in Decoded(fields.policy)}

FromFile(document) ==
  IF Required \subseteq DOMAIN Fields(document) THEN FromFields(Fields(document)) ELSE {}

(* from_checkpoint_dir: features the user did not declare are those of     *)
(* config.json, and the weights are this checkpoint's.                     *)
ResumedPolicy(own, resolved, place) ==
  LET Or(declared, found) == IF Features(declared) = Nothing THEN found ELSE declared
  IN [own EXCEPT !.input_features = Or(@, resolved.input_features),
                 !.output_features = Or(@, resolved.output_features),
                 !.pretrained_path = place]

ResumedFrom(config, resolved, place) ==
  [config EXCEPT !.policy = ResumedPolicy(@, resolved, place),
                 !.resume = TRUE, !.checkpoint = place]

FromCheckpoint(saved, place) ==
  {ResumedFrom(config, resolved, place) :
     config \in FromFile(saved[place].config), resolved \in Decoded(saved[place].policy)}

(***************************************************************************)
(* TrainConfig::validate                                                   *)
(***************************************************************************)
(* validate_policy_dimensions: only these layers may be none.              *)
DimensionsFit(policy) ==
  /\ \A name \in DOMAIN Limits \cap DOMAIN PolicyTypes :
       policy[name] \in 0..Limits[name]
  /\ \A name \in (DOMAIN Limits \cap DOMAIN PolicyTypes) \ {"n_vae_encoder_layers"} :
       policy[name] > 0

(* validate_numeric_fields, of finite numbers.                             *)
NumbersFit(config) ==
  /\ config.policy.dropout \in 0..999
  /\ config.policy.optimizer_lr > 0
  /\ config.policy.optimizer_lr_backbone >= 0
  /\ config.tolerance_s >= 0

(* device::parse: what no policy names is the CPU.                         *)
DeviceKnown(device) == device \in Devices \cup {Absent}

EpisodesNamed(episodes) ==
  episodes # Absent =>
    IsInjective(episodes) /\ \A i \in DOMAIN episodes : episodes[i] >= 0

Valid(config) ==
  /\ PolicyValid(config.policy)
  /\ config.resume = (config.checkpoint # Absent)
  /\ NumbersFit(config)
  /\ config.num_workers = 0
  /\ config.batch_size \in 1..MaxBatch
  /\ config.steps \in 1..MaxSteps
  /\ DimensionsFit(config.policy)
  /\ DeviceKnown(config.policy.device)
  /\ ~config.policy.use_amp
  /\ config.use_preset
  /\ ~config.policy.push_to_hub
  /\ config.rename_map # Nothing => config.policy.pretrained_path # Absent
  /\ EpisodesNamed(config.episodes)

(***************************************************************************)
(* The command line                                                        *)
(***************************************************************************)
(* resolve_checkpoint_path: the directory of a checkpoint, its document or *)
(* `last`.  A `last` that is a file is taken for a document.               *)
Resolve(path, saved, last) ==
  CASE path.form \in {"directory", "document"} -> {path.place} \cap DOMAIN saved
    [] path.form = "last" -> IF LastIsLink
                             THEN {last[dir] : dir \in {path.place} \cap DOMAIN last}
                             ELSE {}
    [] OTHER -> {}

(* read_config_document: a directory is no document.                       *)
Document(path, saved) ==
  CASE path.form = "document" /\ path.place \in DOMAIN saved -> saved[path.place].config
    [] path.form = "file" /\ path.place \in DOMAIN Files -> Files[path.place]
    [] OTHER -> [null |-> 0]

(* `--policy.path`: the configuration in it, told where its weights are.   *)
WithPath(policy, path) == [policy EXCEPT !.pretrained_path = path]

PathPolicy(command, saved) ==
  IF command.path = Absent
  THEN {CommandLinePolicy}
  ELSE UNION {{WithPath(policy, path) : policy \in Decoded(saved[path].policy)} :
                path \in {command.path} \cap DOMAIN saved}

ResumeConfig(command, saved, last) ==
  IF command.config = Absent
  THEN {}
  ELSE UNION {FromCheckpoint(saved, place) : place \in Resolve(command.config, saved, last)}

(* A checkpoint is not resumed under another optimizer preset.             *)
ResumeOverridden(command, saved, last) ==
  {Overridden(config, command) :
     config \in {c \in ResumeConfig(command, saved, last) :
                   Overridden(c, command).use_preset = c.use_preset}}

FileConfig(command, saved) ==
  IF command.path = Absent
  THEN {Overridden(config, command) : config \in FromFile(Document(command.config, saved))}
  ELSE {}

FlagConfig(command, saved) ==
  IF /\ {"root", "output_dir"} \subseteq DOMAIN command.flags
     /\ command.policyType \/ command.path # Absent
  THEN {Overridden(Over([policy |-> policy, root |-> Absent, output_dir |-> Absent], NewConfig),
                   command) : policy \in PathPolicy(command, saved)}
  ELSE {}

(* parse: a set of the configuration, or of none when it is refused.       *)
Parsed(command, saved, last) ==
  IF \/ ~FlagsFit(command.flags, RunTypes)
     \/ ~FlagsFit(command.policyFlags, PolicyFlags)
     \/ PathPolicy(command, saved) = {}
  THEN {}
  ELSE IF command.resume THEN ResumeOverridden(command, saved, last)
  ELSE IF command.config # Absent THEN FileConfig(command, saved)
  ELSE FlagConfig(command, saved)
=============================================================================
