# Rerobot in TLA+

Rerobot is a Rust port of parts of LeRobot: it trains an ACT policy from a local
dataset, deploys the checkpoint on recorded observations, and drives an SO-101 arm.
This directory holds TLA+ models of the parts whose correctness depends on the order
in which things happen or on several parts agreeing about names, shapes and ranges, TLC
configurations that check small instances of them, and proofs, checked by TLAPS, that
hold for instances of any size.

`PROJECT.json` is the index: components, runs, the source lines every definition
stands for, hazards, findings and theorems.

- `tlc -config X.cfg M` checks a run, `tlapm M.tla` a module of proofs.
- `XProofs` holds the proofs about `X`, `MCX` the constants that its runs need.
- A definition named `...Slip` is what a plausible mistake would make of the
  definition that follows it. It is not the program. Put in that definition's place it
  must violate the property that `PROJECT.json` lists with it under "mutants", which
  shows that the property says something about the code.

## 1. Inventory

| Component | Source | State it keeps | Operations | What is hard |
| --- | --- | --- | --- | --- |
| Checkpoint store | `rerobot-train` `checkpoint.rs`, `run.rs` | directories by step, staging directories, the marker `last` (symlink, or file where symlinks are refused) | `save_checkpoint`, `write_staged_directory`, `update_last_checkpoint`, `read_last_checkpoint` | several processes, kills and errors between any two system calls |
| Training loop | `run.rs`, `rerobot-core` `sampler.rs` | step, weights, AdamW's moments, generator, sampler, queue of frames | `train`, `TrainSession::{new, restore, next_batch, step_on}` | being killed and resumed, with another configuration; batches across epochs |
| SO-101 arm | `rerobot-hardware` `so101.rs` | registers of six servos, `torque_enabled`, calibration | `enable_torque`, `disable_torque`, `configure_position_mode`, `apply_calibration`, `set_positions_*`, `center` | an operation fails half way; writes are not acknowledged; the arm outlives the process |
| SO-101 commands | `rerobot-cli` `so101.rs` | none but the arm's | `execute`, `hold_and_release` | which errors still release the arm; kills while it holds |
| Feetech bus | `feetech.rs` | bytes not yet read | `request`, `read_status`, and the loops of `so101.rs` over all servos | late replies, lost and damaged bytes; a reply does not name its request |
| DAgger events | `rollout/dagger.rs` | phase, pending request, two flags | `request_transition`, `consume_transition`, `set_phase`, `reset`, flags | any method from any thread |
| Ring buffer | `ring_buffer.rs`, `byte_count.rs` | frames, estimated bytes | `append`, `drain`, `clear` | two bounds, and an estimate that forgets |
| Action interpolator | `action_interpolator.rs` | previous action, steps, index | `add`, `get`, `reset` | a refused action leaves part of the state |
| Inference session | `deploy.rs` | queue of actions, ensembler's averages and counts | `select_action*`, `rollout`, `reset` | what an action is made of after any mix of calls, episodes and errors |
| Hub download | `hub.rs` | the dataset root, staging directories | `resolve_dataset_root`, `download` | processes that race, a branch that moves, kills |
| Dataset reader | `data/meta.rs`, `parquet.rs`, `dataset.rs`, `image.rs`, `batch.rs`, `rerobot-core` `info.rs`, `delta.rs`, `sampler.rs` | metadata, frames, sampler | load, validate, build the sampler, `get` | read three times while it may be recorded anew; ranges, windows, budgets |
| Policy configuration | `policy/act.rs`, `policy/draccus.rs` | none | `from_checkpoint_value`, `to_checkpoint_value`, `validate` | what Draccus would take for a value |
| Training configuration | `config.rs`, `cli/train.rs`, `limits.rs`, `device.rs` | none | `parse`, `from_config_document`, `from_checkpoint_dir`, `validate`, `to_json` | which of flag, file, checkpoint and default wins |
| Processors | `rerobot-train` `processor.rs`, `normalize.rs` | files of a checkpoint | rename, normalize, save, load | chained and colliding names, applied again at every load |
| ACT model, parameters, optimizer | `model/*`, `optim.rs` | tensors, moments | `new`, `forward`, `load`, `load_state_tensors` | what is built must fit what is saved and what is fed |
| Chains of runs | `run.rs`, `deploy.rs` | checkpoints that start other runs | fresh, fine-tuned, resumed, deployed | any chain, with other datasets, names and settings |
| Others | `json.rs`, `stats.rs`, `io.rs`, `types.rs`, `random.rs`, `pipeline.rs`, `newline_task.rs`, other commands, `which.rs`, `rerobot-compat` | none | | sequential, without lasting state |

How they interact: a command line and documents become a configuration, from which a
run opens a session: it reads the dataset (downloaded by the Hub client where it is not
there), builds the model, loads weights, mapping and statistics of the checkpoint it
starts from, and trains. It calls the store at every step that is due; everything runs
share is on disk. The inference session reads a published checkpoint and a dataset. The
arm's commands call the arm, the arm the bus. The DAgger events, the ring buffer and the
interpolator are used by control loops that are not ported: any caller is possible, and
the models let anything call anything.

## 2. The modules

Modelled first is what loses work or moves hardware when it is wrong.

### CheckpointDir, CheckpointStore

`CheckpointDir` is what the code that resumes relies on: a checkpoint appears at once,
never changes, and `last`, when there is one, names one that is there.
`CheckpointStore` is the protocol, one system call a step: check the name, create a
staging directory, write file after file, check again, rename; then look at the marker,
unlink it, symlink, and where that is refused write a file and rename it. Each of these may
fail, the unlinking too, in both places (`UnlinkFails`, `SwapRefused`). Errors, kills
and other processes come between any two steps. `Dir` in `CheckpointStore` instantiates
`CheckpointDir` with the first file of each directory and the marker's target, and
`ImplementsCheckpointDir` is the refinement.

- `store`: two processes, two saves each, two steps, two files, two staging names.
  Two files are enough for a partial or mixed directory, two saves for a second save to
  meet the first one's marker and directory, two names for two builds at once, or for
  an orphan and two processes that want the other name. Every save ends
  (`EverySaveEnds`) with weak fairness of each running process (`Save(w) \/ Mark(w)`):
  the operating system schedules it and its system calls return. `Crash` is not forced.
  No symmetry is used, as liveness is checked.

Cleaning up (`let _ = remove_dir_all`) is taken to succeed.

### Training

One process that trains, fails or is killed anywhere, and is started afresh or from any
published checkpoint. A frame is its epoch and its place in that epoch's order; the
weights are the sequence of frames they were trained on; the optimizer is its number of
updates and the generator its number of draws. Publishing is one step and marking two,
which is what `CheckpointStore` provides.

- `training`: four frames in batches of two, runs of up to five steps that differ in
  length and save frequency, three starts. `SampleExact`: the weights saw exactly the
  frames of the run that is never interrupted.
- `training_uneven` fails, a finding: with a batch size that does not divide the epoch a
  resumed run skips or repeats frames. Another `--batch_size` at a resume does the same.

So `SampleExact` is a property of one batch size that divides the epoch; that is the
condition under which it is checked and proved. `NeverStarved` and
`NoPoisonedCheckpoint` are proved for every batch size, changed at any resume. Not modelled: the batch size 0 that
`restore` reads as 1, and the sampler's windows at episode ends.

### So101, So101Cli

`So101` executes an operation one register access at a time. An access arrives, fails
(and may have arrived all the same) or, as writes are not acknowledged, is lost
unnoticed. `Reopen` is a new process on an arm in whatever state it was left. Two
servos are enough for an operation to be half done. `So101Cli` composes it with the
commands: which operation follows which, and after which errors.

- `so101`: both modules together. Between two commands other programs linked with the
  crate open the port and call whatever they like (`OpenLibrary`, `CallLibrary`), so the
  properties of `So101` are checked for any caller and those of the commands on an arm
  in any state a caller can leave it in. `FlagMeansAllServos`, `FlagIsTruthWhenClean` and
  `NoGoalBeforeTorque` say what `torque_enabled` means; success means that the arm is
  free, and every command ends, with weak fairness of the process that runs it (a bus
  access returns or times out). One
  calibration besides the default is enough for both outcomes of validation.
- Finding: `so101_cli_errors` (a failed enable leaves the first servos on and nothing
  releases them). `torque_enabled` has not been set then either, so that a caller of the
  library may calibrate while those servos hold, although the comment on
  `apply_calibration` (`so101.rs:297`) says that torque must remain disabled; no run checks
  this one.

### ControlLoop: DAggerEvents, RingBuffer, ActionInterpolator, FeetechBus

Four components that share no state, so that what holds of each while it moves alone
holds of all in any interleaving. `ControlLoop` lets one of them (`part`) move in each
behaviour and one run, `control_loop`, checks them all. The buffers are called until a
bound of the model is reached (`MaxAppends`, `MaxAdds`, `MaxLoops`), so the run does not
check for deadlocks.

In `DAggerEvents` phase and pending request are behind one lock: a method is a step,
except `reset`, which clears a flag after it has given the lock back. `set_phase`
overwrites the phase and keeps the request. That is how the code is, so the properties speak of requests it has
not overtaken. Poisoning the lock has no effect, as the code recovers it.

`RingBuffer` appends frames of four sizes to buffers of 30 capacities, zero and negative
bounds among them, seven appends between drains. The estimate keeps the bytes of
frames that the frame bound drops; `DriftBounded` says that this never exceeds the byte
bound. `ActionInterpolator` is `add` with both its refusals, `get` and `reset`; four calls
of `add` and the multipliers 1, 2, 3 and 5, of which 5 cannot be allocated. Two threads
call the methods of `DAggerEvents`, as one suffices to come between the halves of `reset`.
`MaxAppends` and `MaxAdds` are bounds of the models, not of the code.

`FeetechBus` is the serial line: a request is written, a status packet is taken from the
bytes that arrive, first four and then as many as those announce. Writing may fail and the
request have gone out all the same (`SendFails`); reading gives up after 250 ms or with
another error and loses what it has taken (`ReadFails`). A reply comes, late or never, whole
or with a flaw: an error the servo reports, a wrong byte in the header, in the length or
elsewhere, a byte that is missing. Nothing clears the line before the next request. Of four
bytes that are no beginning of a packet the model lets a header and any length be read, up to
one more than the program accepts (`MaxLength`, 252 in the code, five in the run: one
more than the longest reply says); bytes put together of two packets never have a
checksum that fits. `AnswersAreFresh`: what is returned is the reply to this request, until an
I/O error, a wrong header or a wrong length may have left bytes on the line; after one of
these the line may be a reply behind, and the code cannot tell. It is in step again when a
read has timed out with nothing on its way. Two servos, two loops and two faults let a late
reply of one loop meet the same servo's request in the next. The loops stand for all that read: `ping_all` (no parameters, goes on
after an error), `configure_position_mode` (one) and `read_positions_ticks` (two).
A register written in between has no reply and leaves the line as it is.
`So101` above it keeps its own abstraction of a failed access, which is any.

### Inference

A prediction is the observation it was made at and its place in the chunk, an average
the sequence of what it weighs. `Expected` is the reference: all predictions for a frame
that were made since the reset and still reach it, or the one of the last query.
`inference` checks it over five frames in two episodes, chunks of up to three and every
number of action steps: chunks shorter than, as long as and longer than the episodes.
The errors of `TemporalEnsembler::update` about its own history are not actions:
`EnsemblerAccepts` says that they cannot happen. A caller that goes on after a failed call
gets what was predicted for the frame before; no document promises otherwise, and
`SelectedActionsExact` is about stretches without such a failure.

### HubDownload

Processes that want one root, a branch that moves between any two requests, a user
who makes the root, requests that fail, kills. `hub` has two processes and two versions:
one with a file that is not required, one with a video, so that partial, refused and mixed
trees all occur. Of the Hub's answers this is assumed: a page names files of the tree as it is
then, and the last page comes when all of them have been named. A page may bring files again
or none, and the code follows its link all the same: nothing bounds the number of pages
without files. The limit counts files each time they are named; it is three in the run, one more than
a tree has and one fewer than two pages may name. A file named twice makes the download
fail, as it is created twice. `EveryStepAdvances` gives each call a number of steps left that
every step of its own decreases but a page without files, and no step of others increases; it
stands for a liveness property, which would not allow symmetry, and which the code does not
have while such pages come. The loser of the race to the rename gets an error although the root is
complete by then: as modelled, and promised otherwise nowhere. Finding: `hub_snapshot`
(the files are fetched by the branch's name, so that a root may mix two versions).

### DatasetReader

Opening a dataset and serving frames of it. A session reads `info.json`, the statistics
and the episode table once for the frame rate, once for the range of the selected
episodes, and once with the frames, one file a step; `Rewrite` records the dataset anew
between any two of these. Then the sampler is built and `Get` cuts windows. What a file
says is data: rows, ranges, widths, image extents and formats. `EveryFrameOwned` (frames
and episodes tile each other), `WindowsStayInEpisode` (with padding that means what it
says), `SamplerServesSelection` (every frame of the selection once) and
`FailuresExplained` (of a loaded dataset `get` fails for a task nobody described or a
window over the budget, and for nothing else).

- `dataset_reader`: `MCDatasetReader` starts from a recording of two episodes in two files
  and takes every disk that differs from it in one number of a frame, one or two numbers of
  the episode table, the totals, or one part the reader refuses; and three more to record
  over it: longer, faster, and at a rate that leaves the grid. Windows of one and of eight steps,
  six selections, with and without dropped frames. Two wrong numbers are needed for
  ranges that are wrong and still add up. One rewrite meets each of the three reads. The
  limits (`MaxRows`, `MaxValues`, ...) are those of `limits.rs` made small. A session that
  was refused stays so: the run does not check for deadlocks.

### PolicyConfig, TrainConfigs, ActModel, ActForward, Processors, TrainRuns

Each of these modules extends the one before (`PolicyConfig`, `ActModel`, `ActForward`,
`Processors`; `TrainConfigs` extends `ActModel`), and `TrainRuns` composes them. All but
`TrainRuns` are operators without state:

- `PolicyConfig`: the settings of a policy, and the document they are kept in, read as
  Draccus would: digits for integers, pairs for objects, and the rest.
- `TrainConfigs`: command line, document of a run, checkpoint: which wins, what is
  refused, and what `train_config.json` says of the result.
- `ActModel`: the tensors a configuration builds, by name and shape; which saved weights and
  moments fit them. Every tensor is there, none of its numbers.
- `ActForward`: the shapes of a forward pass, operation after operation; an operation the
  program refuses is `Failed`. The products of dimensions are `Product` of the module `Sums`,
  which has sum and product of a sequence as recursive functions.
- `Processors`: renaming of features, batches and statistics, who feeds an input when
  names collide, normalization, and the two pipelines as they are saved and validated.
  The order in which a hash map gives statistics is a choice.

`TrainRuns` has the checkpoints on disk, the marker, the run and its session. `Start` is a
command from a finite set (fresh from flags or from a file, on a policy's weights,
resumed, and commands that are refused), `Open` is `TrainSession::new` and `restore`,
`TrainStep` trains on a batch and publishes what is due, `StepFails`, `Finish` and `Kill`
end it. Weights carry, as a history, how each input was normalized when they were
trained.

- `train_runs`: any three commands out of about forty, over eight datasets (one, two or no
  cameras, other names, other widths, a second action, without statistics, with statistics
  that are not finite). Three are a run, what it is trained further into or resumed as, and once more,
  which a mapping that is applied at each load needs. A fresh run needs a directory of its own:
  one with a checkpoint is refused, and whether there is one without is not kept, so that
  any other may be refused as well. The dimensions are the smallest that tell the
  parts of a shape from one another. One command asks for batches whose outputs are over the limit, and
  one file declares a camera under the state's name. When `MaxCommands` have been given nothing
  more happens: no check for deadlocks. One kind of device, as its name is all that differs; `last` is a link,
  as on the systems the program is tested on.
  - `SavedResumes`: a resume of any checkpoint is accepted. Exempt, each because the code
    is otherwise, are statistics no file can hold, inputs that a file declared
    and the policy does not have, and mappings whose sources have statistics.
  - `ResumeContinues`: the resumed session has the settings, features, mapping, optimizer
    groups, weights, moments, random numbers and step of the one that was saved, and
    normalizes its inputs as that one did, with the last two of these exemptions.
  - `NormalizationKept`: loaded weights get each input normalized as they know it, unless
    another mode is asked of that input; exempt are mappings whose sources have statistics.
  - `MappingHonoured`: a mapped feature feeds the input it is mapped to, unless another
    feature ends up there too.
  - `DeployedAsTrained`: a deployment normalizes as the last training step did. Exempt are
    cameras without statistics when ImageNet's are asked for: they are trained as they are
    and deployed normalized.
  - `ModelsRun`: an accepted model runs on the inputs it declares. What is accepted and fails
    at each step is exempt: `glu`, which halves the hidden layer; a camera under the name of
    the state, the environment or the actions; more actions for a batch than a pass may
    compute (`OutputFits`).
- `train_rename` fails, a finding: where a target of the mapping is also a source,
  statistics are renamed again at each load and land on another input. This is
  `DeployedAsTrained` without its second exemption.

What the models show of the code beside its findings, promised otherwise nowhere:

- With `last` a file (a system without links) `--config_path=.../last` is taken for a
  document and refused (`LastIsLink` = FALSE).
- `optimizer_param_groups.json` is written and never read: groups are built from
  the configuration, so that a resume may change the rates.
- Inputs that a configuration file declared hide, at a resume, those of `config.json`.
- A checkpoint of a run without any statistics, or with one that is not finite, can be
  written and not be loaded.
- `--policy.path` beside `--resume=true` is ignored; `use_imagenet_stats` has no effect on
  loaded weights, though it is recorded.
- A fresh run on a resumed run's `train_config.json` keeps its `pretrained_path` and starts
  from those weights.
- `n_heads` and the activation may be changed at a resume, as no shape depends on them.
- `config.json` is read leniently, the other settings of `train_config.json` strictly: an integer
  `tolerance_s` is refused.
- A camera declared under the state's or the environment's name is accepted; each step then
  fails, as one tensor serves both.
- A batch size whose actions exceed `MAX_INFERENCE_OUTPUT_BYTES` is accepted and refused at
  each step.
- `output_dir` is looked at only at the start; a step that is there already ends the run
  when it is due.

## 3. What is proved

TLAPS checks these for every value of the constants.

| Module | Theorems | Argument |
| --- | --- | --- |
| CheckpointStoreProofs | `StoreTypeCorrect`, `NeverPartial`, `LastIsResumable`, `CheckpointsAreImmutable`, `UserDirectorySurvives`, `StoreImplementsDir`, `StagingIsOwned`, `MissingMarkerIsExplained` | The invariant adds to the properties that each staging directory has one builder (`DirsExclusive`) whose files are all of its own save (`BuildInv`), and that who writes the marker has published (`MarkingPublished`): without them a rename could publish files of two saves, or a marker dangle. `StepEffect` reduces every step to publishing, marking, unmarking or none, from which immutability and the refinement follow. `StagingIsOwned` needs only that a staging directory has some builder (`HasBuilder`): that it has one follows from `DirsExclusive`. |
| TrainingProofs | `TrainingTypeCorrect`, `CheckpointsCoherent`, `CheckpointsFinite`, `EpochNeverEmpty`, `ResumeIsSampleExact`, `ProgressIsKept`, `FinishedIsSaved`, `FreshIsNeverRefused` | `Inv` counts: updates, draws and step go together and a batch is full before it is trained on. `Positioned` says where in the uninterrupted run the queue and the sampler stand; `ResumeIsSampleExact` assumes one batch size that divides the epoch. `KeptInv` says which checkpoints are due in each phase. |
| InferenceProofs | `InferenceTypeCorrect`, `EnsemblerNeverRefuses`, `SelectionsExact`, `RolloutsExact` | The memory is a function of the stretch since the last reset: the history at place i is the window of predictions for that many frames ahead, the queue the rest of one chunk. |
| HubDownloadProofs | `HubTypeCorrect`, `ReturnedRootIsComplete`, `ErrorsLeaveNoLitter`, `RootNeverTouched`, `DownloadsPublishedWhole`, `CallsAdvance` | `Owned`: a staging directory has one call that fetches into it, and only listed files are in it; `RootInv`: a missing root holds nothing, a returned one is complete. Both are needed for the rename to publish one whole download, and `Owned` for the steps of other calls not to lengthen a call (`OthersWait`). |
| ControlLoopProofs, events | `DAggerTypeCorrect`, `PendingIsMeaningful`, `RequestsAppliedAsAsked` | The property is inductive with the types. |
| ControlLoopProofs, interpolator | `InterpolatorInductive`, `InterpolatorTypeCorrect`, `NoStepIsStale`, `MotionIsContinuous` | `Joined` says how what is in the buffer continues what was executed last: the step before it, or the arrival at the previous action. |
| ControlLoopProofs, buffer | `BufferDriftBounded`, `BufferEstimateExplained`, `LoopDriftBounded` | `EstimateExplained`: the estimate is what the buffered frames cost and what the frame bound has dropped. With it a frame is evicted before the estimate can exceed the bound by more than the newest frame, and `dropped` stops growing. What goes is the least number of the oldest frames that leaves room (`EvictedTyped`), and sums of a sequence split where it is cut (`SumsProofs`). |
| ControlLoopProofs, line | `BusAnswersFresh` | `LineInv` says what is on the line while it is in step: between two requests nothing; then bytes of one packet, the reply to the last request, and no more of them than it has (`OnLine`); then no more than the rest of it, if its length was read as it was sent. A read that leaves bytes is an error that `behind` counts. |
| ControlLoopProofs, composition | `LoopKeepsEvents`, `LoopKeepsInterpolator`, `LoopKeepsBuffer`, `LoopKeepsBus` | A behaviour of `ControlLoop` is one of each part. What its run checks of them follows (`LoopPendingIsMeaningful` and those after it). |
| ControlLoopProofs, arm | `ArmTypeCorrect`, `FlagIsTruth`, `FlagSpeaksOfAllServos`, `GoalsNeedTorque`, `SuccessReleases` | All of `CliSpec`, for any number of servos. `Written`: an operation that has lost no write has written every register it has come past; `Unwritten`: without failures, those it has not come past are as the flag says. Together they make the flag true when the last servo is reached, and nowhere before. `CliInv` adds that a releasing command calls nothing but `disable_torque`. |
| SumsProofs | only lemmas | What `SumOf` and `Product` are for every sequence of integers. A set of numbers that is closed under successor has all of them, as there is no least one outside (`SetInduction`); the lengths for which a recursion has a solution are such a set. `SumOf` is the last of the partial sums of a sequence, `Product` the last of the partial products (`PartialProducts`), and positive where all factors are. |
| DatasetReaderProofs | `LoadedFramesOwned`, `WindowsNeverLeave`, `SelectionServedOnce`, `FailuresAreExplained` | `LoadInv`: the checks that lie behind a stage still hold of the values they were made of, whatever is recorded meanwhile. Of these follows that the episode table tiles the frames: an episode begins where the sum of the lengths before it ends (`SumsProofs`), so each frame has one owner, for any number of episodes and files. `ReadyInv`: a frame that is served is cut from its own episode. |
| TrainRunsProofs | `PolicyRoundTrip`, `ConfigRoundTrip`, `RunInvariance`, `MappingIsHonoured`, `DeploymentIsAsTrained`, `NormalizationIsKept`, `ResumedRunContinues`, `SavedRunResumes`, `AcceptedModelsRun` | `RunInv`: every checkpoint is what a session wrote that fitted a valid run; a session's statistics and cameras are its dataset's or come with its weights (`GoesOn`), and last trained on what it now normalizes. Without the history in the checkpoint (`SavedFits`) nothing is known of a checkpoint that is loaded. The two round trips say that the files of a checkpoint are read as what was written, setting by setting. `ResumeInv` adds what a resume is checked for: the model fits, and weights, moments, normalizer, episodes and output directory belong to it (`Resumable`); a session keeps it whatever it was started from. `AcceptedModelsRun` follows from it: the model has exactly the tensors its policy builds. Tensors are known by their parts (`Known`, `LayerKnown`, `BackboneKnown`), and each operation of the pass takes the shape the one before gives (`LatentTaken`, `BackboneRuns`, `EncoderTakes`, `DecoderTakes`); that the extents stay positive and the outputs within the limits comes from what `PolicyConfig` checks of a configuration. |

For every component but the bus the types are a theorem of their own or the first
conjunct of the invariant (`StoreTypeCorrect`, `TrainingTypeCorrect`, `DAggerTypeCorrect`,
`InferenceTypeCorrect`, `HubTypeCorrect`, `InterpolatorTypeCorrect`, `ArmTypeCorrect`;
`BufferTypeOK`, `ReaderTypeOK`, and of the chains of runs `ConfigFits` and `SessionFits`);
`BusTypeOK` is part of `LineInv`. `CheckpointsAreImmutable`, `UserDirectorySurvives`,
`CheckpointsCoherent`, `FinishedIsSaved` and `FreshIsNeverRefused` are proved too, and the
runs therefore do not check them again.

The assumptions are those the modules name (`StoreAssumption`, ...): non-empty sets,
positive numbers, and values such as `Absent` that are none of the data. Two say more:

- `ReaderAssumption`: what a disk holds is typed (indices and counts are integers, a row
  is a row), not that it is consistent: that is what the reader checks.
- `RunAssumption`: a dataset has features of the types and shapes its reader makes, and
  no statistics of a camera (`DatasetFits`); a list in a document, or in a flag of a
  policy, is a list (`HoldsArrays`); the largest integer is at least 100000, the default number of
  steps; a place is not `Absent`; a setting of the policy that is limited is an integer.
  The limits are natural numbers and there is one on `chunk_size`, `dim_model`, the
  values of a feature and an extent (`limits.rs`). How large they are is not assumed.

Only model-checked is liveness (`EverySaveEnds`, `EveryCommandEnds`), as TLAPS has no rules
for fairness and ENABLED here.

Induction over data is out of the provers' reach in the form the library states it, with
an operator as parameter. Where a proof needs it (sums, and with them what is evicted and how an
episode table tiles the frames; products, and with them the widths of layers; the layers of a
model one after another) `SetInduction` is cited for the set of the numbers of
which the claim holds.

## 4. Not modelled

Floating point (AdamW's arithmetic, normalization, the values in a tensor), byte-level
formats (JSON text, parquet pages, safetensors, PNG), messages and printing. In a list of
pairs that is read as a mapping, objects of two names, whose order `PolicyConfig` does not
keep. Statistics of a camera that have no mean or no standard deviation, or one that is
negative or of another length, which the program refuses when it loads them: those of the
models have both (`SavedCameras`). Commands that
are refused as not ported, `lerobot-info`, `lerobot-which` and the compatibility inventory
have no state. `--dataset.repo_id` without a root is `HubDownload`'s and not an input of
`TrainConfigs`. The last column of `PROJECT.json` "components" gives the reason for each.
Some hazards have no property, with the reason in their "note".

## 5. Plan

1. Done: the core (store, training, arm, events, inference, Hub, interpolator).
2. Done: the serial line, the dataset reader, configurations, model, processors and chains of runs.
3. Done: proofs about the ring buffer, the dataset reader and the chains of runs.
4. Done: every safety property the passing runs check is proved, `ModelsRun` among them. Next: what
   the finding `train_rename` leaves of a mapping that meets statistics.
5. Left to model: `So101`'s failures as those of `FeetechBus`, the encoders of images and
   parquet, the statistics a recording computes.
