------------------------------- MODULE Training -------------------------------
(***************************************************************************)
(* A training run, its checkpoints, and what a resumed run continues from: *)
(* run.rs `train`, `TrainSession::{restore, next_batch, step_on}` and      *)
(* `save_checkpoint`, with the sampler of rerobot-core dataset/sampler.rs. *)
(*                                                                         *)
(* One process trains.  It may fail or be killed at any point and be       *)
(* started again, afresh or from any checkpoint that is published.         *)
(* Publishing a checkpoint is one step here and marking it as `last` two:  *)
(* CheckpointStore shows that the protocol on disk provides exactly that.  *)
(*                                                                         *)
(* Abstracted: a frame is its epoch and its position in the shuffled       *)
(* order of that epoch (that order is a function of seed and epoch alone); *)
(* the weights are the sequence of frames they were trained on, which      *)
(* together with the two counters below determines them; AdamW's moments   *)
(* are the number of updates and the generator the number of forward       *)
(* passes it has been drawn from.  Operators named ...Slip are plausible   *)
(* mistakes, not the program.                                              *)
(***************************************************************************)
EXTENDS Integers, Sequences

CONSTANTS
  NumFrames,  \* frames of one epoch (sampler.len())
  Configs,    \* configurations runs are started with
  MaxStep,    \* bound: the longest run any of them asks for
  MaxRuns,    \* bound: runs started
  Absent      \* no checkpoint

StepRange == 1..MaxStep
Samples == [epoch : Nat, position : 0..NumFrames - 1]
Checkpoints == [step : StepRange, batch_size : Nat \ {0},
                model : Seq(Samples), finite : BOOLEAN,
                updates : Nat, draws : Nat]

ASSUME TrainingAssumption ==
  /\ NumFrames \in Nat \ {0}
  /\ MaxStep \in Nat
  /\ MaxRuns \in Nat
  /\ \A c \in Configs :
       /\ c.batch_size \in Nat \ {0}
       /\ c.steps \in 1..MaxStep
       /\ c.save_freq \in Int
       /\ c.save_checkpoint \in BOOLEAN
  /\ Absent \notin Checkpoints

VARIABLES
  saved,      \* disk: step -> checkpoint, or Absent
  last,       \* disk: the step `checkpoints/last` names, 0 for no marker
  outputDir,  \* disk: the output directory exists
  pc,         \* where the process is
  config,     \* its configuration
  resumeStep, \* the step it started from
  step,       \* updates made so far
  sampler,    \* [epoch, start]: EpisodeAwareSampler's state
  queue,      \* [epoch, next]: what is left of the epoch being consumed
  batch,      \* frames of the batch being assembled
  model,      \* frames the weights were trained on
  finite,     \* the weights are finite
  updates,    \* AdamW updates in the optimizer state
  draws,      \* forward passes the generator has served
  runs        \* runs started (bound)

disk == <<saved, last, outputDir>>
session == <<config, resumeStep, step, sampler, queue, batch,
             model, finite, updates, draws>>
trainVars == <<disk, pc, session, runs>>

Ended == {"down", "failed", "done"}
Running == {"draw", "update", "save", "unmark", "mark"}

TypeOK ==
  /\ saved \in [StepRange -> Checkpoints \cup {Absent}]
  /\ last \in StepRange \cup {0}
  /\ outputDir \in BOOLEAN
  /\ pc \in Ended \cup Running
  /\ config \in Configs
  /\ resumeStep \in 0..MaxStep
  /\ step \in 0..MaxStep
  /\ sampler \in [epoch : Nat, start : 0..NumFrames]
  /\ queue \in [epoch : Nat, next : 0..NumFrames]
  /\ batch \in Seq(Samples)
  /\ model \in Seq(Samples)
  /\ finite \in BOOLEAN
  /\ updates \in Nat
  /\ draws \in Nat
  /\ runs \in 0..MaxRuns

(***************************************************************************)
(* The sampler                                                             *)
(***************************************************************************)
LesserOf(a, b) == IF a < b THEN a ELSE b

ExhaustedQueue == [epoch |-> 0, next |-> NumFrames]
IsExhausted(q) == q.next = NumFrames

(* next_epoch: the rest of the current epoch's order; the epoch advances   *)
(* and the offset is cleared eagerly.                                      *)
EpochTail(s)   == [epoch |-> s.epoch, next |-> LesserOf(s.start, NumFrames)]
AfterEpochSlip(s) == [epoch |-> s.epoch + 1, start |-> s.start] \* offset kept
AfterEpoch(s) == [epoch |-> s.epoch + 1, start |-> 0]

(* compute_sampler_state, for one process.                                 *)
BatchesPerEpochSlip(batchSize) == \* forgets the partial batch: may be zero
  LET whole == NumFrames \div batchSize IN IF whole = 0 THEN 1 ELSE whole + 1

BatchesPerEpoch(batchSize) ==
  LET batches == (NumFrames + batchSize - 1) \div batchSize
  IN IF batches < 1 THEN 1 ELSE batches

ComputeSamplerState(s, batchSize) ==
  [epoch |-> s \div BatchesPerEpoch(batchSize),
   start |-> LesserOf((s % BatchesPerEpoch(batchSize)) * batchSize, NumFrames)]

(* should_save_checkpoint, under config.save_checkpoint.                   *)
ShouldSave(c, s) ==
  /\ c.save_checkpoint
  /\ \/ s = c.steps
     \/ c.save_freq > 0 /\ s % c.save_freq = 0

(***************************************************************************)
(* A fresh session, and a session read back from a checkpoint              *)
(***************************************************************************)
NoSession ==
  /\ resumeStep' = 0
  /\ step' = 0
  /\ sampler' = [epoch |-> 0, start |-> 0]
  /\ queue' = ExhaustedQueue
  /\ batch' = <<>>
  /\ model' = <<>>
  /\ finite' = TRUE
  /\ updates' = 0
  /\ draws' = 0

(* The process is gone, whatever the reason, and its memory with it.       *)
End(how) ==
  /\ pc' = how
  /\ NoSession
  /\ UNCHANGED <<config, runs>>

Init ==
  /\ saved = [s \in StepRange |-> Absent]
  /\ last = 0
  /\ outputDir = FALSE
  /\ pc = "down"
  /\ config \in Configs
  /\ resumeStep = 0
  /\ step = 0
  /\ sampler = [epoch |-> 0, start |-> 0]
  /\ queue = ExhaustedQueue
  /\ batch = <<>>
  /\ model = <<>>
  /\ finite = TRUE
  /\ updates = 0
  /\ draws = 0
  /\ runs = 0

(* train, without resume: an existing output directory is refused.         *)
StartFresh(c) ==
  /\ pc \in Ended
  /\ runs < MaxRuns
  /\ ~outputDir
  /\ pc' = "draw"
  /\ config' = c
  /\ runs' = runs + 1
  /\ NoSession
  /\ UNCHANGED disk

(* restore: model, optimizer and generator from the files, the sampler     *)
(* from the recorded step and the batch size recorded with it.  A run that *)
(* is at its last step already has nothing to do.                          *)
Resume(c, s) ==
  /\ pc \in Ended
  /\ runs < MaxRuns
  /\ saved[s] # Absent
  /\ pc' = IF saved[s].step < c.steps THEN "draw" ELSE "done"
  /\ config' = c
  /\ runs' = runs + 1
  /\ resumeStep' = saved[s].step
  /\ step' = saved[s].step
  /\ sampler' = ComputeSamplerState(saved[s].step, saved[s].batch_size)
  /\ queue' = ExhaustedQueue
  /\ batch' = <<>>
  /\ model' = saved[s].model
  /\ finite' = saved[s].finite
  /\ updates' = saved[s].updates
  /\ draws' = saved[s].draws
  /\ UNCHANGED disk

(***************************************************************************)
(* One optimization step                                                   *)
(***************************************************************************)
(* The loop is over resume_step + 1 ..= steps.                             *)
AfterStep(s) == IF s >= config.steps THEN "done" ELSE "draw"

(* next_batch takes one frame, drawing the next epoch when none is left.   *)
(* Frames are carried over an epoch's end, so a batch may span two epochs. *)
NextFrame ==
  /\ pc = "draw"
  /\ LET refill == IsExhausted(queue)
         q == IF refill THEN EpochTail(sampler) ELSE queue
     IN IF IsExhausted(q)
        THEN End("failed")  \* the sampler yielded an empty epoch
        ELSE /\ queue' = [q EXCEPT !.next = @ + 1]
             /\ sampler' = IF refill THEN AfterEpoch(sampler) ELSE sampler
             /\ batch' = Append(batch, [epoch |-> q.epoch, position |-> q.next])
             /\ pc' = IF Len(batch) + 1 = config.batch_size
                      THEN "update" ELSE "draw"
             /\ UNCHANGED <<config, resumeStep, step, model, finite,
                            updates, draws, runs>>
  /\ UNCHANGED disk

(* A frame cannot be read, or a loss or gradient norm is not finite: the   *)
(* run ends before the optimizer has touched the weights.                  *)
StepFails ==
  /\ pc \in {"draw", "update"}
  /\ End("failed")
  /\ UNCHANGED disk

Trained(stillFinite) ==
  /\ step' = step + 1
  /\ draws' = draws + 1
  /\ updates' = updates + 1
  /\ model' = model \o batch
  /\ batch' = <<>>
  /\ finite' = stillFinite
  /\ pc' = IF ShouldSave(config, step + 1) THEN "save" ELSE AfterStep(step + 1)
  /\ UNCHANGED <<config, resumeStep, sampler, queue, runs>>

UpdateSlip(stillFinite) == \* the parameters are not looked at afterwards
  /\ pc = "update"
  /\ finite
  /\ Trained(stillFinite)
  /\ UNCHANGED disk

(* step_on: the losses are finite, which non-finite weights cannot give;   *)
(* AdamW updates; the run ends unless the new parameters are finite.       *)
Update(stillFinite) ==
  /\ pc = "update"
  /\ finite
  /\ IF stillFinite THEN Trained(TRUE) ELSE End("failed")
  /\ UNCHANGED disk

(***************************************************************************)
(* The checkpoint of a step                                                *)
(***************************************************************************)
CheckpointNow == [step |-> step, batch_size |-> config.batch_size,
                  model |-> model, finite |-> finite,
                  updates |-> updates, draws |-> draws]

SaveSlip == \* a checkpoint that is there already is good enough
  /\ pc = "save"
  /\ IF saved[step] = Absent
     THEN /\ saved' = [saved EXCEPT ![step] = CheckpointNow]
          /\ outputDir' = TRUE
          /\ pc' = "unmark"
     ELSE /\ pc' = AfterStep(step)
          /\ UNCHANGED <<saved, outputDir>>
  /\ UNCHANGED <<last, session, runs>>

(* save_checkpoint succeeds: everything is published at once.              *)
Save ==
  /\ pc = "save"
  /\ saved[step] = Absent
  /\ saved' = [saved EXCEPT ![step] = CheckpointNow]
  /\ outputDir' = TRUE
  /\ pc' = "unmark"
  /\ UNCHANGED <<last, session, runs>>

(* An existing destination, or a write that failed, ends the run; the      *)
(* directories above the destination may have been created before that.    *)
SaveFails ==
  /\ pc = "save"
  /\ outputDir' \in {outputDir, TRUE}
  /\ End("failed")
  /\ UNCHANGED <<saved, last>>

(* update_last_checkpoint removes the marker and creates it anew; both     *)
(* may fail, and the error ends the run.                                   *)
Unmark ==
  /\ pc = "unmark"
  /\ last' = 0
  /\ pc' = "mark"
  /\ UNCHANGED <<saved, outputDir, session, runs>>

Mark ==
  /\ pc = "mark"
  /\ last' = step
  /\ pc' = AfterStep(step)
  /\ UNCHANGED <<saved, outputDir, session, runs>>

MarkFails ==
  /\ pc \in {"unmark", "mark"}
  /\ End("failed")
  /\ UNCHANGED disk

(* The process is killed.                                                  *)
Crash ==
  /\ pc \in Running
  /\ outputDir' \in {outputDir, outputDir \/ pc = "save"}
  /\ End("down")
  /\ UNCHANGED <<saved, last>>

Next ==
  \/ \E c \in Configs : StartFresh(c)
  \/ \E c \in Configs, s \in StepRange : Resume(c, s)
  \/ NextFrame
  \/ StepFails
  \/ \E stillFinite \in BOOLEAN : Update(stillFinite)
  \/ Save
  \/ SaveFails
  \/ Unmark
  \/ Mark
  \/ MarkFails
  \/ Crash

Spec == Init /\ [][Next]_trainVars

(***************************************************************************)
(* Properties                                                              *)
(***************************************************************************)
(* The frames s are those of places from+1, from+2, ... of the run that is *)
(* never interrupted: epoch after epoch, each position once and in order.  *)
InOrder(s, from) ==
  \A i \in 1..Len(s) : s[i].epoch * NumFrames + s[i].position = from + i - 1

(* However often a run fails, is killed and is resumed from whichever      *)
(* checkpoint, weights have been trained on exactly the frames an          *)
(* uninterrupted run would have used, none skipped and none seen twice     *)
(* (`restore` positions the sampler by `compute_sampler_state`).  It needs *)
(* a batch size that divides the epoch and is never changed: see the runs  *)
(* that violate it.                                                        *)
SampleExact ==
  /\ InOrder(model, 0)
  /\ InOrder(batch, Len(model))
  /\ \A s \in StepRange : saved[s] # Absent => InOrder(saved[s].model, 0)

(* Weights, optimizer moments, generator and step number belong together,  *)
(* in memory and in every checkpoint: `restore` mixes no two of them.      *)
StateCoherent ==
  /\ updates = step /\ draws = step
  /\ \A s \in StepRange : saved[s] # Absent =>
        /\ saved[s].step = s
        /\ saved[s].updates = s
        /\ saved[s].draws = s

(* No checkpoint holds weights that are not finite (`step_on` checks the   *)
(* loss before the update and the parameters after it).                    *)
NoPoisonedCheckpoint ==
  \A s \in StepRange : saved[s] # Absent => saved[s].finite

(* `next_batch` never meets an empty epoch, whatever step and batch size   *)
(* the sampler was repositioned by.                                        *)
NeverStarved ==
  pc = "draw" /\ IsExhausted(queue) => sampler.start < NumFrames

(* A process in its loop has published a checkpoint at every step that was *)
(* due since it started, and `last` names the newest of them: a kill costs *)
(* the steps since then and no more.                                       *)
ProgressKept ==
  LET passed == IF pc = "save" THEN step - 1 ELSE step
      due == {s \in resumeStep + 1..passed : ShouldSave(config, s)}
  IN pc \in {"draw", "update", "save", "done"} =>
       /\ \A s \in due : saved[s] # Absent
       /\ \A s \in due : (\A t \in due : t <= s) => last = s

(* A run that ends at its last step has left that step's checkpoint, and   *)
(* `last` names it if the run made any step itself.                        *)
FinishedMeansSaved ==
  pc = "done" /\ config.save_checkpoint /\ step = config.steps =>
    /\ saved[step] # Absent
    /\ step > resumeStep => last = step

(* Only a resumed run finds its own checkpoint in the way: `train` refuses *)
(* a fresh run whose output directory exists, so what a fresh run trained  *)
(* is never refused when it is saved.                                      *)
FreshNeverRefused ==
  pc = "save" /\ saved[step] # Absent => resumeStep > 0

==============================================================================
