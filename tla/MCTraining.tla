------------------------------ MODULE MCTraining ------------------------------
(* Small instances of Training.                                            *)
EXTENDS Training, TLC

Config(batchSize, steps, saveFreq, saveCheckpoint) ==
  [batch_size |-> batchSize, steps |-> steps,
   save_freq |-> saveFreq, save_checkpoint |-> saveCheckpoint]

(* One batch size, which divides the four frames of an epoch: the length   *)
(* of the run and when it saves change from one resume to the next.        *)
OneBatchSize ==
  {Config(2, 5, 2, TRUE), Config(2, 3, 1, TRUE), Config(2, 4, 0, TRUE),
   Config(2, 5, 2, FALSE)}

(* The configuration of tests/train.rs: four frames in batches of three.   *)
UnevenBatches == {Config(3, 4, 1, TRUE)}

==============================================================================
