-------------------------- MODULE MCCheckpointStore --------------------------
(* Two processes that save the same two steps into one directory.          *)
EXTENDS CheckpointStore

CONSTANTS w1, w2, d1, d2

==============================================================================
