---------------------------- MODULE CheckpointDir ----------------------------
(***************************************************************************)
(* What the `checkpoints` directory of a training run promises to the code *)
(* that resumes from it, whoever writes to it and whatever fails on the    *)
(* way: a checkpoint appears all at once, never changes afterwards, and    *)
(* the `last` marker, when there is one, names a checkpoint that is there. *)
(*                                                                         *)
(* It promises no more than that: the marker may be missing although       *)
(* checkpoints exist (it is unlinked before it is written again), and it   *)
(* may move to an older step (a run resumed from an older checkpoint).     *)
(***************************************************************************)
CONSTANTS
  Steps,      \* the steps a checkpoint directory can be named after
  Snapshots,  \* what a session can save
  Absent      \* no directory of that name, or no marker

VARIABLES
  published,  \* step -> the snapshot its directory holds, or Absent
  last        \* the step the marker names, or Absent

dirVars == <<published, last>>

TypeOK ==
  /\ published \in [Steps -> Snapshots \cup {Absent}]
  /\ last \in Steps \cup {Absent}

Init ==
  /\ published = [s \in Steps |-> Absent]
  /\ last = Absent

Publish(s, snapshot) ==
  /\ published[s] = Absent
  /\ published' = [published EXCEPT ![s] = snapshot]
  /\ UNCHANGED last

MarkLast(s) ==
  /\ published[s] # Absent
  /\ last' = s
  /\ UNCHANGED published

DropLast ==
  /\ last # Absent
  /\ last' = Absent
  /\ UNCHANGED published

Next ==
  \/ \E s \in Steps, snapshot \in Snapshots : Publish(s, snapshot)
  \/ \E s \in Steps : MarkLast(s)
  \/ DropLast

Spec == Init /\ [][Next]_dirVars

==============================================================================
