--------------------------- MODULE CheckpointStore ---------------------------
(***************************************************************************)
(* How training processes publish checkpoints into one `checkpoints`       *)
(* directory: run.rs `write_staged_directory` (build the files in a        *)
(* uniquely named sibling, check again that the name is free, rename) and  *)
(* checkpoint.rs `update_last_checkpoint` (unlink the old marker, symlink, *)
(* and the portable marker file where the symlink is refused).             *)
(*                                                                         *)
(* Every system call is a step, so that other processes and a crash can    *)
(* fall between any two.  A session is one call of save_checkpoint; after  *)
(* it, or after a crash and a restart, a process may begin another.        *)
(*                                                                         *)
(* Cleaning up (`let _ = remove_dir_all(..)`) is taken to succeed.  The    *)
(* operators named ...Slip are not the program: they are what a plausible  *)
(* mistake would make of the definition that follows them, and serve to    *)
(* show that the properties below notice it.                               *)
(***************************************************************************)
EXTENDS Naturals, Sequences

CONSTANTS
  Writers,     \* processes that share one output directory
  Steps,       \* steps at which they save
  NumFiles,    \* files in one checkpoint
  StagingIds,  \* names a staging directory can get
  MaxSessions, \* bound: saves begun by each process
  Absent       \* nothing at a path

ASSUME StoreAssumption ==
  /\ Writers # {} /\ StagingIds # {}
  /\ NumFiles \in Nat \ {0}
  /\ MaxSessions \in Nat
  /\ Absent \notin Steps \cup StagingIds \cup (Writers \X (0..MaxSessions))
  /\ Absent \notin Seq(Writers \X (0..MaxSessions))

VARIABLES
  published,   \* step -> the files of its directory, or Absent
  staging,     \* staging name -> the files written so far, or Absent
  marker,      \* what stands at `checkpoints/last`
  pc,          \* writer -> where it is in save_checkpoint
  target,      \* writer -> the step it saves
  build,       \* writer -> the staging directory it fills
  session,     \* writer -> how many saves it has begun
  lost         \* history: saves that ended unmarked, staging a crash orphaned

storeVars == <<published, staging, marker, pc, target, build, session, lost>>

Me(w) == <<w, session[w]>>

(* The marker: nothing, a link or a file that names a step, or a directory *)
(* the user made at the reserved name.                                     *)
NoMarker      == [kind |-> "none", target |-> Absent]
UserDirectory == [kind |-> "directory", target |-> Absent]
Link(s)       == [kind |-> "symlink", target |-> s]
PortableFile(s) == [kind |-> "file", target |-> s]
Markers ==
  {NoMarker, UserDirectory} \cup {Link(s) : s \in Steps}
                            \cup {PortableFile(s) : s \in Steps}

Stages == {"idle", "check", "create", "write", "rename",
           "inspect", "unlink", "symlink", "portable", "swap", "swap_again"}
Building == {"write", "rename"}
Marking  == {"inspect", "unlink", "symlink", "portable", "swap", "swap_again"}

Sessions == Writers \X (0..MaxSessions)

TypeOK ==
  /\ published \in [Steps -> Seq(Sessions) \cup {Absent}]
  /\ staging \in [StagingIds -> Seq(Sessions) \cup {Absent}]
  /\ marker \in Markers
  /\ pc \in [Writers -> Stages]
  /\ target \in [Writers -> Steps \cup {Absent}]
  /\ build \in [Writers -> StagingIds \cup {Absent}]
  /\ session \in [Writers -> 0..MaxSessions]
  /\ lost \in [unmarked : SUBSET Sessions, orphaned : SUBSET StagingIds]

Init ==
  /\ published = [s \in Steps |-> Absent]
  /\ staging = [d \in StagingIds |-> Absent]
  /\ marker \in {NoMarker, UserDirectory}
  /\ pc = [w \in Writers |-> "idle"]
  /\ target = [w \in Writers |-> Absent]
  /\ build = [w \in Writers |-> Absent]
  /\ session = [w \in Writers |-> 0]
  /\ lost = [unmarked |-> {}, orphaned |-> {}]

(***************************************************************************)
(* How a step of a writer ends.                                            *)
(***************************************************************************)
Goto(w, stage) == pc' = [pc EXCEPT ![w] = stage]

(* The save is over, with or without an error: the stack is gone.          *)
Leave(w) ==
  /\ Goto(w, "idle")
  /\ target' = [target EXCEPT ![w] = Absent]
  /\ build' = [build EXCEPT ![w] = Absent]

(* An error after publication leaves the directory without its marker.     *)
LeaveUnmarked(w) ==
  /\ Leave(w)
  /\ lost' = [lost EXCEPT !.unmarked = @ \cup {Me(w)}]

Discard(w) == staging' = [staging EXCEPT ![build[w]] = Absent]

(***************************************************************************)
(* write_staged_directory                                                  *)
(***************************************************************************)

(* A process starts (or is started again) and reaches a saving step.       *)
Begin(w, s) ==
  /\ pc[w] = "idle"
  /\ session[w] < MaxSessions
  /\ session' = [session EXCEPT ![w] = @ + 1]
  /\ target' = [target EXCEPT ![w] = s]
  /\ Goto(w, "check")
  /\ UNCHANGED <<published, staging, marker, build, lost>>

CheckDestination(w) ==
  /\ pc[w] = "check"
  /\ IF published[target[w]] = Absent
     THEN Goto(w, "create") /\ UNCHANGED <<target, build>>
     ELSE Leave(w)
  /\ UNCHANGED <<published, staging, marker, session, lost>>

(* create_dir is exclusive; a name that is taken is skipped and the next   *)
(* counter value tried.                                                    *)
CreateStaging(w, d) ==
  /\ pc[w] = "create"
  /\ staging[d] = Absent
  /\ staging' = [staging EXCEPT ![d] = <<>>]
  /\ build' = [build EXCEPT ![w] = d]
  /\ Goto(w, "write")
  /\ UNCHANGED <<published, marker, target, session, lost>>

CreateFails(w) ==
  /\ pc[w] = "create"
  /\ Leave(w)
  /\ UNCHANGED <<published, staging, marker, session, lost>>

WriteFile(w) ==
  /\ pc[w] = "write"
  /\ Len(staging[build[w]]) < NumFiles
  /\ staging' = [staging EXCEPT ![build[w]] = Append(@, Me(w))]
  /\ UNCHANGED <<published, marker, pc, target, build, session, lost>>

WriteFailsSlip(w) == \* the error is ignored and the rest published
  /\ pc[w] = "write"
  /\ Len(staging[build[w]]) < NumFiles
  /\ Goto(w, "rename")
  /\ UNCHANGED <<published, staging, marker, target, build, session, lost>>

WriteFailsLitterSlip(w) == \* the staging directory is forgotten
  /\ pc[w] = "write"
  /\ Len(staging[build[w]]) < NumFiles
  /\ Leave(w)
  /\ UNCHANGED <<published, staging, marker, session, lost>>

WriteFails(w) ==
  /\ pc[w] = "write"
  /\ Len(staging[build[w]]) < NumFiles
  /\ Discard(w)
  /\ Leave(w)
  /\ UNCHANGED <<published, marker, session, lost>>

(* The no-clobber check is repeated after the long write.                  *)
CheckAgain(w) ==
  /\ pc[w] = "write"
  /\ Len(staging[build[w]]) = NumFiles
  /\ IF published[target[w]] = Absent
     THEN Goto(w, "rename") /\ UNCHANGED <<staging, target, build>>
     ELSE Discard(w) /\ Leave(w)
  /\ UNCHANGED <<published, marker, session, lost>>

RenameSlip(w) == \* a rename that overwrites
  /\ pc[w] = "rename"
  /\ published' = [published EXCEPT ![target[w]] = staging[build[w]]]
  /\ Discard(w)
  /\ build' = [build EXCEPT ![w] = Absent]
  /\ Goto(w, "inspect")
  /\ UNCHANGED <<marker, target, session, lost>>

(* rename(2) replaces no directory that has entries: a checkpoint that     *)
(* appeared since the check makes it fail.                                 *)
Rename(w) ==
  /\ pc[w] = "rename"
  /\ published[target[w]] = Absent
  /\ published' = [published EXCEPT ![target[w]] = staging[build[w]]]
  /\ Discard(w)
  /\ build' = [build EXCEPT ![w] = Absent]
  /\ Goto(w, "inspect")
  /\ UNCHANGED <<marker, target, session, lost>>

RenameFailsSlip(w) == \* the error is not returned
  /\ pc[w] = "rename"
  /\ Discard(w)
  /\ build' = [build EXCEPT ![w] = Absent]
  /\ Goto(w, "inspect")
  /\ UNCHANGED <<published, marker, target, session, lost>>

RenameFails(w) ==
  /\ pc[w] = "rename"
  /\ Discard(w)
  /\ Leave(w)
  /\ UNCHANGED <<published, marker, session, lost>>

(***************************************************************************)
(* update_last_checkpoint                                                  *)
(***************************************************************************)

(* remove_last_marker looks at what is there, and only then unlinks it.    *)
InspectMarker(w) ==
  /\ pc[w] = "inspect"
  /\ CASE marker.kind = "none"      -> Goto(w, "symlink") /\ UNCHANGED <<target, build, lost>>
       [] marker.kind = "directory" -> LeaveUnmarked(w)
       [] OTHER                     -> Goto(w, "unlink") /\ UNCHANGED <<target, build, lost>>
  /\ UNCHANGED <<published, staging, marker, session>>

UnlinkMarkerSlip(w) == \* returns once the old marker is gone
  /\ pc[w] = "unlink"
  /\ marker' = NoMarker
  /\ Leave(w)
  /\ UNCHANGED <<published, staging, session, lost>>

UnlinkMarker(w) ==
  /\ pc[w] = "unlink"
  /\ marker.kind \in {"symlink", "file"}
  /\ marker' = NoMarker
  /\ Goto(w, "symlink")
  /\ UNCHANGED <<published, staging, target, build, session, lost>>

(* Unlinking may fail, and does of a name that has gone since.             *)
UnlinkFails(w) ==
  /\ pc[w] = "unlink"
  /\ LeaveUnmarked(w)
  /\ UNCHANGED <<published, staging, marker, session>>

SymlinkMarker(w) ==
  /\ pc[w] = "symlink"
  /\ marker = NoMarker
  /\ marker' = Link(target[w])
  /\ Leave(w)
  /\ UNCHANGED <<published, staging, session, lost>>

SymlinkRefusedSlip(w) == \* starts over instead of falling back
  /\ pc[w] = "symlink"
  /\ Goto(w, "inspect")
  /\ UNCHANGED <<published, staging, marker, target, build, session, lost>>

(* Another process linked first, or the platform has no symlinks.          *)
SymlinkRefused(w) ==
  /\ pc[w] = "symlink"
  /\ Goto(w, "portable")
  /\ UNCHANGED <<published, staging, marker, target, build, session, lost>>

(* refuse_non_marker, then the temporary file beside the marker.           *)
WriteTemporary(w) ==
  /\ pc[w] = "portable"
  /\ IF marker.kind = "directory"
     THEN LeaveUnmarked(w)
     ELSE Goto(w, "swap") /\ UNCHANGED <<target, build, lost>>
  /\ UNCHANGED <<published, staging, marker, session>>

WriteTemporaryFails(w) ==
  /\ pc[w] = "portable"
  /\ LeaveUnmarked(w)
  /\ UNCHANGED <<published, staging, marker, session>>

(* rename replaces a link or a file by name.                               *)
SwapMarker(w) ==
  /\ pc[w] \in {"swap", "swap_again"}
  /\ marker.kind # "directory"
  /\ marker' = PortableFile(target[w])
  /\ Leave(w)
  /\ UNCHANGED <<published, staging, session, lost>>

(* Where rename does not replace a symlink, unlink it and try once more.   *)
SwapRefused(w) ==
  /\ pc[w] = "swap"
  /\ marker.kind = "symlink"
  /\ marker' = NoMarker
  /\ Goto(w, "swap_again")
  /\ UNCHANGED <<published, staging, target, build, session, lost>>

(* Nothing is tried again of a name that is no symlink, or when it cannot  *)
(* be unlinked.                                                            *)
SwapFails(w) ==
  /\ pc[w] \in {"swap", "swap_again"}
  /\ LeaveUnmarked(w)
  /\ UNCHANGED <<published, staging, marker, session>>

(***************************************************************************)
(* The process dies: its memory goes, what is on disk stays.               *)
(***************************************************************************)
Crash(w) ==
  /\ pc[w] # "idle"
  /\ Leave(w)
  /\ lost' = [unmarked |-> IF pc[w] \in Marking
                           THEN lost.unmarked \cup {Me(w)} ELSE lost.unmarked,
              orphaned |-> lost.orphaned \cup ({build[w]} \ {Absent})]
  /\ UNCHANGED <<published, staging, marker, session>>

Save(w) ==
  \/ CheckDestination(w)
  \/ \E d \in StagingIds : CreateStaging(w, d)
  \/ CreateFails(w)
  \/ WriteFile(w)
  \/ WriteFails(w)
  \/ CheckAgain(w)
  \/ Rename(w)
  \/ RenameFails(w)

Mark(w) ==
  \/ InspectMarker(w)
  \/ UnlinkMarker(w)
  \/ UnlinkFails(w)
  \/ SymlinkMarker(w)
  \/ SymlinkRefused(w)
  \/ WriteTemporary(w)
  \/ WriteTemporaryFails(w)
  \/ SwapMarker(w)
  \/ SwapRefused(w)
  \/ SwapFails(w)

Next ==
  \E w \in Writers :
    \/ \E s \in Steps : Begin(w, s)
    \/ Save(w)
    \/ Mark(w)
    \/ Crash(w)

Spec == Init /\ [][Next]_storeVars

(* A process that is not killed keeps running: Crash is not forced.        *)
FairSpec == Spec /\ \A w \in Writers : WF_storeVars(Save(w) \/ Mark(w))

-----------------------------------------------------------------------------
(***************************************************************************)
(* Properties                                                              *)
(***************************************************************************)

(* A checkpoint directory under its final name holds every file, and all   *)
(* of them come from one save (write_staged_directory: "publishes every    *)
(* file together rather than exposing a mixed checkpoint").                *)
PublishedWhole ==
  \A s \in Steps :
    published[s] # Absent =>
      /\ Len(published[s]) = NumFiles
      /\ \A i, j \in 1..NumFiles : published[s][i] = published[s][j]

(* What a marker names is there to be resumed from, also while other       *)
(* processes fail, crash or fight over the marker.                         *)
LastNamesPublished ==
  marker.kind \in {"symlink", "file"} => published[marker.target] # Absent

(* Once published, a checkpoint is never replaced, changed or removed.     *)
PublishedForever ==
  [][\A s \in Steps : published[s] # Absent => published'[s] = published[s]]_storeVars

(* Maintaining the marker never removes a directory at the reserved name.  *)
UserDirectoryKept ==
  [][marker = UserDirectory => marker' = UserDirectory]_storeVars

(* Every staging directory is being filled by exactly one running save,    *)
(* unless a crash orphaned it: an error leaves none behind, and two saves  *)
(* never write into the same one, although names are only claimed one      *)
(* after the other.                                                        *)
Builders(d) == {w \in Writers : pc[w] \in Building /\ build[w] = d}

StagingOwned ==
  \A d \in StagingIds :
    staging[d] # Absent /\ d \notin lost.orphaned =>
      \E w \in Writers : Builders(d) = {w}

(* Checkpoints without a marker mean that some save is between unlinking   *)
(* the old marker and writing the new one, or ended in that window.        *)
MarkerMissingExplained ==
  marker = NoMarker /\ (\E s \in Steps : published[s] # Absent) =>
    \/ \E w \in Writers : pc[w] \in Marking
    \/ lost.unmarked # {}

(* Every save comes to an end, however the marker is contended.            *)
EverySaveEnds == \A w \in Writers : pc[w] # "idle" ~> pc[w] = "idle"

-----------------------------------------------------------------------------
(* The directory as the code that resumes sees it: a checkpoint is the     *)
(* save its files come from, and only a link or a file is a marker.        *)
PublishedSnapshots ==
  [s \in Steps |-> IF published[s] = Absent THEN Absent ELSE published[s][1]]
LastStep == IF marker.kind \in {"symlink", "file"} THEN marker.target ELSE Absent

Dir == INSTANCE CheckpointDir
         WITH Snapshots <- Sessions, published <- PublishedSnapshots, last <- LastStep

(* Every step of the protocol is one of the three things that may happen   *)
(* to the directory, or is invisible in it.                                *)
ImplementsCheckpointDir == Dir!Spec

==============================================================================
