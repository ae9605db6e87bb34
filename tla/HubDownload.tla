----------------------------- MODULE HubDownload -----------------------------
(***************************************************************************)
(* resolve_dataset_root and HubDownloader::download of rerobot-train       *)
(* hub.rs: processes that want the same dataset root, each listing the     *)
(* Hub's tree, fetching its files into a staging directory of its own and  *)
(* renaming that to the root.                                              *)
(*                                                                         *)
(* The root is shared with whoever else writes to the disk, the revision   *)
(* is a name that the Hub may move while it is read.  A process may be     *)
(* killed between any two steps.  A file's content is the version it was   *)
(* read from.  Of the Hub's answers only this is assumed: a page names      *)
(* files the tree has when it is asked for, and the last page comes when   *)
(* every file of the tree has been named.  Operators named ...Slip are not *)
(* the program.                                                            *)
(***************************************************************************)
EXTENDS FiniteSets, Naturals

CONSTANTS
  Processes,
  StagingIds, \* what process id and clock make of a staging name
  Files,
  Required,   \* of them: those is_complete_dataset looks for
  Videos,     \* of them: those the reader cannot use
  Versions,
  Trees,      \* version -> its files
  MaxFiles,   \* 100 000
  Absent,
  Foreign     \* the content of a file put there by somebody else

(* A directory is a function from the files in it to their contents.       *)
Empty == [f \in {} |-> Foreign]
Directories == UNION {[s -> Versions \cup {Foreign}] : s \in SUBSET Files}

ASSUME HubAssumption ==
  /\ IsFiniteSet(Files)
  /\ Required \subseteq Files /\ Videos \subseteq Files
  /\ Trees \in [Versions -> SUBSET Files]
  /\ Absent \notin StagingIds /\ Absent \notin Directories
  /\ Foreign \notin Versions
  /\ MaxFiles \in Nat

VARIABLES
  target,  \* the dataset root: [kind, files], files |-> file -> content
  staging, \* staging name -> the files in it, or Absent
  head,    \* the version that the revision names
  pc,      \* process -> where it is, or how its last call returned
  dir,     \* process -> its staging name, or Absent
  listed,  \* process -> the files of the tree, as far as they were listed
  entries, \* process -> in how many entries: a file may be named twice
  orphans  \* history: staging directories of processes that were killed

hubVars == <<target, staging, head, pc, dir, listed, entries, orphans>>

Returned == {"idle", "ok", "failed"}

(* is_complete_dataset                                                     *)
IsComplete(files) == Required \subseteq DOMAIN files

TypeOK ==
  /\ target \in [kind : {"none", "link", "directory"}, files : Directories]
  /\ staging \in [StagingIds -> Directories \cup {Absent}]
  /\ head \in Versions
  /\ pc \in [Processes -> Returned \cup {"inspect", "list", "stage", "fetch"}]
  /\ dir \in [Processes -> StagingIds \cup {Absent}]
  /\ listed \in [Processes -> SUBSET Files]
  /\ entries \in [Processes -> 0..MaxFiles]
  /\ orphans \subseteq StagingIds

Init ==
  /\ target = [kind |-> "none", files |-> Empty]
  /\ staging = [d \in StagingIds |-> Absent]
  /\ head \in Versions
  /\ pc = [p \in Processes |-> "idle"]
  /\ dir = [p \in Processes |-> Absent]
  /\ listed = [p \in Processes |-> {}]
  /\ entries = [p \in Processes |-> 0]
  /\ orphans = {}

Goto(p, l) == pc' = [pc EXCEPT ![p] = l]

(* The call returns; with an error, what it has staged is removed.         *)
Return(p, result) ==
  /\ Goto(p, result)
  /\ dir' = [dir EXCEPT ![p] = Absent]
  /\ listed' = [listed EXCEPT ![p] = {}]
  /\ entries' = [entries EXCEPT ![p] = 0]
  /\ staging' = [d \in StagingIds |-> IF d = dir[p] THEN Absent ELSE staging[d]]

(* resolve_dataset_root, and what download looks at before it asks the Hub.*)
Begin(p) ==
  /\ pc[p] \in Returned
  /\ Goto(p, IF IsComplete(target.files) THEN "ok" ELSE "inspect")
  /\ UNCHANGED <<target, staging, head, dir, listed, entries, orphans>>

InspectSlip(p) == \* whatever is there is taken
  /\ pc[p] = "inspect"
  /\ Goto(p, IF target.kind = "none" THEN "list" ELSE "ok")
  /\ UNCHANGED <<target, staging, head, dir, listed, entries, orphans>>

Inspect(p) ==
  /\ pc[p] = "inspect"
  /\ Goto(p, CASE target.kind = "none"                                     -> "list"
               [] target.kind = "directory" /\ IsComplete(target.files)    -> "ok"
               [] OTHER                                                    -> "failed")
  /\ UNCHANGED <<target, staging, head, dir, listed, entries, orphans>>

(* The tree is refused while it is listed when it has too many entries,    *)
(* and then when it has none, or a video.                                  *)
Listing(p, paths, count, last) ==
  IF count > MaxFiles \/ (last /\ (count = 0 \/ paths \cap Videos # {}))
  THEN Return(p, "failed")
  ELSE /\ listed' = [listed EXCEPT ![p] = paths]
       /\ entries' = [entries EXCEPT ![p] = count]
       /\ Goto(p, IF last THEN "stage" ELSE "list")
       /\ UNCHANGED <<staging, dir>>

(* A page of the tree as it is now.  It may name files that were named     *)
(* before, or only directories, which are skipped; a link to another page  *)
(* is followed, whatever this one has brought.                             *)
ListPage(p) ==
  /\ pc[p] = "list"
  /\ \E page \in SUBSET Trees[head], last \in BOOLEAN :
       LET paths == listed[p] \cup page
       IN /\ last => Trees[head] \subseteq paths
          /\ Listing(p, paths, entries[p] + Cardinality(page), last)
  /\ UNCHANGED <<target, head, orphans>>

CreateStaging(p) ==
  /\ pc[p] = "stage"
  /\ \E d \in StagingIds :
       /\ staging[d] = Absent
       /\ staging' = [staging EXCEPT ![d] = Empty]
       /\ dir' = [dir EXCEPT ![p] = d]
  /\ Goto(p, "fetch")
  /\ UNCHANGED <<target, head, listed, entries, orphans>>

Fetched(p) == staging[dir[p]]
Missing(p) == listed[p] \ DOMAIN Fetched(p)

(* create_new refuses a file that is named a second time.                  *)
NamedTwice(p) == entries[p] > Cardinality(listed[p])

(* A file is asked for by the name of the revision.                        *)
FetchFile(p) ==
  /\ pc[p] = "fetch"
  /\ \E f \in Missing(p) \cap Trees[head] :
       staging' = [staging EXCEPT ![dir[p]] =
         [g \in DOMAIN @ \cup {f} |-> IF g = f THEN head ELSE @[g]]]
  /\ UNCHANGED <<target, head, pc, dir, listed, entries, orphans>>

FailSlip(p) == \* a request that failed makes the call begin again
  /\ \/ pc[p] \in {"list", "stage"}
     \/ pc[p] = "fetch" /\ Missing(p) # {}
  /\ Return(p, "inspect")
  /\ UNCHANGED <<target, head, orphans>>

(* No answer within the timeout, an error, a full disk; the name of the    *)
(* staging directory is taken; a file that was named twice, a tree that is *)
(* no dataset.                                                             *)
Fail(p) ==
  /\ \/ pc[p] \in {"list", "stage"}
     \/ pc[p] = "fetch" /\ (Missing(p) # {} \/ NamedTwice(p) \/ ~IsComplete(Fetched(p)))
  /\ Return(p, "failed")
  /\ UNCHANGED <<target, head, orphans>>

PublishSlip(p) == \* what is_complete_dataset looks for will do
  /\ pc[p] = "fetch"
  /\ IsComplete(Fetched(p))
  /\ target.kind = "none" \/ (target.kind = "directory" /\ target.files = Empty)
  /\ target' = [kind |-> "directory", files |-> Fetched(p)]
  /\ Return(p, "ok")
  /\ UNCHANGED <<head, orphans>>

PublishReplacesSlip(p) == \* what is at the root is moved out of the way
  /\ pc[p] = "fetch" /\ Missing(p) = {} /\ ~NamedTwice(p)
  /\ IsComplete(Fetched(p))
  /\ target' = [kind |-> "directory", files |-> Fetched(p)]
  /\ Return(p, "ok")
  /\ UNCHANGED <<head, orphans>>

(* The rename, which also replaces an empty directory.                     *)
Publish(p) ==
  /\ pc[p] = "fetch" /\ Missing(p) = {} /\ ~NamedTwice(p)
  /\ IsComplete(Fetched(p))
  /\ target.kind = "none" \/ (target.kind = "directory" /\ target.files = Empty)
  /\ target' = [kind |-> "directory", files |-> Fetched(p)]
  /\ Return(p, "ok")
  /\ UNCHANGED <<head, orphans>>

(* The rename is refused, most often because the root is there by now.     *)
RenameFailsSlip(p) == \* the staging directory is left behind
  /\ pc[p] = "fetch" /\ Missing(p) = {} /\ ~NamedTwice(p)
  /\ IsComplete(Fetched(p))
  /\ Goto(p, "failed")
  /\ dir' = [dir EXCEPT ![p] = Absent]
  /\ UNCHANGED <<target, staging, head, listed, entries, orphans>>

RenameFails(p) ==
  /\ pc[p] = "fetch" /\ Missing(p) = {} /\ ~NamedTwice(p)
  /\ IsComplete(Fetched(p))
  /\ Return(p, "failed")
  /\ UNCHANGED <<target, head, orphans>>

(* The process is killed; a later call is made by another one.             *)
Crash(p) ==
  /\ pc[p] \notin Returned
  /\ Goto(p, "idle")
  /\ dir' = [dir EXCEPT ![p] = Absent]
  /\ listed' = [listed EXCEPT ![p] = {}]
  /\ entries' = [entries EXCEPT ![p] = 0]
  /\ orphans' = orphans \cup ({dir[p]} \ {Absent})
  /\ UNCHANGED <<target, staging, head>>

(* Somebody else makes the root: a directory, or a symbolic link to one.   *)
UserMakesRoot ==
  /\ target.kind = "none"
  /\ \E kind \in {"link", "directory"}, s \in SUBSET Files :
       target' = [kind |-> kind, files |-> [f \in s |-> Foreign]]
  /\ UNCHANGED <<staging, head, pc, dir, listed, entries, orphans>>

HubMoves ==
  /\ \E v \in Versions : head' = v
  /\ UNCHANGED <<target, staging, pc, dir, listed, entries, orphans>>

Work(p) ==
  \/ Inspect(p)
  \/ ListPage(p)
  \/ CreateStaging(p)
  \/ FetchFile(p)
  \/ Fail(p)
  \/ Publish(p)
  \/ RenameFails(p)

Next ==
  \/ \E p \in Processes : Begin(p) \/ Work(p) \/ Crash(p)
  \/ UserMakesRoot
  \/ HubMoves

Spec == Init /\ [][Next]_hubVars

-----------------------------------------------------------------------------
(* A call that returns a root returns a complete dataset, and it stays     *)
(* one, whatever other processes do and whoever makes the root meanwhile.  *)
OkMeansComplete ==
  \A p \in Processes : pc[p] = "ok" => IsComplete(target.files)

(* A root that holds anything is never written to, by any process: what a  *)
(* training run reads does not change under it.                            *)
RootKept ==
  [][ target.files # Empty => target' = target ]_hubVars

(* What a process publishes is every file it was told of, from no other    *)
(* download: two processes never fetch into one directory.                 *)
PublishedWhole ==
  [][ \A p \in Processes :
        pc[p] = "fetch" /\ pc'[p] = "ok" =>
          /\ DOMAIN target'.files = listed[p]
          /\ \A q \in Processes \ {p} : dir[q] # dir[p] ]_hubVars

(* A staging directory belongs to a running call, or its process was       *)
(* killed: errors leave none behind.                                       *)
NoLitter ==
  \A d \in StagingIds :
    staging[d] # Absent => d \in orphans \/ \E p \in Processes : dir[p] = d

(* The steps that are left of a call, at most, pages without files not     *)
(* counted: pages while there is room for entries, then files.             *)
StepsLeft(p) ==
  CASE pc[p] = "inspect" -> Cardinality(Files) + MaxFiles + 4
    [] pc[p] = "list"    -> Cardinality(Files) + 3 + (MaxFiles - entries[p])
    [] pc[p] = "stage"   -> Cardinality(Files) + 2
    [] pc[p] = "fetch"   -> 1 + Cardinality(Missing(p))
    [] OTHER             -> 0

(* A page that brings no file and is not the last.                         *)
EmptyPage(p) == ListPage(p) /\ pc'[p] = "list" /\ entries'[p] = entries[p]

(* Nothing but pages without files, of which the code follows any number,  *)
(* can keep a call going: every other step brings it nearer to its end,    *)
(* and nobody else takes it back, whatever they do to the root and to the  *)
(* tree meanwhile.  Pages that name the same files again come to the       *)
(* limit, and no file is fetched twice.                                    *)
EveryStepAdvances ==
  [][ \A p \in Processes :
        /\ StepsLeft(p)' <= StepsLeft(p) \/ Begin(p)
        /\ Work(p) => StepsLeft(p)' < StepsLeft(p) \/ EmptyPage(p) ]_hubVars

(* hub.rs promises "a complete dataset snapshot".  The tree and each file  *)
(* are read by the name of the revision, one after the other, and that     *)
(* name may move in between.                                               *)
OneSnapshot ==
  target.kind = "directory" /\ target.files # Empty
    /\ (\A f \in DOMAIN target.files : target.files[f] # Foreign) =>
    \E v \in Versions : target.files = [f \in Trees[v] |-> v]

==============================================================================
