------------------------ MODULE CheckpointStoreProofs ------------------------
(***************************************************************************)
(* The publication protocol, for any number of processes, steps, files and *)
(* saves: what is published is whole and stays, the marker names something *)
(* published, and the protocol implements the abstract directory.          *)
(***************************************************************************)
EXTENDS CheckpointStore, TLAPS

(***************************************************************************)
(* The inductive invariant.  The published part holds because of what each *)
(* writer knows of its own staging directory while it builds it, and that  *)
(* no other writer is given the same one.                                  *)
(***************************************************************************)
AllMine(files, me) == \A i \in 1..Len(files) : files[i] = me

BuildInv ==
  \A w \in Writers :
    /\ pc[w] # "idle" => target[w] \in Steps
    /\ pc[w] \notin Building => build[w] = Absent
    /\ pc[w] \in Building =>
         /\ build[w] \in StagingIds
         /\ staging[build[w]] \in Seq(Sessions)
         /\ Len(staging[build[w]]) <= NumFiles
         /\ AllMine(staging[build[w]], Me(w))
    /\ pc[w] = "rename" => Len(staging[build[w]]) = NumFiles

DirsExclusive ==
  \A w, v \in Writers : w # v /\ build[w] # Absent => build[w] # build[v]

MarkingPublished ==
  \A w \in Writers : pc[w] \in Marking => published[target[w]] # Absent

LostType == lost \in [unmarked : SUBSET Sessions, orphaned : SUBSET StagingIds]

IInv ==
  /\ TypeOK
  /\ BuildInv
  /\ DirsExclusive
  /\ MarkingPublished
  /\ PublishedWhole
  /\ LastNamesPublished

(* The initial states satisfy the invariant.                               *)
LEMMA InitInv == Init => IInv
<1> SUFFICES ASSUME Init PROVE IInv
  OBVIOUS
<1> USE StoreAssumption DEF Init
<1>1. TypeOK
  BY DEF TypeOK, NoMarker, UserDirectory, Markers, Stages
<1>2. BuildInv
  BY DEF BuildInv, Building
<1>3. DirsExclusive /\ MarkingPublished /\ PublishedWhole
  BY DEF DirsExclusive, MarkingPublished, PublishedWhole, Marking
<1>4. LastNamesPublished
  BY DEF LastNamesPublished, NoMarker, UserDirectory
<1>5. QED
  BY <1>1, <1>2, <1>3, <1>4 DEF IInv

(* The running save of a writer is one of the sessions.                    *)
LEMMA MeIsSession ==
  ASSUME TypeOK, NEW w \in Writers
  PROVE  Me(w) \in Sessions
BY StoreAssumption DEF TypeOK, Me, Sessions

(* However a save ends, it only gives back its own staging directory.      *)
LEMMA LeaveInv ==
  ASSUME IInv, NEW w \in Writers, Leave(w),
         UNCHANGED <<published, session>>,
         UNCHANGED staging \/ (pc[w] \in Building /\ Discard(w)),
         marker' \in Markers, LastNamesPublished', LostType'
  PROVE  IInv'
<1> USE StoreAssumption DEF Leave, Goto
<1>1. TypeOK'
  <2>1. staging' \in [StagingIds -> Seq(Sessions) \cup {Absent}]
    BY DEF IInv, TypeOK, Discard
  <2>2. pc' \in [Writers -> Stages]
    BY DEF IInv, TypeOK, Stages
  <2>3. target' \in [Writers -> Steps \cup {Absent}]
    BY DEF IInv, TypeOK
  <2>4. build' \in [Writers -> StagingIds \cup {Absent}]
    BY DEF IInv, TypeOK
  <2>5. QED
    BY <2>1, <2>2, <2>3, <2>4 DEF IInv, TypeOK, LostType
<1>2. BuildInv'
  <2> SUFFICES ASSUME NEW v \in Writers
               PROVE  BuildInv!(v)'
    BY DEF BuildInv
  <2>1. CASE v = w
    BY <2>1 DEF IInv, TypeOK, BuildInv, Building
  <2>2. CASE v # w
    <3>1. pc'[v] = pc[v] /\ target'[v] = target[v] /\ build'[v] = build[v] /\ Me(v)' = Me(v)
      BY <2>2 DEF IInv, TypeOK, Me
    <3>2. pc[v] \in Building => staging'[build[v]] = staging[build[v]]
      BY <2>2 DEF IInv, TypeOK, BuildInv, DirsExclusive, Discard
    <3>3. QED
      BY <3>1, <3>2 DEF IInv, BuildInv, Building
  <2>3. QED
    BY <2>1, <2>2
<1>3. DirsExclusive'
  BY DEF IInv, TypeOK, BuildInv, DirsExclusive
<1>4. MarkingPublished'
  BY DEF IInv, TypeOK, MarkingPublished, Marking
<1>5. PublishedWhole'
  BY DEF IInv, PublishedWhole
<1>6. QED
  BY <1>1, <1>2, <1>3, <1>4, <1>5 DEF IInv

(* Moving on within update_last_checkpoint touches the marker alone.       *)
LEMMA MarkingInv ==
  ASSUME IInv, NEW w \in Writers, NEW stage \in Marking,
         pc[w] \in Marking, Goto(w, stage),
         UNCHANGED <<published, staging, target, build, session>>,
         marker' \in Markers, LastNamesPublished', LostType'
  PROVE  IInv'
<1> USE DEF Goto
<1>1. TypeOK'
  BY DEF IInv, TypeOK, Stages, Marking, LostType
<1>2. BuildInv'
  BY DEF IInv, TypeOK, BuildInv, Building, Marking, Me
<1>3. DirsExclusive' /\ PublishedWhole'
  BY DEF IInv, DirsExclusive, PublishedWhole
<1>4. MarkingPublished'
  BY DEF IInv, TypeOK, MarkingPublished
<1>5. QED
  BY <1>1, <1>2, <1>3, <1>4 DEF IInv

(* An unchanged marker still names something while nothing disappears.     *)
LEMMA SameMarker ==
  ASSUME IInv, UNCHANGED <<published, marker>>
  PROVE  marker' \in Markers /\ LastNamesPublished'
BY DEF IInv, TypeOK, LastNamesPublished

(* Starting a save keeps the invariant.                                    *)
LEMMA BeginInv ==
  ASSUME IInv, NEW w \in Writers, NEW s \in Steps, Begin(w, s)
  PROVE  IInv'
<1> USE StoreAssumption DEF Begin, Goto
<1>1. TypeOK'
  BY DEF IInv, TypeOK, Stages
<1>2. BuildInv'
  BY DEF IInv, TypeOK, BuildInv, Building, Me
<1>3. DirsExclusive' /\ PublishedWhole' /\ LastNamesPublished'
  BY DEF IInv, DirsExclusive, PublishedWhole, LastNamesPublished
<1>4. MarkingPublished'
  BY DEF IInv, TypeOK, MarkingPublished, Marking
<1>5. QED
  BY <1>1, <1>2, <1>3, <1>4 DEF IInv

(* The first look at the destination keeps it.                             *)
LEMMA CheckDestinationInv ==
  ASSUME IInv, NEW w \in Writers, CheckDestination(w)
  PROVE  IInv'
<1> USE DEF CheckDestination
<1>1. CASE published[target[w]] = Absent
  <2> USE <1>1 DEF Goto
  <2>1. TypeOK'
    BY DEF IInv, TypeOK, Stages
  <2>2. BuildInv'
    BY DEF IInv, TypeOK, BuildInv, Building, Me
  <2>3. DirsExclusive' /\ PublishedWhole' /\ LastNamesPublished'
    BY DEF IInv, DirsExclusive, PublishedWhole, LastNamesPublished
  <2>4. MarkingPublished'
    BY DEF IInv, TypeOK, MarkingPublished, Marking
  <2>5. QED
    BY <2>1, <2>2, <2>3, <2>4 DEF IInv
<1>2. CASE published[target[w]] # Absent
  BY <1>2, LeaveInv, SameMarker DEF IInv, TypeOK, LostType
<1>3. QED
  BY <1>1, <1>2

(* A name that was free is given to one writer only.                       *)
LEMMA CreateStagingInv ==
  ASSUME IInv, NEW w \in Writers, NEW d \in StagingIds, CreateStaging(w, d)
  PROVE  IInv'
<1> USE StoreAssumption DEF CreateStaging, Goto
<1>1. TypeOK'
  BY DEF IInv, TypeOK, Stages
<1>2. \A v \in Writers : build[v] # d
  BY DEF IInv, TypeOK, BuildInv, Sessions
<1>3. BuildInv'
  <2> SUFFICES ASSUME NEW v \in Writers
               PROVE  BuildInv!(v)'
    BY DEF BuildInv
  <2>1. CASE v = w
    BY <2>1 DEF IInv, TypeOK, BuildInv, Building, AllMine
  <2>2. CASE v # w
    BY <1>2, <2>2 DEF IInv, TypeOK, BuildInv, Building, Me
  <2>3. QED
    BY <2>1, <2>2
<1>4. DirsExclusive'
  BY <1>2 DEF IInv, TypeOK, DirsExclusive
<1>5. MarkingPublished'
  BY DEF IInv, TypeOK, MarkingPublished, Marking
<1>6. PublishedWhole' /\ LastNamesPublished'
  BY DEF IInv, PublishedWhole, LastNamesPublished
<1>7. QED
  BY <1>1, <1>3, <1>4, <1>5, <1>6 DEF IInv

(* A file more of the same save leaves a directory of one save.            *)
LEMMA AppendMine ==
  ASSUME NEW S, NEW q \in Seq(S), NEW me \in S, AllMine(q, me)
  PROVE  /\ Append(q, me) \in Seq(S)
         /\ Len(Append(q, me)) = Len(q) + 1
         /\ AllMine(Append(q, me), me)
BY DEF AllMine

(* A file is added to the writer's own directory, by this save.            *)
LEMMA WriteFileInv ==
  ASSUME IInv, NEW w \in Writers, WriteFile(w)
  PROVE  IInv'
<1> USE StoreAssumption
<1> DEFINE old == staging[build[w]]
           new == Append(old, Me(w))
<1>1. Me(w) \in Sessions
  BY MeIsSession DEF IInv
<1>2. /\ build[w] \in StagingIds
      /\ old \in Seq(Sessions)
      /\ Len(old) < NumFiles
      /\ AllMine(old, Me(w))
  BY DEF IInv, BuildInv, Building, WriteFile
<1>3. /\ new \in Seq(Sessions)
      /\ Len(new) <= NumFiles
      /\ AllMine(new, Me(w))
  <2> HIDE DEF old
  <2>1. Len(old) \in Nat
    BY <1>2
  <2>2. QED
    BY <1>1, <1>2, <2>1, AppendMine
<1>4. staging' = [staging EXCEPT ![build[w]] = new]
  BY DEF WriteFile
<1>5. pc[w] = "write" /\ UNCHANGED <<published, marker, pc, target, build, session, lost>>
  BY DEF WriteFile
<1> HIDE DEF old, new
<1>6. TypeOK'
  BY <1>2, <1>3, <1>4, <1>5 DEF IInv, TypeOK
<1>7. BuildInv'
  <2> SUFFICES ASSUME NEW v \in Writers
               PROVE  BuildInv!(v)'
    BY DEF BuildInv
  <2>1. CASE v = w
    BY <1>2, <1>3, <1>4, <1>5, <2>1 DEF IInv, TypeOK, BuildInv, Me, Building
  <2>2. CASE v # w
    <3>1. pc[v] \in Building => staging'[build[v]] = staging[build[v]]
      BY <1>2, <1>4, <1>5, <2>2 DEF IInv, TypeOK, BuildInv, DirsExclusive
    <3>2. QED
      BY <1>5, <3>1 DEF IInv, BuildInv, Me, Building
  <2>3. QED
    BY <2>1, <2>2
<1>8. DirsExclusive' /\ MarkingPublished' /\ PublishedWhole' /\ LastNamesPublished'
  BY <1>5 DEF IInv, DirsExclusive, MarkingPublished, PublishedWhole, LastNamesPublished
<1>9. QED
  BY <1>6, <1>7, <1>8 DEF IInv

(* The second look keeps it, and finds all files written.                  *)
LEMMA CheckAgainInv ==
  ASSUME IInv, NEW w \in Writers, CheckAgain(w)
  PROVE  IInv'
<1> USE DEF CheckAgain
<1>1. CASE published[target[w]] = Absent
  <2> USE <1>1 DEF Goto
  <2>1. TypeOK'
    BY DEF IInv, TypeOK, Stages
  <2>2. BuildInv'
    BY DEF IInv, TypeOK, BuildInv, Building, Me
  <2>3. DirsExclusive' /\ PublishedWhole' /\ LastNamesPublished'
    BY DEF IInv, DirsExclusive, PublishedWhole, LastNamesPublished
  <2>4. MarkingPublished'
    BY DEF IInv, TypeOK, MarkingPublished, Marking
  <2>5. QED
    BY <2>1, <2>2, <2>3, <2>4 DEF IInv
<1>2. CASE published[target[w]] # Absent
  BY <1>2, LeaveInv, SameMarker DEF IInv, TypeOK, LostType, Building
<1>3. QED
  BY <1>1, <1>2

(* The rename moves one whole directory, and its name was free.            *)
LEMMA RenameInv ==
  ASSUME IInv, NEW w \in Writers, Rename(w)
  PROVE  IInv'
<1> USE StoreAssumption DEF Rename
<1> DEFINE files == staging[build[w]]
<1>1. /\ build[w] \in StagingIds
      /\ target[w] \in Steps
      /\ files \in Seq(Sessions)
      /\ files # Absent
      /\ Len(files) = NumFiles
      /\ AllMine(files, Me(w))
  BY DEF IInv, BuildInv, Building, Sessions
<1>2. published' = [published EXCEPT ![target[w]] = files]
  OBVIOUS
<1>3. \A s \in Steps : published[s] # Absent => published'[s] = published[s]
  BY <1>1, <1>2 DEF IInv, TypeOK
<1>4. PublishedWhole'
  <2> SUFFICES ASSUME NEW s \in Steps, published'[s] # Absent
               PROVE  /\ Len(published'[s]) = NumFiles
                      /\ \A i, j \in 1..NumFiles : published'[s][i] = published'[s][j]
    BY DEF PublishedWhole
  <2>1. CASE s = target[w]
    <3>1. published'[s] = files
      BY <1>1, <1>2, <2>1 DEF IInv, TypeOK
    <3> HIDE DEF files
    <3>2. QED
      BY <1>1, <3>1 DEF AllMine
  <2>2. CASE s # target[w]
    BY <1>2, <2>2 DEF IInv, TypeOK, PublishedWhole
  <2>3. QED
    BY <2>1, <2>2
<1>5. LastNamesPublished'
  <2>1. marker.kind \in {"symlink", "file"} => marker.target \in Steps
    BY DEF IInv, TypeOK, Markers, NoMarker, UserDirectory, Link, PortableFile
  <2>2. QED
    BY <1>3, <2>1 DEF IInv, LastNamesPublished
<1> HIDE DEF files
<1>6. TypeOK'
  BY <1>1, <1>2 DEF IInv, TypeOK, Stages, Goto, Discard
<1>7. BuildInv'
  <2> SUFFICES ASSUME NEW v \in Writers
               PROVE  BuildInv!(v)'
    BY DEF BuildInv
  <2> USE DEF Goto, Discard
  <2>1. CASE v = w
    BY <2>1 DEF IInv, TypeOK, BuildInv, Building
  <2>2. CASE v # w
    <3>1. pc[v] \in Building => staging'[build[v]] = staging[build[v]]
      BY <1>1, <2>2 DEF IInv, TypeOK, BuildInv, DirsExclusive
    <3>2. pc'[v] = pc[v] /\ build'[v] = build[v] /\ Me(v)' = Me(v)
      BY <2>2 DEF IInv, TypeOK, Me
    <3>3. QED
      BY <3>1, <3>2 DEF IInv, BuildInv, Building
  <2>3. QED
    BY <2>1, <2>2
<1>8. DirsExclusive'
  BY DEF IInv, TypeOK, DirsExclusive
<1>9. MarkingPublished'
  <2> SUFFICES ASSUME NEW v \in Writers, pc'[v] \in Marking
               PROVE  published'[target[v]] # Absent
    BY DEF MarkingPublished
  <2>1. CASE v = w
    BY <1>1, <1>2, <2>1 DEF IInv, TypeOK
  <2>2. CASE v # w
    <3>1. pc[v] \in Marking /\ target[v] \in Steps
      BY <2>2 DEF IInv, TypeOK, BuildInv, Marking, Goto
    <3>2. QED
      BY <1>3, <3>1 DEF IInv, MarkingPublished
  <2>3. QED
    BY <2>1, <2>2
<1>10. QED
  BY <1>4, <1>5, <1>6, <1>7, <1>8, <1>9 DEF IInv

(* The steps that only end the save, with an error or in a crash.          *)
LEMMA EndingInv ==
  ASSUME IInv, NEW w \in Writers,
         \/ CreateFails(w) \/ WriteFails(w) \/ RenameFails(w)
         \/ UnlinkFails(w) \/ WriteTemporaryFails(w) \/ SwapFails(w) \/ Crash(w)
  PROVE  IInv'
<1> USE SameMarker, LeaveInv DEF LostType
<1>1. CASE CreateFails(w)
  BY <1>1 DEF CreateFails, IInv, TypeOK
<1>2. CASE WriteFails(w)
  BY <1>2 DEF WriteFails, IInv, TypeOK, Building
<1>3. CASE RenameFails(w)
  BY <1>3 DEF RenameFails, IInv, TypeOK, Building
<1>4. ASSUME LeaveUnmarked(w), UNCHANGED <<published, staging, marker, session>>
      PROVE  IInv'
  <2>1. LostType'
    BY <1>4, MeIsSession DEF LeaveUnmarked, IInv, TypeOK
  <2>2. QED
    BY <1>4, <2>1 DEF LeaveUnmarked
<1>5. CASE UnlinkFails(w) \/ WriteTemporaryFails(w) \/ SwapFails(w)
  BY <1>4, <1>5 DEF UnlinkFails, WriteTemporaryFails, SwapFails
<1>6. CASE Crash(w)
  <2>1. LostType'
    BY <1>6, MeIsSession DEF Crash, IInv, TypeOK
  <2>2. QED
    BY <1>6, <2>1 DEF Crash
<1>7. QED
  BY <1>1, <1>2, <1>3, <1>5, <1>6

(* Ending a save after publication keeps it.                               *)
LEMMA UnmarkedInv ==
  ASSUME IInv, NEW w \in Writers, LeaveUnmarked(w),
         UNCHANGED <<published, staging, marker, session>>
  PROVE  IInv'
<1>1. LostType'
  BY MeIsSession DEF LeaveUnmarked, IInv, TypeOK, LostType
<1>2. QED
  BY <1>1, SameMarker, LeaveInv DEF LeaveUnmarked

(* update_last_checkpoint: the marker is nothing, or names what this save  *)
(* has published.                                                          *)
LEMMA MarkInv ==
  ASSUME IInv, NEW w \in Writers, Mark(w)
  PROVE  IInv'
<1> USE SameMarker, MarkingInv, UnmarkedInv DEF LostType, Marking
<1>1. ASSUME pc[w] \in Marking
      PROVE  /\ target[w] \in Steps
             /\ published[target[w]] # Absent
  BY <1>1 DEF IInv, BuildInv, MarkingPublished, Marking
<1>2. NoMarker \in Markers /\ NoMarker.kind = "none"
  BY DEF Markers, NoMarker
<1>3. ASSUME NEW s \in Steps
      PROVE  /\ Link(s) \in Markers /\ Link(s).target = s
             /\ PortableFile(s) \in Markers /\ PortableFile(s).target = s
  BY DEF Markers, Link, PortableFile
<1>4. LostType
  BY DEF IInv, TypeOK
<1>5. CASE InspectMarker(w)
  BY <1>4, <1>5 DEF InspectMarker
<1>6. CASE UnlinkMarker(w)
  BY <1>2, <1>4, <1>6 DEF UnlinkMarker, LastNamesPublished
<1>7. CASE SymlinkMarker(w)
  <2>1. marker' \in Markers /\ LastNamesPublished'
    BY <1>1, <1>3, <1>7 DEF SymlinkMarker, LastNamesPublished
  <2>2. QED
    BY <1>4, <1>7, <2>1, LeaveInv DEF SymlinkMarker
<1>8. CASE SymlinkRefused(w)
  BY <1>4, <1>8 DEF SymlinkRefused
<1>9. CASE WriteTemporary(w)
  BY <1>4, <1>9 DEF WriteTemporary
<1>10. CASE UnlinkFails(w) \/ WriteTemporaryFails(w) \/ SwapFails(w)
  BY <1>10, EndingInv
<1>11. CASE SwapMarker(w)
  <2>1. marker' \in Markers /\ LastNamesPublished'
    BY <1>1, <1>3, <1>11 DEF SwapMarker, LastNamesPublished
  <2>2. QED
    BY <1>4, <1>11, <2>1, LeaveInv DEF SwapMarker
<1>12. CASE SwapRefused(w)
  BY <1>2, <1>4, <1>12 DEF SwapRefused, LastNamesPublished
<1>13. QED
  BY <1>5, <1>6, <1>7, <1>8, <1>9, <1>10, <1>11, <1>12 DEF Mark

(* Every step of every writer keeps the invariant.                         *)
LEMMA NextInv == IInv /\ [Next]_storeVars => IInv'
<1> SUFFICES ASSUME IInv, [Next]_storeVars PROVE IInv'
  OBVIOUS
<1>1. CASE UNCHANGED storeVars
  BY <1>1 DEF IInv, storeVars, TypeOK, BuildInv, DirsExclusive, MarkingPublished,
              PublishedWhole, LastNamesPublished, Me
<1>2. ASSUME NEW w \in Writers, Save(w) PROVE IInv'
  BY <1>2, CheckDestinationInv, CreateStagingInv, WriteFileInv, CheckAgainInv,
     RenameInv, EndingInv DEF Save
<1>3. QED
  BY <1>1, <1>2, BeginInv, MarkInv, EndingInv DEF Next

(* The invariant holds throughout.                                         *)
LEMMA StoreInvariant == Spec => []IInv
BY InitInv, NextInv, PTL DEF Spec

(***************************************************************************)
(* What the protocol guarantees for every value of the constants.          *)
(***************************************************************************)

(* The state stays well typed.                                             *)
THEOREM StoreTypeCorrect == Spec => []TypeOK
<1>1. IInv => TypeOK
  BY DEF IInv
<1>2. QED
  BY <1>1, StoreInvariant, PTL

(* A checkpoint that is visible under its name is complete and comes from  *)
(* one save, however many processes write and crash (write_staged_directory). *)
THEOREM NeverPartial == Spec => []PublishedWhole
<1>1. IInv => PublishedWhole
  BY DEF IInv
<1>2. QED
  BY <1>1, StoreInvariant, PTL

(* `last`, when it is a marker, names a published checkpoint               *)
(* (update_last_checkpoint).                                               *)
THEOREM LastIsResumable == Spec => []LastNamesPublished
<1>1. IInv => LastNamesPublished
  BY DEF IInv
<1>2. QED
  BY <1>1, StoreInvariant, PTL

(***************************************************************************)
(* What one step can do to the directory.                                  *)
(***************************************************************************)
Published(s, files) ==
  /\ files \in Seq(Sessions)
  /\ Len(files) = NumFiles
  /\ published[s] = Absent
  /\ published' = [published EXCEPT ![s] = files]
  /\ UNCHANGED marker

Marked(s) ==
  /\ published[s] # Absent
  /\ marker.kind # "directory"
  /\ marker' \in {Link(s), PortableFile(s)}
  /\ UNCHANGED published

Unmarked ==
  /\ marker.kind \in {"symlink", "file"}
  /\ marker' = NoMarker
  /\ UNCHANGED published

(* Every step publishes one directory, writes or removes the marker, or    *)
(* leaves both alone.                                                      *)
LEMMA StepEffect ==
  ASSUME IInv, [Next]_storeVars
  PROVE  \/ UNCHANGED <<published, marker>>
         \/ \E s \in Steps, files \in Seq(Sessions) : Published(s, files)
         \/ \E s \in Steps : Marked(s)
         \/ Unmarked
<1>1. CASE UNCHANGED storeVars
  BY <1>1 DEF storeVars
<1>2. ASSUME NEW w \in Writers, Rename(w)
      PROVE  \E s \in Steps, files \in Seq(Sessions) : Published(s, files)
  <2>1. /\ target[w] \in Steps
        /\ staging[build[w]] \in Seq(Sessions)
        /\ Len(staging[build[w]]) = NumFiles
    BY <1>2 DEF Rename, IInv, BuildInv, Building
  <2>2. Published(target[w], staging[build[w]])
    BY <1>2, <2>1 DEF Rename, Published
  <2>3. QED
    BY <2>1, <2>2
<1>3. ASSUME NEW w \in Writers, Save(w), ~Rename(w)
      PROVE  UNCHANGED <<published, marker>>
  BY <1>3 DEF Save, CheckDestination, CreateStaging, CreateFails, WriteFile,
              WriteFails, CheckAgain, RenameFails
<1>4. ASSUME NEW w \in Writers, SymlinkMarker(w) \/ SwapMarker(w)
      PROVE  \E s \in Steps : Marked(s)
  <2>1. target[w] \in Steps /\ published[target[w]] # Absent
    BY <1>4 DEF SymlinkMarker, SwapMarker, IInv, BuildInv, MarkingPublished, Marking
  <2>2. Marked(target[w])
    BY <1>4, <2>1 DEF SymlinkMarker, SwapMarker, Marked, NoMarker
  <2>3. QED
    BY <2>1, <2>2
<1>5. ASSUME NEW w \in Writers, UnlinkMarker(w) \/ SwapRefused(w)
      PROVE  Unmarked
  BY <1>5 DEF UnlinkMarker, SwapRefused, Unmarked
<1>6. ASSUME NEW w \in Writers,
             \/ InspectMarker(w) \/ SymlinkRefused(w) \/ WriteTemporary(w)
             \/ UnlinkFails(w) \/ WriteTemporaryFails(w) \/ SwapFails(w) \/ Crash(w)
             \/ \E s \in Steps : Begin(w, s)
      PROVE  UNCHANGED <<published, marker>>
  BY <1>6 DEF InspectMarker, UnlinkFails, SymlinkRefused, WriteTemporary,
              WriteTemporaryFails, SwapFails, Crash, Begin
<1>7. QED
  BY <1>1, <1>2, <1>3, <1>4, <1>5, <1>6 DEF Next, Mark

(* No step replaces or changes a checkpoint that is published, so a resume *)
(* reads what some save wrote (the no-clobber rule of                      *)
(* write_staged_directory).                                                *)
THEOREM CheckpointsAreImmutable == Spec => PublishedForever
<1>1. ASSUME IInv, [Next]_storeVars
      PROVE  \A s \in Steps : published[s] # Absent => published'[s] = published[s]
  BY <1>1, StepEffect DEF IInv, TypeOK, Published, Marked, Unmarked
<1>2. QED
  BY <1>1, StoreInvariant, PTL DEF Spec, PublishedForever

(* A directory the user put at `checkpoints/last` is never removed         *)
(* (remove_last_marker and refuse_non_marker refuse it).                   *)
THEOREM UserDirectorySurvives == Spec => UserDirectoryKept
<1>1. ASSUME IInv, [Next]_storeVars
      PROVE  marker = UserDirectory => marker' = UserDirectory
  BY <1>1, StepEffect DEF Published, Marked, Unmarked, UserDirectory
<1>2. QED
  BY <1>1, StoreInvariant, PTL DEF Spec, UserDirectoryKept

(* The protocol with all its failures implements the abstract directory:   *)
(* one atomic publication per save, and a marker that only names what is   *)
(* published.                                                              *)
THEOREM StoreImplementsDir == Spec => ImplementsCheckpointDir
<1> USE StoreAssumption
<1>1. Init => Dir!Init
  BY DEF Init, Dir!Init, PublishedSnapshots, LastStep, NoMarker, UserDirectory
<1>2. ASSUME IInv, [Next]_storeVars
      PROVE  [Dir!Next]_(Dir!dirVars)
  <2>1. CASE UNCHANGED <<published, marker>>
    BY <2>1 DEF Dir!dirVars, PublishedSnapshots, LastStep
  <2>2. ASSUME NEW s \in Steps, NEW files \in Seq(Sessions), Published(s, files)
        PROVE  Dir!Next
    <3>1. files # Absent /\ files[1] \in Sessions
      BY <2>2 DEF Published, Sessions
    <3>2. PublishedSnapshots' = [PublishedSnapshots EXCEPT ![s] = files[1]]
      BY <1>2, <2>2, <3>1 DEF Published, PublishedSnapshots, IInv, TypeOK
    <3>3. PublishedSnapshots[s] = Absent /\ UNCHANGED LastStep
      BY <2>2 DEF Published, PublishedSnapshots, LastStep
    <3>4. Dir!Publish(s, files[1])
      BY <3>2, <3>3 DEF Dir!Publish
    <3>5. QED
      BY <3>1, <3>4 DEF Dir!Next
  <2>3. ASSUME NEW s \in Steps, Marked(s)
        PROVE  Dir!Next
    <3>1. published[s] # Absent /\ published[s] \in Seq(Sessions)
      BY <1>2, <2>3 DEF Marked, IInv, TypeOK
    <3>2. published[s][1] \in Sessions
      BY <1>2, <3>1 DEF IInv, PublishedWhole
    <3>3. PublishedSnapshots[s] # Absent
      BY <3>1, <3>2 DEF PublishedSnapshots, Sessions
    <3>4. LastStep' = s /\ UNCHANGED PublishedSnapshots
      BY <2>3 DEF Marked, LastStep, Link, PortableFile, PublishedSnapshots
    <3>5. QED
      BY <3>3, <3>4 DEF Dir!Next, Dir!MarkLast
  <2>4. CASE Unmarked
    <3>1. LastStep # Absent
      BY <1>2, <2>4 DEF Unmarked, LastStep, IInv, TypeOK, Markers, NoMarker,
                  UserDirectory, Link, PortableFile
    <3>2. LastStep' = Absent /\ UNCHANGED PublishedSnapshots
      BY <2>4 DEF Unmarked, LastStep, NoMarker, PublishedSnapshots
    <3>3. QED
      BY <3>1, <3>2 DEF Dir!Next, Dir!DropLast
  <2>5. QED
    BY <1>2, <2>1, <2>2, <2>3, <2>4, StepEffect
<1>3. QED
  BY <1>1, <1>2, StoreInvariant, PTL DEF Spec, ImplementsCheckpointDir, Dir!Spec

-----------------------------------------------------------------------------
(* Who fills a staging directory, and why a marker is missing              *)

StepOf(w) == (\E s \in Steps : Begin(w, s)) \/ Save(w) \/ Mark(w) \/ Crash(w)

(* A writer's step leaves the places of the others alone.                  *)
LEMMA OthersStay ==
  ASSUME IInv, NEW w \in Writers, StepOf(w), NEW v \in Writers, v # w
  PROVE  pc'[v] = pc[v] /\ build'[v] = build[v]
<1> USE DEF Leave, Goto, LeaveUnmarked, IInv, TypeOK
<1>1. (\E s \in Steps : Begin(w, s)) => pc'[v] = pc[v] /\ build'[v] = build[v]
  BY DEF Begin
<1>2. Save(w) => pc'[v] = pc[v] /\ build'[v] = build[v]
  BY DEF Save, CheckDestination, CreateStaging, CreateFails, WriteFile, WriteFails,
         CheckAgain, Rename, RenameFails
<1>3. Mark(w) => pc'[v] = pc[v] /\ build'[v] = build[v]
  BY DEF Mark, InspectMarker, UnlinkMarker, UnlinkFails, SymlinkMarker, SymlinkRefused,
         WriteTemporary, WriteTemporaryFails, SwapMarker, SwapRefused, SwapFails
<1>4. Crash(w) => pc'[v] = pc[v] /\ build'[v] = build[v]
  BY DEF Crash
<1> QED
  BY <1>1, <1>2, <1>3, <1>4 DEF StepOf

(* What a step may do to the staging directories: fill the writer's own,   *)
(* discard it, leave it orphaned, or make it.                              *)
StagingStep(w) ==
  /\ \A d \in StagingIds : d # build[w] =>
       staging'[d] = staging[d] \/ (build'[w] = d /\ pc'[w] \in Building)
  /\ pc[w] \in Building => \/ staging'[build[w]] = Absent
                           \/ build[w] \in lost'.orphaned
                           \/ build'[w] = build[w] /\ pc'[w] \in Building
  /\ lost.orphaned \subseteq lost'.orphaned

(* Marking a checkpoint or ending with an error touches no staging.        *)
LEMMA StagingSteps ==
  ASSUME IInv, NEW w \in Writers, StepOf(w)
  PROVE  StagingStep(w)
<1>1. /\ pc[w] \in Stages /\ pc \in [Writers -> Stages]
      /\ build \in [Writers -> StagingIds \cup {Absent}]
      /\ staging \in [StagingIds -> Seq(Sessions) \cup {Absent}]
      /\ pc[w] \in Building => build[w] \in StagingIds
      /\ lost \in [unmarked : SUBSET Sessions, orphaned : SUBSET StagingIds]
  BY DEF IInv, TypeOK, BuildInv
<1>2. Absent \notin StagingIds
  BY StoreAssumption
<1>3. ASSUME UNCHANGED staging, lost'.orphaned = lost.orphaned, pc[w] \notin Building
      PROVE  StagingStep(w)
  BY <1>3 DEF StagingStep
<1>4. ASSUME Discard(w), pc[w] \in Building, lost'.orphaned = lost.orphaned
      PROVE  StagingStep(w)
  BY <1>1, <1>4 DEF StagingStep, Discard
<1>5. CASE \E s \in Steps : Begin(w, s)
  BY <1>3, <1>5 DEF Begin, Building
<1>6. CASE CheckDestination(w) \/ CreateFails(w)
  BY <1>3, <1>6 DEF CheckDestination, CreateFails, Building
<1>7. ASSUME NEW d \in StagingIds, CreateStaging(w, d) PROVE StagingStep(w)
  BY <1>1, <1>7 DEF CreateStaging, StagingStep, Building, Goto
<1>8. CASE WriteFile(w)
  BY <1>1, <1>8 DEF WriteFile, StagingStep, Building
<1>9. CASE WriteFails(w) \/ RenameFails(w)
  BY <1>4, <1>9 DEF WriteFails, RenameFails, Building
<1>10. CASE CheckAgain(w)
  <2>1. CASE published[target[w]] = Absent
    BY <1>1, <1>10, <2>1 DEF CheckAgain, StagingStep, Building, Goto
  <2>2. CASE published[target[w]] # Absent
    BY <1>4, <1>10, <2>2 DEF CheckAgain, Building
  <2> QED
    BY <2>1, <2>2
<1>11. CASE Rename(w)
  BY <1>4, <1>11 DEF Rename, Building
<1>12. CASE Mark(w)
  <2>1. UNCHANGED staging /\ pc[w] \in Marking
    BY <1>12 DEF Mark, Marking, InspectMarker, UnlinkMarker, UnlinkFails, SymlinkMarker,
                 SymlinkRefused, WriteTemporary, WriteTemporaryFails, SwapMarker, SwapRefused, SwapFails
  <2>2. LeaveUnmarked(w) => lost'.orphaned = lost.orphaned
    BY <1>1 DEF LeaveUnmarked
  <2>3. lost'.orphaned = lost.orphaned
    BY <1>12, <2>2 DEF Mark, InspectMarker, UnlinkMarker, UnlinkFails, SymlinkMarker,
                 SymlinkRefused, WriteTemporary, WriteTemporaryFails, SwapMarker, SwapRefused, SwapFails
  <2> QED
    BY <1>3, <2>1, <2>3 DEF Building, Marking
<1>13. CASE Crash(w)
  <2>1. lost'.orphaned = lost.orphaned \cup ({build[w]} \ {Absent}) /\ UNCHANGED staging
    BY <1>13 DEF Crash
  <2> QED
    BY <1>1, <1>2, <2>1 DEF StagingStep
<1> QED
  BY <1>5, <1>6, <1>7, <1>8, <1>9, <1>10, <1>11, <1>12, <1>13 DEF StepOf, Save

HasBuilder ==
  \A d \in StagingIds :
    staging[d] # Absent /\ d \notin lost.orphaned =>
      \E w \in Writers : pc[w] \in Building /\ build[w] = d

LEMMA HasBuilderStep ==
  ASSUME IInv, HasBuilder, [Next]_storeVars
  PROVE  HasBuilder'
<1>1. ASSUME NEW w \in Writers, StepOf(w), NEW d \in StagingIds,
             staging'[d] # Absent, d \notin lost'.orphaned
      PROVE  \E v \in Writers : pc'[v] \in Building /\ build'[v] = d
  <2>1. StagingStep(w)
    BY <1>1, StagingSteps
  <2>2. CASE pc'[w] \in Building /\ build'[w] = d
    BY <2>2
  <2>3. CASE ~(pc'[w] \in Building /\ build'[w] = d)
    <3>1. ~(pc[w] \in Building /\ build[w] = d)
      BY <1>1, <2>1, <2>3 DEF StagingStep
    <3>2. d # build[w]
      BY <3>1, StoreAssumption DEF IInv, BuildInv
    <3>3. staging[d] # Absent /\ d \notin lost.orphaned
      BY <1>1, <2>1, <2>3, <3>2 DEF StagingStep
    <3>4. PICK v \in Writers : pc[v] \in Building /\ build[v] = d
      BY <3>3 DEF HasBuilder
    <3>5. v # w
      BY <3>2, <3>4
    <3> QED
      BY <1>1, <3>4, <3>5, OthersStay
  <2> QED
    BY <2>2, <2>3
<1>2. CASE UNCHANGED storeVars
  BY <1>2 DEF storeVars, HasBuilder
<1> QED
  BY <1>1, <1>2 DEF Next, StepOf, HasBuilder

(* Every staging directory has exactly one running save that fills it, or  *)
(* was orphaned by a crash: no error leaves one behind.                    *)
THEOREM StagingIsOwned == Spec => []StagingOwned
<1>1. Init => HasBuilder
  BY DEF Init, HasBuilder
<1>2. IInv /\ HasBuilder => StagingOwned
  <2> SUFFICES ASSUME IInv, HasBuilder, NEW d \in StagingIds,
                      staging[d] # Absent, d \notin lost.orphaned
               PROVE  \E w \in Writers : Builders(d) = {w}
    BY DEF StagingOwned
  <2>1. PICK w \in Writers : pc[w] \in Building /\ build[w] = d
    BY DEF HasBuilder
  <2>2. d # Absent
    BY StoreAssumption
  <2>3. \A v \in Writers : build[v] = d => v = w
    BY <2>1, <2>2 DEF IInv, DirsExclusive
  <2>4. Builders(d) = {w}
    BY <2>1, <2>3 DEF Builders
  <2> QED
    BY <2>4
<1> QED
  BY <1>1, <1>2, HasBuilderStep, StoreInvariant, PTL DEF Spec

(* The step of a writer after which a marker is missing: it is still to be *)
(* written, or lost, or was missing before.                                *)
MarkerStep(w) ==
  /\ lost.unmarked \subseteq lost'.unmarked
  /\ marker' = NoMarker /\ (\E s \in Steps : published'[s] # Absent) =>
       \/ pc'[w] \in Marking
       \/ lost'.unmarked # {}
       \/ pc[w] \notin Marking /\ marker = NoMarker /\ published' = published

LEMMA MarkerSteps ==
  ASSUME IInv, NEW w \in Writers, StepOf(w)
  PROVE  MarkerStep(w)
<1>1. /\ pc \in [Writers -> Stages]
      /\ lost \in [unmarked : SUBSET Sessions, orphaned : SUBSET StagingIds]
  BY DEF IInv, TypeOK
<1>2. ASSUME UNCHANGED <<marker, published, lost>>, pc[w] \notin Marking
      PROVE  MarkerStep(w)
  BY <1>2 DEF MarkerStep
<1>3. ASSUME lost' = lost, pc'[w] \in Marking PROVE MarkerStep(w)
  BY <1>3 DEF MarkerStep
<1>4. LeaveUnmarked(w) => MarkerStep(w)
  BY <1>1 DEF LeaveUnmarked, MarkerStep
<1>5. ASSUME lost' = lost, NEW s \in Steps, marker' = Link(s) \/ marker' = PortableFile(s)
      PROVE  MarkerStep(w)
  BY <1>5 DEF MarkerStep, Link, PortableFile, NoMarker
<1>6. CASE \E s \in Steps : Begin(w, s)
  BY <1>2, <1>6 DEF Begin, Marking
<1>7. CASE Save(w)
  <2>1. CASE Rename(w)
    BY <1>1, <1>3, <2>1 DEF Rename, Goto, Marking
  <2>2. CASE ~Rename(w)
    <3>1. UNCHANGED <<marker, published, lost>> /\ pc[w] \notin Marking
      BY <1>7, <2>2 DEF Save, CheckDestination, CreateStaging, CreateFails, WriteFile,
                        WriteFails, CheckAgain, RenameFails, Marking
    <3> QED
      BY <1>2, <3>1
  <2> QED
    BY <2>1, <2>2
<1>8. CASE Mark(w)
  <2>1. pc[w] \in Marking => target[w] \in Steps
    BY DEF IInv, BuildInv, Marking
  <2>2. CASE SymlinkMarker(w) \/ SwapMarker(w)
    BY <1>5, <2>1, <2>2 DEF SymlinkMarker, SwapMarker, Marking
  <2>3. CASE ~(SymlinkMarker(w) \/ SwapMarker(w))
    <3>1. \/ LeaveUnmarked(w)
          \/ lost' = lost /\ \E stage \in Marking : Goto(w, stage)
      BY <1>8, <2>3 DEF Mark, Marking, InspectMarker, UnlinkMarker, UnlinkFails,
                        SymlinkRefused, WriteTemporary, WriteTemporaryFails, SwapRefused, SwapFails
    <3> QED
      BY <1>1, <1>3, <1>4, <3>1 DEF Goto
  <2> QED
    BY <2>2, <2>3
<1>9. CASE Crash(w)
  <2>1. /\ UNCHANGED <<marker, published>>
        /\ lost'.unmarked = IF pc[w] \in Marking THEN lost.unmarked \cup {Me(w)} ELSE lost.unmarked
    BY <1>9 DEF Crash
  <2> QED
    BY <2>1 DEF MarkerStep
<1> QED
  BY <1>6, <1>7, <1>8, <1>9 DEF StepOf

LEMMA MarkerMissingStep ==
  ASSUME IInv, MarkerMissingExplained, [Next]_storeVars
  PROVE  MarkerMissingExplained'
<1>1. ASSUME NEW w \in Writers, StepOf(w), marker' = NoMarker,
             \E s \in Steps : published'[s] # Absent, lost'.unmarked = {}
      PROVE  \E v \in Writers : pc'[v] \in Marking
  <2>1. MarkerStep(w)
    BY <1>1, MarkerSteps
  <2>2. CASE pc'[w] \notin Marking
    <3>1. pc[w] \notin Marking /\ marker = NoMarker /\ published' = published
      BY <1>1, <2>1, <2>2 DEF MarkerStep
    <3>2. lost.unmarked = {}
      BY <1>1, <2>1 DEF MarkerStep
    <3>3. PICK v \in Writers : pc[v] \in Marking
      BY <1>1, <3>1, <3>2 DEF MarkerMissingExplained
    <3> QED
      BY <1>1, <3>1, <3>3, OthersStay
  <2> QED
    BY <2>2
<1>2. CASE UNCHANGED storeVars
  BY <1>2 DEF storeVars, MarkerMissingExplained
<1> QED
  BY <1>1, <1>2 DEF Next, StepOf, MarkerMissingExplained

(* Where checkpoints stand without a marker, a save is about to write it,  *)
(* or ended, by an error or a crash, in the window where it is missing.    *)
THEOREM MissingMarkerIsExplained == Spec => []MarkerMissingExplained
<1>1. Init => MarkerMissingExplained
  BY DEF Init, MarkerMissingExplained
<1> QED
  BY <1>1, MarkerMissingStep, StoreInvariant, PTL DEF Spec

==============================================================================
