-------------------------- MODULE HubDownloadProofs --------------------------
(* What HubDownload keeps, for any number of processes, staging names,     *)
(* versions and files.                                                     *)
EXTENDS HubDownload, FiniteSetTheorems, TLAPS

(***************************************************************************)
(* Types                                                                   *)
(***************************************************************************)
LEMMA EmptyIsDirectory == Empty \in Directories /\ DOMAIN Empty = {}
<1>1. Empty \in [{} -> Versions \cup {Foreign}] /\ DOMAIN Empty = {}
  BY DEF Empty
<1> QED
  BY <1>1 DEF Directories

(* A directory is a function from some of the files, and every such        *)
(* function is one.                                                        *)
LEMMA DirectoryIsFunction ==
  ASSUME NEW m \in Directories
  PROVE  DOMAIN m \subseteq Files /\ m \in [DOMAIN m -> Versions \cup {Foreign}]
BY DEF Directories

LEMMA FileAdded ==
  ASSUME NEW m \in Directories, NEW f \in Files, NEW v \in Versions
  PROVE  [g \in DOMAIN m \cup {f} |-> IF g = f THEN v ELSE m[g]] \in Directories
<1> DEFINE s == DOMAIN m \cup {f}
           n == [g \in s |-> IF g = f THEN v ELSE m[g]]
<1>1. s \in SUBSET Files
  BY DirectoryIsFunction
<1>2. n \in [s -> Versions \cup {Foreign}]
  BY DirectoryIsFunction
<1> QED
  BY <1>1, <1>2 DEF Directories

LEMMA ForeignDirectory ==
  ASSUME NEW s \in SUBSET Files
  PROVE  [f \in s |-> Foreign] \in Directories
<1>1. [f \in s |-> Foreign] \in [s -> Versions \cup {Foreign}]
  OBVIOUS
<1> QED
  BY <1>1 DEF Directories

(* Sets of files are finite, and a proper part of one is smaller.          *)
LEMMA FilesCounted ==
  ASSUME NEW S \in SUBSET Files
  PROVE  /\ Cardinality(S) \in Nat
         /\ Cardinality(S) <= Cardinality(Files)
         /\ \A T \in SUBSET S : T # S => Cardinality(T) < Cardinality(S)
<1>1. IsFiniteSet(Files) /\ Cardinality(Files) \in Nat
  BY HubAssumption, FS_CardinalityType DEF HubAssumption
<1>2. IsFiniteSet(S) /\ Cardinality(S) <= Cardinality(Files) /\ Cardinality(S) \in Nat
  BY <1>1, FS_Subset, FS_CardinalityType
<1>3. ASSUME NEW T \in SUBSET S, T # S PROVE Cardinality(T) < Cardinality(S)
  <2>1. IsFiniteSet(T) /\ Cardinality(T) <= Cardinality(S) /\ Cardinality(T) # Cardinality(S)
    BY <1>2, <1>3, FS_Subset
  <2>2. Cardinality(T) \in Nat
    BY <2>1, FS_CardinalityType
  <2> QED
    BY <1>2, <2>1, <2>2
<1> QED
  BY <1>2, <1>3

(* The steps of a call between its beginning and its end.                  *)
Inside == {"inspect", "list", "stage", "fetch"}

(* Who is fetching has a staging directory, with none but listed files in  *)
(* it, and nobody else has that one.                                       *)
Owned ==
  /\ \A p \in Processes :
       IF pc[p] = "fetch"
       THEN /\ dir[p] \in StagingIds
            /\ staging[dir[p]] # Absent
            /\ DOMAIN staging[dir[p]] \subseteq listed[p]
       ELSE dir[p] = Absent
  /\ \A p, q \in Processes : p # q /\ dir[p] = dir[q] => dir[p] = Absent

(* A root that is missing holds no files, one that a call has returned is  *)
(* complete.                                                               *)
RootInv ==
  /\ target.kind = "none" => target.files = Empty
  /\ OkMeansComplete

HubInv == TypeOK /\ Owned /\ RootInv /\ NoLitter

(* Ending a call in whatever way leaves types and ownership as they must be. *)
LEMMA ReturnKeeps ==
  ASSUME HubInv, NEW p \in Processes, NEW result \in Returned,
         Return(p, result), target' \in [kind : {"none", "link", "directory"}, files : Directories],
         UNCHANGED <<head, orphans>>
  PROVE  TypeOK' /\ Owned' /\ NoLitter'
<1> USE DEF HubInv, Return, Goto, Returned
<1>1. TypeOK'
  BY HubAssumption DEF TypeOK
<1>2. Owned'
  BY HubAssumption DEF TypeOK, Owned
<1>3. NoLitter'
  BY HubAssumption DEF TypeOK, Owned, NoLitter
<1> QED
  BY <1>1, <1>2, <1>3

(* One case for each action.                                               *)
LEMMA HubStep ==
  ASSUME HubInv, [Next]_hubVars
  PROVE  HubInv'
<1> USE DEF HubInv
<1> DEFINE Kinds == {"none", "link", "directory"}
           Targets == [kind : Kinds, files : Directories]
<1>1. ASSUME NEW p \in Processes, Begin(p) PROVE HubInv'
  <2> USE <1>1 DEF Begin, Goto
  <2>1. TypeOK'
    BY DEF TypeOK, Returned
  <2>2. Owned'
    BY DEF Owned, TypeOK, Returned
  <2>3. RootInv' /\ NoLitter'
    BY DEF RootInv, OkMeansComplete, IsComplete, NoLitter, TypeOK
  <2> QED
    BY <2>1, <2>2, <2>3
<1>2. ASSUME NEW p \in Processes, Inspect(p) PROVE HubInv'
  <2> USE <1>2 DEF Inspect, Goto
  <2>1. TypeOK'
    BY DEF TypeOK, Returned
  <2>2. Owned'
    BY DEF Owned, TypeOK
  <2>3. RootInv' /\ NoLitter'
    BY DEF RootInv, OkMeansComplete, IsComplete, NoLitter, TypeOK
  <2> QED
    BY <2>1, <2>2, <2>3
<1>3. ASSUME NEW p \in Processes, ListPage(p) PROVE HubInv'
  <2>1. PICK paths \in SUBSET Files, count \in Nat, last \in BOOLEAN :
          Listing(p, paths, count, last)
    <3>1. PICK page \in SUBSET Trees[head], last \in BOOLEAN :
            Listing(p, listed[p] \cup page, entries[p] + Cardinality(page), last)
      BY <1>3 DEF ListPage
    <3>2. Trees[head] \subseteq Files /\ listed[p] \subseteq Files /\ entries[p] \in Nat
      BY HubAssumption DEF HubAssumption, TypeOK
    <3>3. Cardinality(page) \in Nat
      BY <3>2, FilesCounted
    <3>4. /\ listed[p] \cup page \in SUBSET Files
          /\ entries[p] + Cardinality(page) \in Nat
      BY <3>2, <3>3
    <3> QED
      BY <3>1, <3>4
  <2>2. pc[p] = "list" /\ UNCHANGED <<target, head, orphans>>
    BY <1>3 DEF ListPage
  <2>3. target \in Targets
    BY DEF TypeOK
  <2>4. CASE Return(p, "failed")
    <3>1. TypeOK' /\ Owned' /\ NoLitter'
      BY <2>2, <2>3, <2>4, ReturnKeeps DEF Returned
    <3>2. RootInv'
      BY <2>2, <2>4 DEF RootInv, OkMeansComplete, IsComplete, Return, Goto, TypeOK
    <3> QED
      BY <3>1, <3>2
  <2>5. CASE /\ ~(count > MaxFiles)
             /\ listed' = [listed EXCEPT ![p] = paths]
             /\ entries' = [entries EXCEPT ![p] = count]
             /\ Goto(p, IF last THEN "stage" ELSE "list")
             /\ UNCHANGED <<staging, dir>>
    <3> USE <2>2, <2>5 DEF Goto
    <3>1. count \in 0..MaxFiles
      BY HubAssumption DEF HubAssumption
    <3>2. entries' \in [Processes -> 0..MaxFiles]
      BY <3>1 DEF TypeOK
    <3>3. TypeOK'
      BY <3>2 DEF TypeOK, Returned
    <3>4. Owned'
      BY DEF Owned, TypeOK
    <3>5. RootInv' /\ NoLitter'
      BY DEF RootInv, OkMeansComplete, IsComplete, NoLitter, TypeOK
    <3> QED
      BY <3>3, <3>4, <3>5
  <2> QED
    BY <2>1, <2>4, <2>5 DEF Listing
<1>4. ASSUME NEW p \in Processes, CreateStaging(p) PROVE HubInv'
  <2> USE <1>4 DEF CreateStaging, Goto
  <2>1. PICK d \in StagingIds :
          /\ staging[d] = Absent
          /\ staging' = [staging EXCEPT ![d] = Empty]
          /\ dir' = [dir EXCEPT ![p] = d]
    OBVIOUS
  <2>2. Empty # Absent /\ Empty \in Directories /\ DOMAIN Empty = {}
    BY EmptyIsDirectory, HubAssumption DEF HubAssumption
  <2>3. TypeOK'
    BY <2>1, <2>2 DEF TypeOK, Returned
  <2>4. Owned'
    BY <2>1, <2>2 DEF Owned, TypeOK
  <2>5. RootInv' /\ NoLitter'
    BY <2>1, <2>2, HubAssumption
       DEF RootInv, OkMeansComplete, IsComplete, NoLitter, TypeOK, Owned, HubAssumption
  <2> QED
    BY <2>3, <2>4, <2>5
<1>5. ASSUME NEW p \in Processes, FetchFile(p) PROVE HubInv'
  <2> DEFINE m == staging[dir[p]]
  <2>1. /\ pc[p] = "fetch" /\ dir[p] \in StagingIds
        /\ m \in Directories /\ DOMAIN m \subseteq listed[p]
    BY <1>5 DEF FetchFile, Owned, TypeOK
  <2>2. PICK f \in Missing(p) \cap Trees[head] :
          staging' = [staging EXCEPT ![dir[p]] =
            [g \in DOMAIN m \cup {f} |-> IF g = f THEN head ELSE m[g]]]
    BY <1>5 DEF FetchFile
  <2>3. f \in listed[p] /\ f \in Files
    BY <2>2 DEF Missing, TypeOK
  <2> DEFINE n == [g \in DOMAIN m \cup {f} |-> IF g = f THEN head ELSE m[g]]
  <2>4. n \in Directories /\ n # Absent /\ DOMAIN n \subseteq listed[p]
    <3> HIDE DEF m
    <3>1. head \in Versions
      BY DEF TypeOK
    <3>2. n \in Directories
      BY <2>1, <2>3, <3>1, FileAdded
    <3>3. DOMAIN n = DOMAIN m \cup {f}
      OBVIOUS
    <3> HIDE DEF n
    <3> QED
      BY <2>1, <2>3, <3>2, <3>3, HubAssumption DEF HubAssumption
  <2>5. /\ staging' = [staging EXCEPT ![dir[p]] = n]
        /\ UNCHANGED <<target, head, pc, dir, listed, entries, orphans>>
    BY <1>5, <2>2 DEF FetchFile
  <2> HIDE DEF n, m
  <2>6. TypeOK'
    BY <2>4, <2>5 DEF TypeOK
  <2>7. Owned'
    <3>1. staging'[dir[p]] = n /\ \A d \in StagingIds \ {dir[p]} : staging'[d] = staging[d]
      BY <2>1, <2>5 DEF TypeOK
    <3>2. \A q \in Processes \ {p} : dir[q] # dir[p]
      BY <2>1, HubAssumption DEF Owned, HubAssumption
    <3>3. UNCHANGED <<pc, dir, listed>>
      BY <2>5
    <3> QED
      BY <2>4, <3>1, <3>2, <3>3 DEF Owned
  <2>8. RootInv' /\ NoLitter'
    BY <2>1, <2>5 DEF RootInv, OkMeansComplete, IsComplete, NoLitter, TypeOK
  <2> QED
    BY <2>6, <2>7, <2>8
<1>6. ASSUME NEW p \in Processes, Fail(p) \/ RenameFails(p) PROVE HubInv'
  <2>1. Return(p, "failed") /\ UNCHANGED <<target, head, orphans>>
    BY <1>6 DEF Fail, RenameFails
  <2>2. TypeOK' /\ Owned' /\ NoLitter'
    BY <2>1, ReturnKeeps DEF Returned, TypeOK
  <2>3. RootInv'
    BY <2>1 DEF RootInv, OkMeansComplete, IsComplete, Return, Goto, TypeOK
  <2> QED
    BY <2>2, <2>3
<1>7. ASSUME NEW p \in Processes, Publish(p) PROVE HubInv'
  <2>1. /\ Return(p, "ok") /\ UNCHANGED <<head, orphans>>
        /\ target' = [kind |-> "directory", files |-> Fetched(p)]
        /\ IsComplete(Fetched(p))
    BY <1>7 DEF Publish
  <2>2. Fetched(p) \in Directories
    BY <1>7 DEF Publish, Fetched, Owned, TypeOK
  <2>3. TypeOK' /\ Owned' /\ NoLitter'
    BY <2>1, <2>2, ReturnKeeps DEF Returned
  <2>4. RootInv'
    BY <2>1 DEF RootInv, OkMeansComplete, IsComplete
  <2> QED
    BY <2>3, <2>4
<1>8. ASSUME NEW p \in Processes, Crash(p) PROVE HubInv'
  <2> USE <1>8 DEF Crash, Goto
  <2>1. TypeOK'
    BY HubAssumption DEF TypeOK, Returned, HubAssumption
  <2>2. Owned'
    BY HubAssumption DEF Owned, TypeOK, HubAssumption
  <2>3. RootInv' /\ NoLitter'
    BY DEF RootInv, OkMeansComplete, IsComplete, NoLitter, TypeOK
  <2> QED
    BY <2>1, <2>2, <2>3
<1>9. CASE UserMakesRoot
  <2>1. target.kind = "none" /\ UNCHANGED <<staging, head, pc, dir, listed, entries, orphans>>
    BY <1>9 DEF UserMakesRoot
  <2>2. PICK kind \in {"link", "directory"}, s \in SUBSET Files :
          target' = [kind |-> kind, files |-> [f \in s |-> Foreign]]
    BY <1>9 DEF UserMakesRoot
  <2>3. target' \in Targets /\ target'.kind # "none"
    BY <2>2, ForeignDirectory
  <2>4. TypeOK' /\ Owned' /\ NoLitter'
    BY <2>1, <2>3 DEF TypeOK, Owned, NoLitter
  <2>5. \A p \in Processes : pc[p] = "ok" => Required = {}
    BY <2>1, EmptyIsDirectory DEF RootInv, OkMeansComplete, IsComplete
  <2>6. RootInv'
    BY <2>1, <2>3, <2>5 DEF RootInv, OkMeansComplete, IsComplete
  <2> QED
    BY <2>4, <2>6
<1>10. CASE HubMoves
  BY <1>10 DEF HubMoves, TypeOK, Owned, RootInv, OkMeansComplete, IsComplete, NoLitter
<1>11. CASE UNCHANGED hubVars
  BY <1>11 DEF hubVars, TypeOK, Owned, RootInv, OkMeansComplete, IsComplete, NoLitter
<1> QED
  BY <1>1, <1>2, <1>3, <1>4, <1>5, <1>6, <1>7, <1>8, <1>9, <1>10, <1>11 DEF Next, Work

(* What is always true of the downloads of one root.                       *)
THEOREM HubInvariant == Spec => []HubInv
<1>1. Init => HubInv
  <2> SUFFICES ASSUME Init PROVE HubInv
    OBVIOUS
  <2>1. TypeOK
    BY EmptyIsDirectory, HubAssumption DEF Init, TypeOK, Returned, HubAssumption
  <2>2. Owned /\ RootInv /\ NoLitter
    BY DEF Init, Owned, RootInv, OkMeansComplete, NoLitter
  <2> QED
    BY <2>1, <2>2 DEF HubInv
<1>2. HubInv /\ [Next]_hubVars => HubInv'
  BY HubStep
<1> QED
  BY <1>1, <1>2, PTL DEF Spec

(* resolve_dataset_root and download keep root, staging directories and    *)
(* lists of files in their types.                                          *)
THEOREM HubTypeCorrect == Spec => []TypeOK
BY HubInvariant, PTL DEF HubInv

(* A root that a call has returned is complete and stays so, whatever      *)
(* other processes do and whoever makes the root.                          *)
THEOREM ReturnedRootIsComplete == Spec => []OkMeansComplete
BY HubInvariant, PTL DEF HubInv, RootInv

(* A call that ends with an error leaves no staging directory behind.      *)
THEOREM ErrorsLeaveNoLitter == Spec => []NoLitter
BY HubInvariant, PTL DEF HubInv

(***************************************************************************)
(* What a step may never do                                                *)
(***************************************************************************)
(* A root that holds any file is never written to: neither the rename nor  *)
(* anything else a call does touches it.                                   *)
THEOREM RootNeverTouched == Spec => RootKept
<1>1. HubInv /\ [Next]_hubVars => [target.files # Empty => target' = target]_hubVars
  <2> SUFFICES ASSUME HubInv, [Next]_hubVars, target.files # Empty
               PROVE  target' = target
    OBVIOUS
  <2>1. target.kind # "none"
    BY DEF HubInv, RootInv
  <2>2. ASSUME NEW p \in Processes, Begin(p) \/ Work(p) \/ Crash(p)
        PROVE  target' = target
    BY <2>1, <2>2 DEF Begin, Work, Inspect, ListPage, CreateStaging, FetchFile,
                      Fail, Publish, RenameFails, Crash
  <2> QED
    BY <2>1, <2>2 DEF Next, UserMakesRoot, HubMoves, hubVars
<1> QED
  BY <1>1, HubInvariant, PTL DEF Spec, RootKept

(* The rename publishes all the files of the tree and only those, and they *)
(* were fetched by the call that publishes them.                           *)
THEOREM DownloadsPublishedWhole == Spec => PublishedWhole
<1> DEFINE Whole(p) ==
      pc[p] = "fetch" /\ pc'[p] = "ok" =>
        /\ DOMAIN target'.files = listed[p]
        /\ \A q \in Processes \ {p} : dir[q] # dir[p]
<1>1. ASSUME HubInv, Next, NEW p \in Processes
      PROVE  Whole(p)
  <2> SUFFICES ASSUME pc[p] = "fetch", pc'[p] = "ok"
               PROVE  /\ DOMAIN target'.files = listed[p]
                      /\ \A q \in Processes \ {p} : dir[q] # dir[p]
    OBVIOUS
  <2> USE <1>1 DEF HubInv
  <2>1. ASSUME NEW q \in Processes \ {p}, Begin(q) \/ Work(q) \/ Crash(q)
        PROVE  FALSE
    BY <2>1 DEF TypeOK, Begin, Work, Inspect, ListPage, Listing, CreateStaging,
                FetchFile, Fail, Publish, RenameFails, Crash, Return, Goto
  <2>2. ~Begin(p) /\ ~Crash(p)
    BY DEF TypeOK, Begin, Crash, Goto, Returned
  <2>3. Work(p) => Publish(p)
    BY DEF TypeOK, Work, Inspect, ListPage, CreateStaging, FetchFile, Fail,
           RenameFails, Return, Goto
  <2>4. ~UserMakesRoot /\ ~HubMoves
    BY DEF UserMakesRoot, HubMoves
  <2>5. Publish(p)
    BY <2>1, <2>2, <2>3, <2>4 DEF Next
  <2>6. DOMAIN target'.files = listed[p]
    BY <2>5 DEF Publish, Missing, Fetched, Owned
  <2>7. \A q \in Processes \ {p} : dir[q] # dir[p]
    BY HubAssumption DEF Owned, HubAssumption
  <2> QED
    BY <2>6, <2>7
<1>2. HubInv /\ [Next]_hubVars => [\A p \in Processes : Whole(p)]_hubVars
  BY <1>1
<1> QED
  BY <1>2, HubInvariant, PTL DEF Spec, PublishedWhole

(***************************************************************************)
(* Every call comes to its end                                             *)
(***************************************************************************)
(* The steps left fall from one part of a call to the next.                *)
StepsInBounds ==
  LET n == Cardinality(Files)
  IN \A p \in Processes :
       /\ StepsLeft(p) \in Nat
       /\ pc[p] = "inspect" => StepsLeft(p) = n + MaxFiles + 4
       /\ pc[p] = "list" => StepsLeft(p) \in n + 3..n + MaxFiles + 3
       /\ pc[p] = "stage" => StepsLeft(p) = n + 2
       /\ pc[p] = "fetch" => StepsLeft(p) \in 1..n + 1
       /\ pc[p] \notin {"inspect", "list", "stage", "fetch"} => StepsLeft(p) = 0

LEMMA StepsBounded == TypeOK => StepsInBounds
<1> SUFFICES ASSUME TypeOK PROVE StepsInBounds
  OBVIOUS
<1> SUFFICES ASSUME NEW p \in Processes
    PROVE  LET n == Cardinality(Files)
           IN /\ StepsLeft(p) \in Nat
              /\ pc[p] = "inspect" => StepsLeft(p) = n + MaxFiles + 4
              /\ pc[p] = "list" => StepsLeft(p) \in n + 3..n + MaxFiles + 3
              /\ pc[p] = "stage" => StepsLeft(p) = n + 2
              /\ pc[p] = "fetch" => StepsLeft(p) \in 1..n + 1
              /\ pc[p] \notin Inside => StepsLeft(p) = 0
  BY DEF StepsInBounds, Inside
<1> DEFINE n == Cardinality(Files)
           l == MaxFiles - entries[p]
           m == Cardinality(Missing(p))
<1>1. n \in Nat /\ MaxFiles \in Nat /\ l \in 0..MaxFiles /\ m \in 0..n
  <2>1. Missing(p) \in SUBSET Files /\ entries[p] \in 0..MaxFiles
    BY DEF TypeOK, Missing
  <2> QED
    BY <2>1, FilesCounted, HubAssumption DEF HubAssumption
<1>2. StepsLeft(p) = CASE pc[p] = "inspect" -> n + MaxFiles + 4
                       [] pc[p] = "list"    -> n + 3 + l
                       [] pc[p] = "stage"   -> n + 2
                       [] pc[p] = "fetch"   -> 1 + m
                       [] OTHER             -> 0
  BY DEF StepsLeft
<1> HIDE DEF n, l, m
<1>3. pc[p] \in Inside \/ pc[p] \notin Inside
  OBVIOUS
<1>4. /\ StepsLeft(p) \in Nat
      /\ pc[p] = "inspect" => StepsLeft(p) = n + MaxFiles + 4
      /\ pc[p] = "list" => StepsLeft(p) \in n + 3..n + MaxFiles + 3
      /\ pc[p] = "stage" => StepsLeft(p) = n + 2
      /\ pc[p] = "fetch" => StepsLeft(p) \in 1..n + 1
      /\ pc[p] \notin Inside => StepsLeft(p) = 0
  BY <1>1, <1>2, <1>3 DEF Inside
<1> QED
  BY <1>4 DEF n

LEMMA StepsStayBounded == TypeOK' => StepsInBounds'
BY StepsBounded, PTL

(* A step of the call itself.                                              *)
LEMMA WorkAdvances ==
  ASSUME HubInv, HubInv', NEW p \in Processes, Work(p)
  PROVE  StepsLeft(p)' < StepsLeft(p) \/ EmptyPage(p)
<1> DEFINE n == Cardinality(Files)
<1> USE DEF HubInv
<1>1. /\ n \in Nat /\ MaxFiles \in Nat
      /\ StepsLeft(p) \in Nat /\ StepsLeft(p)' \in Nat
      /\ pc[p] = "inspect" => StepsLeft(p) = n + MaxFiles + 4
      /\ pc[p] = "list" => StepsLeft(p) \in n + 3..n + MaxFiles + 3
      /\ pc[p] = "stage" => StepsLeft(p) = n + 2
      /\ pc[p] = "fetch" => StepsLeft(p) \in 1..n + 1
      /\ pc'[p] = "list" => StepsLeft(p)' \in n + 3..n + MaxFiles + 3
      /\ pc'[p] = "stage" => StepsLeft(p)' = n + 2
      /\ pc'[p] = "fetch" => StepsLeft(p)' \in 1..n + 1
      /\ pc'[p] \notin Inside => StepsLeft(p)' = 0
  <2>1. TypeOK /\ TypeOK'
    OBVIOUS
  <2>2. n \in Nat /\ MaxFiles \in Nat
    BY HubAssumption, FS_CardinalityType DEF HubAssumption
  <2>3. StepsInBounds /\ StepsInBounds'
    BY <2>1, StepsBounded, StepsStayBounded
  <2> QED
    BY <2>2, <2>3 DEF StepsInBounds, Inside
<1> HIDE DEF n
<1>2. ASSUME pc[p] \in Inside, pc'[p] \notin Inside
      PROVE  StepsLeft(p)' < StepsLeft(p)
  BY <1>1, <1>2 DEF Inside
<1>3. ASSUME Return(p, "failed") \/ Return(p, "ok")
      PROVE  pc'[p] \notin Inside
  BY <1>3 DEF Return, Goto, TypeOK, Inside
<1>4. CASE Inspect(p)
  <2>1. pc[p] = "inspect" /\ pc'[p] \in {"list", "ok", "failed"}
    BY <1>4 DEF Inspect, Goto, TypeOK
  <2> QED
    BY <1>1, <2>1 DEF Inside
<1>5. CASE ListPage(p)
  <2>1. PICK page \in SUBSET Trees[head], last \in BOOLEAN :
          Listing(p, listed[p] \cup page, entries[p] + Cardinality(page), last)
    BY <1>5 DEF ListPage
  <2>2. pc[p] = "list" /\ Trees[head] \subseteq Files
    BY <1>5, HubAssumption DEF ListPage, TypeOK, HubAssumption
  <2>3. CASE Return(p, "failed")
    BY <1>2, <1>3, <2>2, <2>3 DEF Inside
  <2>4. CASE /\ entries' = [entries EXCEPT ![p] = entries[p] + Cardinality(page)]
             /\ Goto(p, IF last THEN "stage" ELSE "list")
    <3>1. CASE last
      BY <1>1, <2>2, <2>4, <3>1 DEF Goto, TypeOK
    <3>2. CASE ~last
      <4>1. pc'[p] = "list" /\ entries'[p] = entries[p] + Cardinality(page)
        BY <2>4, <3>2 DEF Goto, TypeOK
      <4>2. /\ entries[p] \in Nat /\ entries'[p] \in Nat /\ Cardinality(page) \in Nat
        BY <2>2, FilesCounted DEF TypeOK
      <4>3. /\ StepsLeft(p) = n + 3 + (MaxFiles - entries[p])
            /\ StepsLeft(p)' = n + 3 + (MaxFiles - entries'[p])
        BY <2>2, <4>1 DEF StepsLeft, n
      <4>4. CASE Cardinality(page) = 0
        <5>1. entries'[p] = entries[p]
          BY <4>1, <4>2, <4>4
        <5> QED
          BY <1>5, <4>1, <5>1 DEF EmptyPage
      <4>5. CASE Cardinality(page) # 0
        BY <1>1, <4>1, <4>2, <4>3, <4>5
      <4> QED
        BY <4>4, <4>5
    <3> QED
      BY <3>1, <3>2
  <2> QED
    BY <2>1, <2>3, <2>4 DEF Listing
<1>6. CASE CreateStaging(p)
  <2>1. pc[p] = "stage" /\ pc'[p] = "fetch"
    BY <1>6 DEF CreateStaging, Goto, TypeOK
  <2> QED
    BY <1>1, <2>1
<1>7. CASE FetchFile(p)
  <2>1. pc[p] = "fetch" /\ pc'[p] = "fetch" /\ dir'[p] = dir[p] /\ listed'[p] = listed[p]
    BY <1>7 DEF FetchFile
  <2>2. dir[p] \in StagingIds
    BY <2>1 DEF Owned
  <2>3. PICK f \in Missing(p) :
          DOMAIN staging'[dir[p]] = DOMAIN staging[dir[p]] \cup {f}
    BY <1>7, <2>2 DEF FetchFile, TypeOK
  <2>4. Missing(p)' = Missing(p) \ {f}
    BY <2>1, <2>3 DEF Missing, Fetched
  <2>5. Missing(p) \in SUBSET Files
    BY DEF Missing, TypeOK
  <2>6. Missing(p)' \in SUBSET Missing(p) /\ Missing(p)' # Missing(p)
    BY <2>4
  <2>7. /\ Cardinality(Missing(p)') < Cardinality(Missing(p))
        /\ Cardinality(Missing(p)) \in Nat /\ Cardinality(Missing(p)') \in Nat
    BY <2>5, <2>6, FilesCounted
  <2>8. /\ StepsLeft(p) = 1 + Cardinality(Missing(p))
        /\ StepsLeft(p)' = 1 + Cardinality(Missing(p)')
    BY <2>1 DEF StepsLeft
  <2> QED
    BY <2>7, <2>8
<1>8. CASE Fail(p) \/ Publish(p) \/ RenameFails(p)
  BY <1>2, <1>3, <1>8 DEF Fail, Publish, RenameFails, Inside
<1> QED
  BY <1>4, <1>5, <1>6, <1>7, <1>8 DEF Work

(* A step of another process: nobody else touches the staging directory.   *)
LEMMA OthersWait ==
  ASSUME HubInv, NEW p \in Processes, NEW q \in Processes, p # q,
         Begin(q) \/ Work(q) \/ Crash(q)
  PROVE  StepsLeft(p)' = StepsLeft(p)
<1> USE DEF HubInv
<1>1. /\ pc'[p] = pc[p] /\ dir'[p] = dir[p]
      /\ listed'[p] = listed[p] /\ entries'[p] = entries[p]
  BY DEF TypeOK, Begin, Work, Inspect, ListPage, Listing, CreateStaging,
         FetchFile, Fail, Publish, RenameFails, Crash, Return, Goto
<1>2. ASSUME pc[p] = "fetch" PROVE staging'[dir[p]] = staging[dir[p]]
  <2>1. dir[p] \in StagingIds /\ dir[q] # dir[p] /\ staging[dir[p]] # Absent
    BY <1>2, HubAssumption DEF Owned, HubAssumption
  <2>2. CASE Begin(q) \/ Inspect(q) \/ Crash(q)
    BY <2>2 DEF Begin, Inspect, Crash
  <2>3. ASSUME NEW r, Return(q, r) PROVE staging'[dir[p]] = staging[dir[p]]
    BY <2>1, <2>3 DEF Return
  <2>4. CASE ListPage(q)
    BY <2>3, <2>4 DEF ListPage, Listing
  <2>5. CASE CreateStaging(q)
    BY <2>1, <2>5 DEF CreateStaging, TypeOK
  <2>6. CASE FetchFile(q)
    BY <2>1, <2>6 DEF FetchFile, TypeOK
  <2>7. CASE Fail(q) \/ Publish(q) \/ RenameFails(q)
    BY <2>3, <2>7 DEF Fail, Publish, RenameFails
  <2> QED
    BY <2>2, <2>4, <2>5, <2>6, <2>7 DEF Work
<1>3. pc[p] = "fetch" => Missing(p)' = Missing(p)
  BY <1>1, <1>2 DEF Missing, Fetched
<1> QED
  BY <1>1, <1>3 DEF StepsLeft

(* Every step of a call but a page without files brings it nearer to its   *)
(* end, and nothing that other processes, users or the Hub do takes it     *)
(* back: pages that name files come to the limit, and no file is fetched a *)
(* second time.                                                            *)
THEOREM CallsAdvance == Spec => EveryStepAdvances
<1>1. ASSUME HubInv, HubInv', Next, NEW p \in Processes
      PROVE  /\ StepsLeft(p)' <= StepsLeft(p) \/ Begin(p)
             /\ Work(p) => StepsLeft(p)' < StepsLeft(p) \/ EmptyPage(p)
  <2>1. StepsLeft(p) \in Nat /\ StepsLeft(p)' \in Nat
    <3>1. TypeOK /\ TypeOK'
      BY <1>1 DEF HubInv
    <3> QED
      BY <1>1, <3>1, StepsBounded, StepsStayBounded DEF StepsInBounds
  <2>2. Work(p) => StepsLeft(p)' < StepsLeft(p) \/ EmptyPage(p)
    BY <1>1, WorkAdvances
  <2>3. EmptyPage(p) => StepsLeft(p)' = StepsLeft(p)
    BY DEF EmptyPage, ListPage, StepsLeft
  <2>4. CASE Crash(p)
    <3>1. pc'[p] = "idle"
      BY <1>1, <2>4 DEF Crash, Goto, HubInv, TypeOK
    <3>2. StepsLeft(p)' = 0
      BY <3>1 DEF StepsLeft
    <3> QED
      BY <2>1, <2>2, <3>2
  <2>5. ASSUME NEW q \in Processes \ {p}, Begin(q) \/ Work(q) \/ Crash(q)
        PROVE  StepsLeft(p)' <= StepsLeft(p)
    BY <1>1, <2>1, <2>5, OthersWait
  <2>6. CASE UserMakesRoot \/ HubMoves
    <3>1. UNCHANGED <<staging, pc, dir, listed, entries>>
      BY <2>6 DEF UserMakesRoot, HubMoves
    <3>2. StepsLeft(p)' = StepsLeft(p)
      BY <3>1 DEF StepsLeft, Missing, Fetched
    <3> QED
      BY <2>1, <2>2, <3>2
  <2> QED
    <3>1. CASE Begin(p) \/ Work(p)
      BY <2>1, <2>2, <2>3, <3>1
    <3>2. CASE \E q \in Processes \ {p} : Begin(q) \/ Work(q) \/ Crash(q)
      BY <2>1, <2>2, <2>5, <3>2
    <3> QED
      BY <1>1, <2>4, <2>6, <3>1, <3>2 DEF Next
<1>2. HubInv /\ HubInv' /\ [Next]_hubVars =>
        [\A p \in Processes :
           /\ StepsLeft(p)' <= StepsLeft(p) \/ Begin(p)
           /\ Work(p) => StepsLeft(p)' < StepsLeft(p) \/ EmptyPage(p)]_hubVars
  BY <1>1
<1> QED
  BY <1>2, HubInvariant, PTL DEF Spec, EveryStepAdvances

=============================================================================
