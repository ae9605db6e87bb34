--------------------------- MODULE DatasetReaderProofs ---------------------------
(***************************************************************************)
(* Proofs about DatasetReader: for every disk, whatever is recorded over   *)
(* it between two reads, every selection, chunk and bound.                 *)
(***************************************************************************)
EXTENDS DatasetReader, SumsProofs, FiniteSetTheorems, SequenceTheorems, TLAPS

-----------------------------------------------------------------------------
(* InOrder and ByIndex                                                     *)

(* InOrder lists each member of a set once, in increasing order.           *)
LEMMA InOrderLists ==
  ASSUME NEW n \in Nat, NEW S \in SUBSET (1..n)
  PROVE  /\ Cardinality(S) \in Nat
         /\ InOrder(S) \in [1..Cardinality(S) -> S]
         /\ \A i \in S : \E k \in 1..Cardinality(S) : InOrder(S)[k] = i
         /\ \A j, k \in 1..Cardinality(S) : InOrder(S)[j] = InOrder(S)[k] => j = k
<1> DEFINE Below(i) == {m \in S : m <= i}
           size == Cardinality(S)
           rank == [i \in S |-> Cardinality(Below(i))]
<1>1. IsFiniteSet(1..n)
  BY FS_Interval
<1>2. IsFiniteSet(S) /\ size \in Nat
  BY <1>1, FS_Subset, FS_CardinalityType
<1>3. ASSUME NEW i \in S
      PROVE  /\ IsFiniteSet(Below(i)) /\ Cardinality(Below(i)) \in 1..size
             /\ i \in Below(i)
  <2>1. Below(i) \in SUBSET S /\ i \in Below(i)
    OBVIOUS
  <2>2. IsFiniteSet(Below(i)) /\ Cardinality(Below(i)) <= size
    BY <2>1, <1>2, FS_Subset
  <2>3. Cardinality(Below(i)) \in Nat
    BY <2>2, FS_CardinalityType
  <2>4. Cardinality(Below(i)) # 0
    BY <2>1, <2>2, FS_EmptySet
  <2> QED
    BY <2>1, <2>2, <2>3, <2>4, <1>2
<1>4. ASSUME NEW i \in S, NEW j \in S, i < j
      PROVE  Cardinality(Below(i)) # Cardinality(Below(j))
  <2>0. S \subseteq Nat /\ i \in Nat /\ j \in Nat
    OBVIOUS
  <2>1. Below(i) \in SUBSET Below(j) /\ j \in Below(j) /\ j \notin Below(i)
    <3>1. \A m \in S : m <= i => m <= j
      BY <2>0, <1>4
    <3>2. j <= j /\ ~(j <= i)
      BY <2>0, <1>4
    <3> QED
      BY <3>1, <3>2
  <2>2. Below(i) # Below(j)
    BY <2>1
  <2>3. IsFiniteSet(Below(j))
    BY <1>3
  <2> QED
    BY <2>1, <2>2, <2>3, FS_Subset
<1> HIDE DEF Below
<1>5. \A i \in S : rank[i] = Cardinality(Below(i))
  OBVIOUS
<1>6. rank \in [S -> 1..size]
  BY <1>3
<1>7. \A i, j \in S : rank[i] = rank[j] => i = j
  BY <1>4, <1>5
<1> HIDE DEF rank
<1>8. rank \in Injection(S, 1..size)
  BY <1>6, <1>7 DEF Injection, IsInjective
<1>9. IsFiniteSet(1..size) /\ Cardinality(1..size) = size
  BY <1>2, FS_Interval
<1>10. rank \in Surjection(S, 1..size)
  <2> HIDE DEF size
  <2>1. Cardinality(S) = Cardinality(1..size)
    BY <1>9 DEF size
  <2> QED
    BY <2>1, <1>8, <1>9, FS_Injection
<1>11. \A k \in 1..size : \E i \in S : rank[i] = k
  BY <1>10 DEF Surjection
<1> DEFINE listed == [k \in 1..size |-> CHOOSE i \in S : rank[i] = k]
<1>81. InOrder(S) = listed
  <2>1. \A k \in 1..size : (CHOOSE i \in S : rank[i] = k)
                            = (CHOOSE i \in S : Cardinality(Below(i)) = k)
    BY <1>5
  <2> QED
    BY <2>1 DEF InOrder, Below
<1>13. \A k \in 1..size : listed[k] \in S /\ rank[listed[k]] = k
  BY <1>11
<1>14. listed \in [1..size -> S]
  BY <1>13
<1>15. ASSUME NEW i \in S PROVE \E k \in 1..size : listed[k] = i
  <2>1. rank[i] \in 1..size
    BY <1>6
  <2>2. listed[rank[i]] \in S /\ rank[listed[rank[i]]] = rank[i]
    BY <2>1, <1>13
  <2> HIDE DEF listed
  <2>3. listed[rank[i]] = i
    BY <2>2, <1>7
  <2> QED
    BY <2>1, <2>3
<1> HIDE DEF listed
<1>16. \A j, k \in 1..size : listed[j] = listed[k] => j = k
  BY <1>13
<1> QED
  BY <1>2, <1>81, <1>14, <1>15, <1>16

LEMMA InsertedTyped ==
  ASSUME NEW S, NEW sorted \in Seq(S), NEW e \in S
  PROVE  Inserted(sorted, e) \in Seq(S)
<1> DEFINE before == {i \in DOMAIN sorted : sorted[i].index <= e.index}
           n == Cardinality(before)
           a == SubSeq(sorted, 1, n)
           b == SubSeq(sorted, n + 1, Len(sorted))
           one == <<e>>
<1>1. Len(sorted) \in Nat /\ DOMAIN sorted = 1..Len(sorted)
  OBVIOUS
<1>2. IsFiniteSet(1..Len(sorted)) /\ Cardinality(1..Len(sorted)) = Len(sorted)
  BY <1>1, FS_Interval, SMTT(30)
<1>3. before \in SUBSET (1..Len(sorted))
  BY <1>1
<1> HIDE DEF before
<1>4. n \in 0..Len(sorted)
  <2>1. IsFiniteSet(before) /\ n <= Cardinality(1..Len(sorted))
    BY <1>2, <1>3, FS_Subset
  <2>2. n \in Nat
    BY <2>1, FS_CardinalityType
  <2> QED
    BY <2>1, <2>2, <1>1, <1>2
<1>5. Inserted(sorted, e) = a \o one \o b
  BY DEF Inserted, before
<1> HIDE DEF n
<1>6. a \in Seq(S) /\ b \in Seq(S) /\ one \in Seq(S)
  BY <1>4
<1> HIDE DEF a, b, one
<1>7. a \o one \in Seq(S)
  BY <1>6, ConcatProperties
<1> DEFINE c == a \o one
<1> HIDE DEF c
<1>8. c \o b \in Seq(S)
  BY <1>6, <1>7, ConcatProperties DEF c
<1> QED
  BY <1>5, <1>8 DEF c

(* What is sorted are the same rows.                                       *)
LEMMA ByIndexTyped ==
  ASSUME NEW S, NEW episodes \in Seq(S)
  PROVE  ByIndex(episodes) \in Seq(S)
<1> DEFINE last == Len(episodes)
           step == [n \in 1..last |-> [sorted \in Seq(S) |-> Inserted(sorted, episodes[n])]]
           Step(h) == [n \in 0..last |->
                        IF n = 0 THEN <<>> ELSE Inserted(h[n - 1], episodes[n])]
           F == CHOOSE h : h = Step(h)
<1>1. last \in Nat /\ \A n \in 1..last : episodes[n] \in S
  OBVIOUS
<1>2. ByIndex(episodes) = F[last]
  BY DEF ByIndex
<1> HIDE DEF last
<1>3. step \in [1..last -> [Seq(S) -> Seq(S)]]
  BY <1>1, InsertedTyped
<1>4. \A n \in 1..last, sorted \in Seq(S) : step[n][sorted] = Inserted(sorted, episodes[n])
  OBVIOUS
<1> HIDE DEF step
<1>5. PICK T, none : T = Seq(S) /\ none = <<>>
  OBVIOUS
<1>6. none \in T
  BY <1>5
<1>7. IsRecursion(T, none, last, step)
  BY <1>1, <1>3, <1>5, <1>6 DEF IsRecursion
<1>8. PICK f : Solves(f, T, none, last, step)
  BY <1>7, RecursionExists
<1>9. /\ f \in [0..last -> Seq(S)] /\ f[0] = <<>>
      /\ \A n \in 1..last : f[n] = step[n][f[n - 1]]
  BY <1>5, <1>8 DEF Solves
<1>10. f = Step(f)
  <2>1. ASSUME NEW n \in 0..last PROVE f[n] = Step(f)[n]
    <3>1. CASE n = 0
      BY <3>1, <1>9
    <3>2. CASE n # 0
      <4>1. n \in 1..last /\ n - 1 \in 0..last
        BY <3>2, <1>1
      <4>2. f[n - 1] \in Seq(S)
        BY <4>1, <1>9
      <4>3. f[n] = Inserted(f[n - 1], episodes[n])
        BY <4>1, <4>2, <1>4, <1>9
      <4> QED
        BY <3>2, <4>3
    <3> QED
      BY <3>1, <3>2
  <2> QED
    BY <2>1, <1>9
<1>11. F = Step(F)
  <2> HIDE DEF Step
  <2> QED
    BY <1>10
<1> DEFINE Good == {n \in Nat : n <= last => F[n] \in Seq(S)}
<1> HIDE DEF F
<1>81. F[0] = <<>> /\ \A n \in 1..last : F[n] = Inserted(F[n - 1], episodes[n])
  <2>1. \A n \in 0..last : F[n] = IF n = 0 THEN <<>> ELSE Inserted(F[n - 1], episodes[n])
    BY <1>11
  <2> QED
    BY <2>1, <1>1
<1>13. 0 \in Good
  <2>1. F[0] \in Seq(S)
    BY <1>81
  <2> QED
    BY <2>1
<1>14. ASSUME NEW n \in Good PROVE n + 1 \in Good
  <2>1. n \in Nat /\ (n <= last => F[n] \in Seq(S))
    BY <1>14
  <2>2. ASSUME n + 1 <= last PROVE F[n + 1] \in Seq(S)
    <3>1. n + 1 \in 1..last /\ (n + 1) - 1 = n /\ n <= last
      BY <2>1, <2>2, <1>1
    <3>2. F[n + 1] = Inserted(F[n], episodes[n + 1])
      BY <3>1, <1>81
    <3>3. F[n] \in Seq(S) /\ episodes[n + 1] \in S
      BY <3>1, <2>1, <1>1
    <3> QED
      BY <3>2, <3>3, InsertedTyped
  <2> QED
    BY <2>1, <2>2
<1>15. Good \in SUBSET Nat
  OBVIOUS
<1>16. Good = Nat
  <2> HIDE DEF Good
  <2> QED
    BY <1>13, <1>14, <1>15, SetInduction
<1> QED
  BY <1>1, <1>2, <1>16

-----------------------------------------------------------------------------
(* The metadata                                                            *)

(* Accepted episodes tile the frames: each lies within them, and before    *)
(* every later one.                                                        *)
LEMMA EpisodesTile ==
  ASSUME NEW info, NEW episodes \in Seq(EpisodeRows), EpisodesAccepted(info, episodes)
  PROVE  /\ \A i \in 1..Len(episodes) :
              /\ episodes[i].index = i - 1
              /\ episodes[i].from \in Int /\ episodes[i].to \in Int /\ episodes[i].length \in Int
              /\ 0 <= episodes[i].from /\ episodes[i].from < episodes[i].to
              /\ episodes[i].to <= info.frames
              /\ episodes[i].length = episodes[i].to - episodes[i].from
         /\ \A i, j \in 1..Len(episodes) : i < j => episodes[i].to <= episodes[j].from
<1> DEFINE n == Len(episodes)
<1>1. n \in Nat /\ DOMAIN episodes = 1..n
  OBVIOUS
<1>2. \A i \in 1..n : /\ episodes[i].from \in Int /\ episodes[i].to \in Int
                      /\ episodes[i].length \in Int
  <2> TAKE i \in 1..n
  <2>1. episodes[i] \in EpisodeRows
    BY <1>1
  <2> QED
    BY <2>1 DEF EpisodeRows
<1>3. \A i \in 1..n : /\ episodes[i].index = i - 1
                      /\ episodes[i].length > 0
                      /\ episodes[i].to - episodes[i].from = episodes[i].length
                      /\ episodes[i].from = IF i = 1 THEN 0 ELSE episodes[i - 1].to
  BY <1>1 DEF EpisodesAccepted
<1>4. n > 0 => info.frames = episodes[n].to
  <2>1. info.frames = IF episodes = <<>> THEN 0 ELSE Last(episodes).to
    BY DEF EpisodesAccepted
  <2>2. n > 0 => episodes # <<>>
    OBVIOUS
  <2> QED
    BY <2>1, <2>2 DEF Last
<1> HIDE DEF n
<1>5. \A i \in 1..n : episodes[i].from < episodes[i].to
  BY <1>2, <1>3
<1> DEFINE Apart == {d \in Nat : \A i \in 1..n :
                       i + 1 + d <= n => episodes[i].to <= episodes[i + 1 + d].from}
<1>6. 0 \in Apart
  <2>1. ASSUME NEW i \in 1..n, i + 1 + 0 <= n PROVE episodes[i].to <= episodes[i + 1 + 0].from
    <3>1. i + 1 \in 1..n /\ i + 1 # 1 /\ (i + 1) - 1 = i /\ i + 1 + 0 = i + 1
      BY <2>1, <1>1
    <3>2. episodes[i + 1].from = episodes[i].to
      BY <3>1, <1>3
    <3> QED
      BY <3>1, <3>2, <1>2
  <2> QED
    BY <2>1
<1>7. ASSUME NEW d \in Apart PROVE d + 1 \in Apart
  <2>1. d \in Nat
    BY <1>7
  <2>2. ASSUME NEW i \in 1..n, i + 1 + (d + 1) <= n
        PROVE  episodes[i].to <= episodes[i + 1 + (d + 1)].from
    <3> DEFINE k == i + 1 + d
    <3>1. k \in 1..n /\ k + 1 \in 1..n /\ k + 1 # 1 /\ (k + 1) - 1 = k /\ i + 1 + (d + 1) = k + 1
      BY <2>1, <2>2, <1>1
    <3>2. episodes[i].to <= episodes[k].from
      BY <3>1, <1>7
    <3> HIDE DEF k
    <3>3. episodes[k + 1].from = episodes[k].to /\ episodes[k].from < episodes[k].to
      BY <3>1, <1>3, <1>5
    <3> QED
      BY <3>1, <3>2, <3>3, <1>2
  <2> QED
    BY <2>1, <2>2
<1>8. Apart \in SUBSET Nat
  OBVIOUS
<1>9. Apart = Nat
  <2> HIDE DEF Apart
  <2> QED
    BY <1>6, <1>7, <1>8, SetInduction
<1>10. ASSUME NEW i \in 1..n, NEW j \in 1..n, i < j PROVE episodes[i].to <= episodes[j].from
  <2>1. j - i - 1 \in Nat /\ i + 1 + (j - i - 1) = j /\ j <= n
    BY <1>1, <1>10
  <2>2. j - i - 1 \in Apart
    BY <2>1, <1>9
  <2>3. i + 1 + (j - i - 1) <= n => episodes[i].to <= episodes[i + 1 + (j - i - 1)].from
    BY <2>2
  <2> QED
    BY <2>1, <2>3
<1>11. ASSUME NEW i \in 1..n PROVE 0 <= episodes[i].from /\ episodes[i].to <= info.frames
  <2>1. 1 \in 1..n /\ n \in 1..n /\ n > 0
    BY <1>1
  <2>2. 0 <= episodes[i].from
    <3>1. CASE i = 1
      BY <3>1, <1>3
    <3>2. CASE i # 1
      <4>1. episodes[1].to <= episodes[i].from
        BY <2>1, <3>2, <1>1, <1>10
      <4>2. episodes[1].from = 0
        BY <2>1, <1>3
      <4> QED
        BY <2>1, <4>1, <4>2, <1>2, <1>5
    <3> QED
      BY <3>1, <3>2
  <2>3. episodes[i].to <= episodes[n].to
    <3>1. CASE i = n
      BY <3>1, <1>2
    <3>2. CASE i # n
      <4>1. episodes[i].to <= episodes[n].from
        BY <2>1, <3>2, <1>1, <1>10
      <4> QED
        BY <2>1, <4>1, <1>2, <1>5
    <3> QED
      BY <3>1, <3>2
  <2> QED
    BY <2>1, <2>2, <2>3, <1>4
<1> QED
  BY <1>2, <1>3, <1>5, <1>10, <1>11 DEF n

-----------------------------------------------------------------------------
(* How far a session has come, and what is known by then                   *)

AllDisks == Disks \cup Rewrites

Metas ==
  [info : {d.info : d \in AllDisks} \cup {Absent}, stats : {d.stats : d \in AllDisks} \cup {Absent},
   tasks : {d.tasks : d \in AllDisks} \cup {Absent}, episodes : Seq(EpisodeRows)]

ReaderTypeOK ==
  /\ disk \in AllDisks
  /\ stage \in {"info", "episodes", "windows", "files", "loaded", "ready", "refused"}
  /\ pass \in 1..3
  /\ chunk \in Chunks /\ drop \in Drops
  /\ meta \in Metas
  /\ readFiles \in Nat
  /\ rows \in Seq(FrameRows)

(* The checks that lie behind a stage still hold in it: nothing they were  *)
(* made of is read again, whatever is recorded meanwhile.                  *)
Checked ==
  /\ pass # 1 => fps \in Int /\ fps > 0
  /\ stage \notin {"info", "refused"} =>
       meta.info \in {d.info : d \in AllDisks} /\ InfoAccepted(meta.info)
  /\ stage \in {"windows", "files", "loaded", "ready"} =>
       pass = 3 /\ EpisodesAccepted(meta.info, meta.episodes)
  /\ stage \in {"files", "loaded", "ready"} => "action" \in DOMAIN meta.info.features
  /\ stage \in {"loaded", "ready"} => Consistent
  /\ stage # "ready" => frame = Absent

LoadInv == ReaderTypeOK /\ Checked

LEMMA DiskTyped ==
  ASSUME NEW d \in AllDisks
  PROVE  /\ d.info.fps \in Int /\ d.info.frames \in Int
         /\ d.episodeFiles \in Seq([readable : BOOLEAN, rows : Seq(EpisodeRows)])
         /\ \A name \in DOMAIN d.files : d.files[name].rows \in Seq(FrameRows)
<1>1. d \in Disks \cup Rewrites
  BY DEF AllDisks
<1>2. /\ d.info.fps \in Int /\ d.info.frames \in Int
      /\ d.episodeFiles \in Seq([readable : BOOLEAN, rows : Seq(EpisodeRows)])
      /\ \A name \in DOMAIN d.files : d.files[name].rows \in Seq(RowsOf(d))
  BY <1>1, ReaderAssumption
<1>3. RowsOf(d) \subseteq FrameRows
  BY <1>1 DEF FrameRows
<1>4. ASSUME NEW name \in DOMAIN d.files PROVE d.files[name].rows \in Seq(FrameRows)
  BY <1>2, <1>3
<1> QED
  BY <1>2, <1>4

LEMMA RowTyped ==
  ASSUME NEW row \in FrameRows
  PROVE  row.index \in Int /\ row.episode \in Int
<1>1. PICK d \in Disks \cup Rewrites : row \in RowsOf(d)
  BY DEF FrameRows
<1> QED
  BY <1>1, ReaderAssumption

LEMMA MetaTyped ==
  ASSUME NEW m \in Metas, NEW episodes \in Seq(EpisodeRows)
  PROVE  /\ [m EXCEPT !.episodes = episodes] \in Metas
         /\ [m EXCEPT !.episodes = episodes].episodes = episodes
         /\ [m EXCEPT !.episodes = episodes].info = m.info
BY DEF Metas

LEMMA MetaRead ==
  ASSUME NEW d \in AllDisks
  PROVE  [info |-> d.info, stats |-> d.stats, tasks |-> d.tasks, episodes |-> <<>>] \in Metas
<1>1. <<>> \in Seq(EpisodeRows)
  OBVIOUS
<1> QED
  BY <1>1 DEF Metas

(* What the later stages rest on does not change.                          *)
LEMMA ConsistentKept ==
  ASSUME UNCHANGED table
  PROVE  Consistent' = Consistent
BY DEF table, Consistent, EpisodeOf

LEMMA LoadInitially == ReaderInit => LoadInv
<1> SUFFICES ASSUME ReaderInit PROVE LoadInv
  OBVIOUS
<1>1. /\ disk \in Disks /\ stage = "info" /\ pass = 1 /\ chunk \in Chunks /\ drop \in Drops
      /\ meta = NoMeta /\ readFiles = 0 /\ rows = <<>> /\ frame = Absent
  BY DEF ReaderInit
<1>2. meta \in Metas
  BY <1>1 DEF NoMeta, Metas
<1> QED
  BY <1>1, <1>2 DEF LoadInv, ReaderTypeOK, Checked, AllDisks

LEMMA LoadKeeps ==
  ASSUME LoadInv, [ReaderNext]_readerVars
  PROVE  LoadInv'
<1> USE DEF source, request, table
<1>0. ReaderTypeOK /\ Checked
  BY DEF LoadInv
<1>1. CASE Rewrite
  <2>1. /\ disk' \in AllDisks
        /\ UNCHANGED <<stage, pass, request, fps, wanted, table, readFiles, drop, sampler, frame>>
    BY <1>1 DEF Rewrite, AllDisks
  <2>2. Consistent' = Consistent
    BY <2>1, ConsistentKept
  <2> QED
    BY <2>1, <2>2, <1>0 DEF LoadInv, ReaderTypeOK, Checked
<1>11. ASSUME NEW s \in {"info", "episodes", "windows", "files", "loaded"}, Reading(s), Refuse
      PROVE  LoadInv'
  BY <1>11, <1>0 DEF Reading, Refuse, LoadInv, ReaderTypeOK, Checked
<1>2. CASE ReadInfo
  <2>1. CASE InfoAccepted(disk.info) /\ StatsAccepted(disk.info, disk.stats)
    <3>1. /\ meta' = [info |-> disk.info, stats |-> disk.stats, tasks |-> disk.tasks, episodes |-> <<>>]
          /\ stage = "info" /\ stage' = "episodes" /\ readFiles' = 0
          /\ UNCHANGED <<source, request, drop, sampler, frame, fps, wanted, pass, rows, values>>
      BY <1>2, <2>1 DEF ReadInfo, Reading
    <3>2. meta' \in Metas /\ meta'.info = disk.info
      BY <3>1, <1>0, MetaRead DEF ReaderTypeOK
    <3>3. disk.info \in {d.info : d \in AllDisks}
      BY <1>0 DEF ReaderTypeOK
    <3> QED
      BY <2>1, <3>1, <3>2, <3>3, <1>0 DEF LoadInv, ReaderTypeOK, Checked
  <2>2. CASE ~(InfoAccepted(disk.info) /\ StatsAccepted(disk.info, disk.stats))
    BY <1>2, <2>2, <1>11 DEF ReadInfo
  <2> QED
    BY <2>1, <2>2
<1>3. CASE ReadEpisodeFile
  <2> DEFINE file == disk.episodeFiles[readFiles + 1]
             Ok == /\ Len(disk.episodeFiles) <= MaxFiles
                   /\ RowsFit(file)
                   /\ Len(meta.episodes) + Len(file.rows) <= MaxRows
  <2>1. CASE Ok
    <3>1. /\ meta' = [meta EXCEPT !.episodes = @ \o file.rows]
          /\ readFiles' = readFiles + 1 /\ readFiles < Len(disk.episodeFiles)
          /\ stage = "episodes"
          /\ UNCHANGED <<stage, source, request, drop, sampler, frame, fps, wanted, pass, rows, values>>
      BY <1>3, <2>1 DEF ReadEpisodeFile, Reading
    <3>2. file \in [readable : BOOLEAN, rows : Seq(EpisodeRows)]
      <4> DEFINE Files == [readable : BOOLEAN, rows : Seq(EpisodeRows)]
      <4>1. disk.episodeFiles \in Seq(Files)
        BY <1>0, DiskTyped DEF ReaderTypeOK
      <4> HIDE DEF Files
      <4>2. readFiles + 1 \in 1..Len(disk.episodeFiles)
        BY <3>1, <4>1, <1>0 DEF ReaderTypeOK
      <4>3. file \in Files
        BY <4>1, <4>2
      <4> QED
        BY <4>3 DEF Files
    <3> HIDE DEF file
    <3>3. file.rows \in Seq(EpisodeRows) /\ meta.episodes \in Seq(EpisodeRows)
      <4>1. file.rows \in Seq(EpisodeRows)
        BY <3>2
      <4>2. meta \in Metas
        BY <1>0 DEF ReaderTypeOK
      <4>3. meta.episodes \in Seq(EpisodeRows)
        BY <4>2 DEF Metas
      <4> QED
        BY <4>1, <4>3
    <3> DEFINE episodes == meta.episodes \o file.rows
    <3>4. episodes \in Seq(EpisodeRows)
      BY <3>3, ConcatProperties
    <3>5. meta' = [meta EXCEPT !.episodes = episodes]
      BY <3>1
    <3> HIDE DEF episodes
    <3>6. meta' \in Metas /\ meta'.info = meta.info
      BY <3>4, <3>5, <1>0, MetaTyped DEF ReaderTypeOK
    <3> QED
      BY <3>1, <3>6, <1>0 DEF LoadInv, ReaderTypeOK, Checked
  <2>2. CASE ~Ok
    BY <1>3, <2>2, <1>11 DEF ReadEpisodeFile
  <2> QED
    BY <2>1, <2>2
<1>4. CASE ValidateEpisodes
  <2> DEFINE episodes == ByIndex(meta.episodes)
             Ok == readFiles > 0 /\ EpisodesAccepted(meta.info, episodes)
  <2>1. CASE Ok
    <3>1. /\ meta' = [meta EXCEPT !.episodes = episodes]
          /\ fps' = IF pass = 1 THEN meta.info.fps ELSE fps
          /\ pass' = IF pass = 1 /\ selection = Absent THEN 3
                     ELSE IF pass < 3 THEN pass + 1 ELSE pass
          /\ stage' = IF pass < 3 THEN "info" ELSE "windows"
          /\ stage = "episodes" /\ readFiles' = 0
          /\ UNCHANGED <<source, request, drop, sampler, frame, rows, values>>
      BY <1>4, <2>1 DEF ValidateEpisodes, Reading
    <3>2. episodes \in Seq(EpisodeRows)
      BY <1>0, ByIndexTyped DEF ReaderTypeOK, Metas
    <3>3. EpisodesAccepted(meta.info, episodes)
      BY <2>1
    <3> HIDE DEF episodes
    <3>4. meta' \in Metas /\ meta'.info = meta.info /\ meta'.episodes = episodes
      BY <3>1, <3>2, <1>0, MetaTyped DEF ReaderTypeOK
    <3>5. meta.info.fps \in Int /\ meta.info.fps > 0
      <4>1. meta.info \in {d.info : d \in AllDisks} /\ InfoAccepted(meta.info)
        BY <3>1, <1>0 DEF Checked
      <4>2. \A d \in AllDisks : d.info.fps \in Int
        BY DiskTyped
      <4>3. meta.info.fps \in Int
        BY <4>1, <4>2
      <4> QED
        BY <4>1, <4>3 DEF InfoAccepted
    <3>6. pass \in 1..3
      BY <1>0 DEF ReaderTypeOK
    <3>7. /\ pass' \in 1..3 /\ stage' \in {"info", "windows"} /\ fps' \in Int /\ fps' > 0
          /\ stage' = "windows" => pass' = 3
      BY <3>1, <3>5, <3>6, <1>0 DEF Checked
    <3>8. stage' = "windows" => meta'.info \in {d.info : d \in AllDisks} /\ InfoAccepted(meta'.info)
      BY <3>1, <3>4, <1>0 DEF Checked
    <3> QED
      BY <3>1, <3>3, <3>4, <3>7, <3>8, <1>0 DEF LoadInv, ReaderTypeOK, Checked
  <2>2. CASE ~Ok
    BY <1>4, <2>2, <1>11 DEF ValidateEpisodes
  <2> QED
    BY <2>1, <2>2
<1>5. CASE CheckWindows
  <2> DEFINE Ok == /\ OnTheGrid
                   /\ "action" \in ValueKeys \cup (ScalarColumns \cap DOMAIN meta.info.features)
                   /\ Len(DataFiles) <= MaxFiles
  <2>1. CASE Ok
    <3>1. /\ stage = "windows" /\ stage' = "files"
          /\ UNCHANGED <<source, request, drop, sampler, frame, fps, wanted, pass, table, readFiles>>
      BY <1>5, <2>1 DEF CheckWindows, Reading
    <3>2. "action" \in DOMAIN meta.info.features
      BY <2>1 DEF ValueKeys
    <3> QED
      BY <3>1, <3>2, <1>0 DEF LoadInv, ReaderTypeOK, Checked
  <2>2. CASE ~Ok
    BY <1>5, <2>2, <1>11 DEF CheckWindows
  <2> QED
    BY <2>1, <2>2
<1>6. CASE ReadDataFile
  <2> DEFINE name == DataFiles[readFiles + 1]
             Ok == /\ name \in DOMAIN disk.files
                   /\ RowsFit(disk.files[name])
                   /\ Len(rows) + Len(disk.files[name].rows) <= MaxRows
                   /\ values + ValuesOf(disk.files[name]) <= MaxValues
                   /\ ColumnsRead(disk.files[name])
  <2>1. CASE Ok
    <3>1. /\ rows' = rows \o disk.files[name].rows
          /\ readFiles' = readFiles + 1
          /\ stage = "files"
          /\ UNCHANGED <<source, request, drop, sampler, frame, stage, fps, wanted, pass, meta>>
      BY <1>6, <2>1 DEF ReadDataFile, Reading
    <3>2. name \in DOMAIN disk.files
      BY <2>1
    <3> HIDE DEF name
    <3>3. disk.files[name].rows \in Seq(FrameRows) /\ rows \in Seq(FrameRows)
      BY <3>2, <1>0, DiskTyped DEF ReaderTypeOK
    <3>4. rows' \in Seq(FrameRows)
      BY <3>1, <3>3, ConcatProperties
    <3> QED
      BY <3>1, <3>4, <1>0 DEF LoadInv, ReaderTypeOK, Checked
  <2>2. CASE ~Ok
    BY <1>6, <2>2, <1>11 DEF ReadDataFile
  <2> QED
    BY <2>1, <2>2
<1>7. CASE CheckConsistency
  <2>1. CASE Consistent
    <3>1. /\ stage = "files" /\ stage' = "loaded"
          /\ UNCHANGED <<source, request, drop, sampler, frame, fps, wanted, pass, table, readFiles>>
      BY <1>7, <2>1 DEF CheckConsistency, Reading
    <3>2. Consistent'
      BY <2>1, <3>1, ConsistentKept
    <3> QED
      BY <3>1, <3>2, <1>0 DEF LoadInv, ReaderTypeOK, Checked
  <2>2. CASE ~Consistent
    BY <1>7, <2>2, <1>11 DEF CheckConsistency
  <2> QED
    BY <2>1, <2>2
<1>8. CASE BuildSampler
  <2>1. /\ stage = "loaded" /\ stage' \in {"ready", "refused"}
        /\ UNCHANGED <<source, request, fps, wanted, pass, table, readFiles, drop, frame>>
    BY <1>8 DEF BuildSampler
  <2>2. Consistent' = Consistent
    BY <2>1, ConsistentKept
  <2> QED
    BY <2>1, <2>2, <1>0 DEF LoadInv, ReaderTypeOK, Checked
<1>9. ASSUME NEW position \in 0..MaxRows - 1, stage = "ready", Get(position) PROVE LoadInv'
  <2>1. UNCHANGED <<source, stage, pass, request, fps, wanted, table, readFiles, drop, sampler>>
    BY <1>9 DEF Get
  <2>2. Consistent' = Consistent
    BY <2>1, ConsistentKept
  <2> QED
    BY <1>9, <2>1, <2>2, <1>0 DEF LoadInv, ReaderTypeOK, Checked
<1>10. CASE UNCHANGED readerVars
  <2>1. Consistent' = Consistent
    BY <1>10, ConsistentKept DEF readerVars
  <2> QED
    BY <1>10, <2>1, <1>0 DEF readerVars, LoadInv, ReaderTypeOK, Checked
<1> QED
  BY <1>1, <1>2, <1>3, <1>4, <1>5, <1>6, <1>7, <1>8, <1>9, <1>10 DEF ReaderNext, Load

LEMMA LoadedInv == ReaderSpec => []LoadInv
BY LoadInitially, LoadKeeps, PTL DEF ReaderSpec

-----------------------------------------------------------------------------
(* A dataset that is loaded                                                *)

Episodes == 1..Len(meta.episodes)
Rows == 1..Len(rows)

LEMMA Loaded ==
  ASSUME LoadInv, stage \in {"loaded", "ready"}
  PROVE  /\ Len(rows) \in Nat /\ DOMAIN rows = Rows
         /\ Len(meta.episodes) \in Nat /\ DOMAIN meta.episodes = Episodes
         /\ \A i \in Rows : rows[i] \in FrameRows /\ rows[i].index = i - 1
         /\ \A e \in Episodes :
              /\ meta.episodes[e].index = e - 1
              /\ meta.episodes[e].from \in Nat /\ meta.episodes[e].to \in Nat
              /\ meta.episodes[e].from < meta.episodes[e].to
              /\ meta.episodes[e].to <= Len(rows)
              /\ meta.episodes[e].length = meta.episodes[e].to - meta.episodes[e].from
         /\ \A d, e \in Episodes : d < e => meta.episodes[d].to <= meta.episodes[e].from
<1>1. /\ rows \in Seq(FrameRows) /\ meta \in Metas
      /\ EpisodesAccepted(meta.info, meta.episodes) /\ Consistent
  BY DEF LoadInv, ReaderTypeOK, Checked
<1>2. meta.episodes \in Seq(EpisodeRows)
  BY <1>1 DEF Metas
<1>3. Len(rows) \in Nat /\ DOMAIN rows = Rows /\ \A i \in Rows : rows[i] \in FrameRows
  BY <1>1 DEF Rows
<1>4. Len(meta.episodes) \in Nat /\ DOMAIN meta.episodes = Episodes
  BY <1>2 DEF Episodes
<1>5. Len(rows) = meta.info.frames /\ \A i \in Rows : rows[i].index = i - 1
  BY <1>1, <1>3 DEF Consistent
<1>6. /\ \A i \in 1..Len(meta.episodes) :
           /\ meta.episodes[i].index = i - 1
           /\ meta.episodes[i].from \in Int /\ meta.episodes[i].to \in Int
           /\ meta.episodes[i].length \in Int
           /\ 0 <= meta.episodes[i].from /\ meta.episodes[i].from < meta.episodes[i].to
           /\ meta.episodes[i].to <= meta.info.frames
           /\ meta.episodes[i].length = meta.episodes[i].to - meta.episodes[i].from
      /\ \A i, j \in 1..Len(meta.episodes) :
           i < j => meta.episodes[i].to <= meta.episodes[j].from
  BY <1>1, <1>2, EpisodesTile
<1>7. \A e \in Episodes : meta.episodes[e].from \in Nat /\ meta.episodes[e].to \in Nat
  BY <1>6 DEF Episodes
<1> QED
  BY <1>3, <1>4, <1>5, <1>6, <1>7 DEF Episodes

(* The frames of an episode are those that name it.                        *)
LEMMA OwnFrames ==
  ASSUME LoadInv, stage \in {"loaded", "ready"}, NEW i \in Rows
  PROVE  /\ \E e \in Episodes : rows[i].episode = e - 1
         /\ \A e \in Episodes : rows[i].episode = e - 1 <=>
              meta.episodes[e].from <= i - 1 /\ i - 1 < meta.episodes[e].to
         /\ EpisodeOf(rows[i].index) = {e \in Episodes : rows[i].episode = e - 1}
<1>1. Consistent
  BY DEF LoadInv, Checked
<1>2. rows[i].index = i - 1 /\ i - 1 \in Int /\ DOMAIN rows = Rows /\ DOMAIN meta.episodes = Episodes
  BY Loaded DEF Rows
<1>3. PICK d \in EpisodeOf(i - 1) : meta.episodes[d].index = rows[i].episode
  BY <1>1, <1>2 DEF Consistent
<1>4. d \in Episodes /\ i - 1 \in meta.episodes[d].from .. meta.episodes[d].to - 1
  BY <1>2, <1>3 DEF EpisodeOf
<1>5. Episodes \subseteq Int
  BY DEF Episodes
<1>6. \A e \in Episodes : meta.episodes[e].from \in Nat /\ meta.episodes[e].to \in Nat
                        /\ meta.episodes[e].index = e - 1
  BY Loaded
<1>7. /\ rows[i].episode = d - 1
      /\ meta.episodes[d].from <= i - 1 /\ i - 1 < meta.episodes[d].to
  BY <1>2, <1>3, <1>4, <1>6
<1>8. ASSUME NEW e \in Episodes, meta.episodes[e].from <= i - 1, i - 1 < meta.episodes[e].to
      PROVE  e = d
  <2>1. CASE e < d
    <3>1. meta.episodes[e].to <= meta.episodes[d].from
      BY <2>1, <1>4, Loaded
    <3> QED
      BY <3>1, <1>2, <1>4, <1>6, <1>7, <1>8
  <2>2. CASE d < e
    <3>1. meta.episodes[d].to <= meta.episodes[e].from
      BY <2>2, <1>4, Loaded
    <3> QED
      BY <3>1, <1>2, <1>4, <1>6, <1>7, <1>8
  <2> QED
    BY <2>1, <2>2, <1>4, <1>5
<1>9. ASSUME NEW e \in Episodes
      PROVE  rows[i].episode = e - 1 <=> meta.episodes[e].from <= i - 1 /\ i - 1 < meta.episodes[e].to
  BY <1>4, <1>5, <1>7, <1>8
<1>10. EpisodeOf(i - 1) = {e \in Episodes : rows[i].episode = e - 1}
  <2>1. \A e \in Episodes : i - 1 \in meta.episodes[e].from .. meta.episodes[e].to - 1
          <=> meta.episodes[e].from <= i - 1 /\ i - 1 < meta.episodes[e].to
    BY <1>2, <1>6
  <2> QED
    BY <2>1, <1>2, <1>9 DEF EpisodeOf
<1> QED
  BY <1>2, <1>4, <1>7, <1>9, <1>10

(* Whatever is on the disk and whoever writes to it meanwhile, a dataset   *)
(* that has been loaded holds together.                                    *)
THEOREM LoadedFramesOwned == ReaderSpec => []EveryFrameOwned
<1>1. LoadInv => EveryFrameOwned
  <2> SUFFICES ASSUME LoadInv, stage \in {"loaded", "ready"}
      PROVE  /\ \A i \in DOMAIN rows : Cardinality(EpisodeOf(rows[i].index)) = 1
             /\ \A e \in DOMAIN meta.episodes :
                  meta.episodes[e].length =
                    Cardinality({i \in DOMAIN rows : rows[i].episode = meta.episodes[e].index})
    BY DEF EveryFrameOwned
  <2>0. DOMAIN rows = Rows /\ DOMAIN meta.episodes = Episodes /\ Episodes \subseteq Int /\ Rows \subseteq Int
    BY Loaded DEF Episodes, Rows
  <2>1. ASSUME NEW i \in Rows PROVE Cardinality(EpisodeOf(rows[i].index)) = 1
    <3>1. PICK d \in Episodes : rows[i].episode = d - 1
      BY OwnFrames
    <3>2. EpisodeOf(rows[i].index) = {e \in Episodes : rows[i].episode = e - 1}
      BY OwnFrames
    <3>3. EpisodeOf(rows[i].index) = {d}
      BY <2>0, <3>1, <3>2
    <3> QED
      BY <3>3, FS_Singleton
  <2>2. ASSUME NEW e \in Episodes
        PROVE  meta.episodes[e].length =
                 Cardinality({i \in Rows : rows[i].episode = meta.episodes[e].index})
    <3> DEFINE from == meta.episodes[e].from
               to == meta.episodes[e].to
               own == {i \in Rows : rows[i].episode = meta.episodes[e].index}
    <3>1. /\ from \in Nat /\ to \in Nat /\ from < to /\ to <= Len(rows) /\ Len(rows) \in Nat
          /\ meta.episodes[e].index = e - 1 /\ meta.episodes[e].length = to - from
      BY Loaded
    <3>2. \A i \in Rows : rows[i].episode = e - 1 <=> from <= i - 1 /\ i - 1 < to
      BY OwnFrames
    <3> HIDE DEF from, to
    <3>3. own = (from + 1)..to
      BY <3>1, <3>2 DEF Rows
    <3>4. Cardinality((from + 1)..to) = to - from
      BY <3>1, FS_Interval
    <3> QED
      BY <3>1, <3>3, <3>4
  <2> QED
    BY <2>0, <2>1, <2>2
<1> QED
  BY <1>1, LoadedInv, PTL


-----------------------------------------------------------------------------
(* The sampler                                                             *)

(* All of a range in order is the range.                                   *)
LEMMA InOrderRange ==
  ASSUME NEW n \in Nat, NEW k \in 1..n
  PROVE  Cardinality(1..n) = n /\ InOrder(1..n)[k] = k
<1>1. Cardinality(1..n) = n
  BY FS_Interval
<1>2. ASSUME NEW i \in 1..n PROVE Cardinality({m \in 1..n : m <= i}) = i
  <2>1. {m \in 1..n : m <= i} = 1..i
    OBVIOUS
  <2>2. Cardinality(1..i) = i
    BY FS_Interval
  <2> QED
    BY <2>1, <2>2
<1>3. InOrder(1..n)[k] = CHOOSE i \in 1..n : Cardinality({m \in 1..n : m <= i}) = k
  BY <1>1 DEF InOrder
<1>4. (CHOOSE i \in 1..n : Cardinality({m \in 1..n : m <= i}) = k) = (CHOOSE i \in 1..n : i = k)
  BY <1>2
<1> QED
  BY <1>1, <1>3, <1>4

Left(e) == meta.episodes[e].to - drop - meta.episodes[e].from

(* Frame a is served from episode e.                                       *)
Offered(a, e) ==
  /\ e \in Episodes /\ Used(meta.episodes[e])
  /\ meta.episodes[e].from <= a /\ a < meta.episodes[e].to - drop

LEMMA SampledEpisodes ==
  ASSUME LoadInv, stage \in {"loaded", "ready"}
  PROVE  /\ Len(Sampled) \in Nat /\ DOMAIN Sampled = 1..Len(Sampled)
         /\ \A k \in 1..Len(Sampled) :
              /\ Sampled[k] \in Episodes /\ Used(meta.episodes[Sampled[k]])
              /\ Left(Sampled[k]) \in Nat \ {0}
         /\ \A e \in Episodes : Used(meta.episodes[e]) /\ Left(e) > 0 =>
              \E k \in 1..Len(Sampled) : Sampled[k] = e
         /\ \A j, k \in 1..Len(Sampled) : Sampled[j] = Sampled[k] => j = k
<1> DEFINE S == {e \in Episodes : Used(meta.episodes[e]) /\ LeftOf(meta.episodes[e]) > 0}
           n == Cardinality(S)
<1>1. S \in SUBSET (1..Len(meta.episodes)) /\ Len(meta.episodes) \in Nat
  BY Loaded DEF Episodes
<1>2. Sampled = InOrder(S)
  BY Loaded DEF Sampled
<1> HIDE DEF S
<1>3. /\ n \in Nat
      /\ Sampled \in [1..n -> S]
      /\ \A i \in S : \E k \in 1..n : Sampled[k] = i
      /\ \A j, k \in 1..n : Sampled[j] = Sampled[k] => j = k
  BY <1>1, <1>2, InOrderLists
<1> HIDE DEF n
<1>4. Len(Sampled) = n /\ DOMAIN Sampled = 1..n
  BY <1>3
<1>5. \A e \in Episodes : LeftOf(meta.episodes[e]) = Left(e) /\ Left(e) \in Int
  BY Loaded, ReaderAssumption DEF LeftOf, Left, LoadInv, ReaderTypeOK
<1>6. ASSUME NEW k \in 1..n
      PROVE  Sampled[k] \in Episodes /\ Used(meta.episodes[Sampled[k]]) /\ Left(Sampled[k]) \in Nat \ {0}
  <2>1. Sampled[k] \in S
    BY <1>3
  <2>2. Sampled[k] \in Episodes /\ Used(meta.episodes[Sampled[k]]) /\ LeftOf(meta.episodes[Sampled[k]]) > 0
    BY <2>1 DEF S
  <2> QED
    BY <2>2, <1>5
<1>7. \A e \in Episodes : Used(meta.episodes[e]) /\ Left(e) > 0 => e \in S
  BY <1>5 DEF S
<1> QED
  BY <1>3, <1>4, <1>6, <1>7

(* The cumulative lengths are the partial sums f.                          *)
Cumulative(f) ==
  /\ f \in [0..Len(Sampled) -> Int] /\ f[0] = 0
  /\ \A k \in 1..Len(Sampled) : f[k] = f[k - 1] + Left(Sampled[k])
  /\ NewSampler.lengths = [k \in 1..Len(Sampled) |-> f[k]]
  /\ NewSampler.starts = [k \in 1..Len(Sampled) |-> meta.episodes[Sampled[k]].from]

LEMMA Lengths ==
  ASSUME LoadInv, stage \in {"loaded", "ready"}
  PROVE  \E f : Cumulative(f)
<1> DEFINE n == Len(Sampled)
           a == [k \in 1..n |-> Left(Sampled[k])]
<1>1. n \in Nat /\ DOMAIN Sampled = 1..n /\ \A k \in 1..n : Left(Sampled[k]) \in Int
  BY SampledEpisodes
<1>2. a \in [1..n -> Int] /\ \A k \in 1..n : a[k] = Left(Sampled[k])
  BY <1>1
<1>3. \A k \in 1..n : [j \in 1..k |-> LeftOf(meta.episodes[Sampled[j]])] = [j \in 1..k |-> a[j]]
  <2> TAKE k \in 1..n
  <2>1. \A j \in 1..k : j \in 1..n
    BY <1>1
  <2>2. \A j \in 1..k : a[j] = LeftOf(meta.episodes[Sampled[j]])
    BY <2>1 DEF Left, LeftOf
  <2> QED
    BY <2>2
<1>4. /\ NewSampler.lengths = [k \in 1..n |-> SumOf([j \in 1..k |-> LeftOf(meta.episodes[Sampled[j]])])]
      /\ NewSampler.starts = [k \in 1..n |-> meta.episodes[Sampled[k]].from]
  BY <1>1 DEF NewSampler
<1> HIDE DEF a, n
<1>5. PICK f \in [0..n -> Int] : /\ f[0] = 0
                                 /\ \A k \in 1..n : f[k] = f[k - 1] + a[k]
                                 /\ \A k \in 0..n : SumOf([j \in 1..k |-> a[j]]) = f[k]
  BY <1>1, <1>2, PrefixSums
<1>6. \A k \in 1..n : k \in 0..n
  BY <1>1
<1>7. \A k \in 1..n : SumOf([j \in 1..k |-> LeftOf(meta.episodes[Sampled[j]])]) = f[k]
  BY <1>3, <1>5, <1>6
<1>8. NewSampler.lengths = [k \in 1..n |-> f[k]]
  BY <1>4, <1>7
<1>9. \A k \in 1..n : f[k] = f[k - 1] + Left(Sampled[k])
  BY <1>2, <1>5
<1> QED
  BY <1>4, <1>5, <1>8, <1>9 DEF Cumulative, n

LEMMA SampledSeq ==
  ASSUME LoadInv, stage \in {"loaded", "ready"}
  PROVE  Sampled \in Seq(Episodes)
<1> DEFINE S == {e \in DOMAIN meta.episodes : Used(meta.episodes[e]) /\ LeftOf(meta.episodes[e]) > 0}
<1>1. S \in SUBSET (1..Len(meta.episodes)) /\ Len(meta.episodes) \in Nat
  BY Loaded DEF Episodes
<1>2. Sampled = InOrder(S)
  BY DEF Sampled
<1> HIDE DEF S
<1>3. Cardinality(S) \in Nat /\ Sampled \in [1..Cardinality(S) -> S]
  BY <1>1, <1>2, InOrderLists
<1>4. Sampled \in [1..Cardinality(S) -> Episodes]
  BY <1>1, <1>3 DEF Episodes
<1> QED
  BY <1>3, <1>4

LEMMA LengthsGrow ==
  ASSUME LoadInv, stage \in {"loaded", "ready"}, NEW f, Cumulative(f)
  PROVE  /\ \A k \in 1..Len(Sampled) : f[k - 1] \in Int /\ f[k] \in Int /\ f[k - 1] < f[k]
         /\ \A i, j \in 0..Len(Sampled) : i <= j => f[i] <= f[j]
<1> DEFINE n == Len(Sampled)
<1>1. /\ n \in Nat /\ f \in [0..n -> Int]
      /\ \A k \in 1..n : f[k] = f[k - 1] + Left(Sampled[k]) /\ Left(Sampled[k]) \in Nat \ {0}
  BY SampledEpisodes DEF Cumulative
<1> HIDE DEF n
<1>2. ASSUME NEW k \in 1..n PROVE f[k - 1] \in Int /\ f[k] \in Int /\ f[k - 1] < f[k]
  <2>1. k - 1 \in 0..n /\ k \in 0..n
    BY <1>1
  <2>2. f[k - 1] \in Int /\ f[k] \in Int
    BY <2>1, <1>1
  <2> QED
    BY <2>2, <1>1
<1>3. \A i, j \in 0..n : i <= j => f[i] <= f[j]
  BY <1>1, <1>2, SumsGrow
<1> QED
  BY <1>2, <1>3 DEF n

(* The episode of a position is the one whose lengths embrace it.          *)
LEMMA PositionIn ==
  ASSUME LoadInv, stage \in {"loaded", "ready"}, NEW f, Cumulative(f),
         NEW p \in Nat, NEW k \in 1..Len(Sampled), f[k - 1] <= p, p < f[k]
  PROVE  FrameIndex(NewSampler, p) = meta.episodes[Sampled[k]].from + p - f[k - 1]
<1> DEFINE n == Len(Sampled)
           S == {i \in 1..n : f[i] > p}
           s == NewSampler
<1>1. /\ n \in Nat /\ f \in [0..n -> Int] /\ f[0] = 0
      /\ s.lengths = [i \in 1..n |-> f[i]]
      /\ s.starts = [i \in 1..n |-> meta.episodes[Sampled[i]].from]
  BY SampledEpisodes DEF Cumulative
<1>2. /\ \A i \in 1..n : f[i - 1] \in Int /\ f[i] \in Int
      /\ \A i, j \in 0..n : i <= j => f[i] <= f[j]
  BY LengthsGrow
<1> HIDE DEF s
<1>3. {i \in DOMAIN s.lengths : s.lengths[i] > p} = S
  BY <1>1
<1>4. k \in S
  BY <1>2
<1>5. ASSUME NEW i \in S PROVE k <= i
  <2>1. CASE i <= k - 1
    <3>1. i \in 0..n /\ k - 1 \in 0..n /\ i \in 1..n /\ f[i] > p
      OBVIOUS
    <3>2. f[i] <= f[k - 1]
      BY <2>1, <3>1, <1>2
    <3>3. f[i] \in Int /\ f[k - 1] \in Int
      BY <3>1, <1>2
    <3> QED
      BY <3>1, <3>2, <3>3
  <2>2. CASE ~(i <= k - 1)
    BY <2>2
  <2> QED
    BY <2>1, <2>2
<1>6. \A i \in S : i \in Int
  OBVIOUS
<1> HIDE DEF S
<1>7. Min(S) = k
  <2>1. \A i \in S : (\A j \in S : i <= j) <=> i = k
    BY <1>4, <1>5, <1>6
  <2>2. Min(S) = CHOOSE i \in S : i = k
    BY <2>1 DEF Min
  <2> QED
    BY <2>2, <1>4
<1>8. s.starts[k] = meta.episodes[Sampled[k]].from
  BY <1>1
<1>9. (IF k = 1 THEN 0 ELSE s.lengths[k - 1]) = f[k - 1]
  <2>1. CASE k = 1
    BY <2>1, <1>1
  <2>2. CASE k # 1
    <3>1. k - 1 \in 1..n
      BY <2>2
    <3> QED
      BY <2>2, <3>1, <1>1
  <2> QED
    BY <2>1, <2>2
<1>10. FrameIndex(s, p) = s.starts[k] + p - (IF k = 1 THEN 0 ELSE s.lengths[k - 1])
  BY <1>3, <1>7 DEF FrameIndex
<1> QED
  BY <1>8, <1>9, <1>10 DEF s

(* A position names a frame that is offered, no two positions the same     *)
(* one, and every frame that is offered has a position.                    *)
Positions == 0..NumFrames(NewSampler) - 1

LEMMA PositionsServe ==
  ASSUME LoadInv, stage \in {"loaded", "ready"}, Sampled # <<>>
  PROVE  /\ NumFrames(NewSampler) \in Int
         /\ \A p \in Positions : /\ FrameIndex(NewSampler, p) \in Int
                              /\ \E e : Offered(FrameIndex(NewSampler, p), e)
         /\ \A p, q \in Positions : FrameIndex(NewSampler, p) = FrameIndex(NewSampler, q) => p = q
         /\ \A a \in Nat, e \in Episodes :
              Offered(a, e) => \E p \in Positions : FrameIndex(NewSampler, p) = a
<1> DEFINE n == Len(Sampled)
           I(p) == FrameIndex(NewSampler, p)
           From(k) == meta.episodes[Sampled[k]].from
<1>1. /\ n \in Nat /\ DOMAIN Sampled = 1..n
      /\ \A k \in 1..n : /\ Sampled[k] \in Episodes /\ Used(meta.episodes[Sampled[k]])
                         /\ Left(Sampled[k]) \in Nat \ {0}
      /\ \A e \in Episodes : Used(meta.episodes[e]) /\ Left(e) > 0 => \E k \in 1..n : Sampled[k] = e
      /\ \A j, k \in 1..n : Sampled[j] = Sampled[k] => j = k
  BY SampledEpisodes
<1>2. PICK f : Cumulative(f)
  BY Lengths
<1>3. /\ \A k \in 1..n : f[k - 1] \in Int /\ f[k] \in Int /\ f[k - 1] < f[k]
      /\ \A i, j \in 0..n : i <= j => f[i] <= f[j]
  BY <1>2, LengthsGrow
<1>4. /\ f \in [0..n -> Int] /\ f[0] = 0
      /\ \A k \in 1..n : f[k] = f[k - 1] + Left(Sampled[k])
      /\ NewSampler.lengths = [k \in 1..n |-> f[k]]
  BY <1>2 DEF Cumulative
<1>5. n # 0
  <2>1. ASSUME n = 0 PROVE Sampled = <<>>
    <3>1. Sampled \in Seq(Episodes)
      BY SampledSeq
    <3> QED
      BY <2>1, <3>1, EmptySeq
  <2> QED
    BY <2>1
<1>6. NumFrames(NewSampler) = f[n] /\ f[n] \in Int
  BY <1>1, <1>4, <1>5 DEF NumFrames, Last
<1>7. ASSUME NEW k \in 1..n
      PROVE  /\ From(k) \in Nat /\ meta.episodes[Sampled[k]].to \in Nat /\ drop \in Nat
             /\ Left(Sampled[k]) = meta.episodes[Sampled[k]].to - drop - From(k)
             /\ meta.episodes[Sampled[k]].from < meta.episodes[Sampled[k]].to
  BY <1>1, Loaded, ReaderAssumption DEF Left, LoadInv, ReaderTypeOK
<1>8. ASSUME NEW p \in Positions
      PROVE  \E k \in 1..n : /\ f[k - 1] <= p /\ p < f[k]
                             /\ I(p) = From(k) + p - f[k - 1]
  <2>1. p \in Nat /\ p < f[n]
    BY <1>6 DEF Positions
  <2>2. \A k \in 1..n : f[k - 1] < f[k]
    BY <1>3
  <2>3. PICK k \in 1..n : f[k - 1] <= p /\ p < f[k]
    <3> HIDE DEF n
    <3>1. p \in Int /\ f[0] <= p
      BY <2>1, <1>4
    <3> QED
      BY <1>1, <1>4, <2>1, <2>2, <3>1, FirstBeyond
  <2> QED
    BY <1>2, <2>1, <2>3, PositionIn
<1>81. ASSUME NEW p \in Positions, NEW k \in 1..n, f[k - 1] <= p, p < f[k],
              I(p) = From(k) + p - f[k - 1]
       PROVE  /\ I(p) \in Int /\ From(k) <= I(p)
              /\ I(p) < meta.episodes[Sampled[k]].to - drop
  <2> DEFINE start == From(k)
             end == meta.episodes[Sampled[k]].to
             size == Left(Sampled[k])
             before == f[k - 1]
             after == f[k]
             i == I(p)
  <2>1. /\ start \in Int /\ end \in Int /\ size \in Int /\ drop \in Int
        /\ before \in Int /\ after \in Int /\ p \in Int
    BY <1>1, <1>3, <1>6, <1>7 DEF Positions
  <2>2. /\ size = end - drop - start /\ after = before + size /\ before <= p /\ p < after
        /\ i = start + p - before
    BY <1>4, <1>7, <1>81
  <2> HIDE DEF start, end, size, before, after, i
  <2>3. i \in Int /\ start <= i /\ i < end - drop
    BY <2>1, <2>2
  <2> QED
    BY <2>3 DEF start, end, i
<1>9. ASSUME NEW p \in Positions PROVE I(p) \in Int /\ \E e : Offered(I(p), e)
  <2>1. PICK k \in 1..n : f[k - 1] <= p /\ p < f[k] /\ I(p) = From(k) + p - f[k - 1]
    BY <1>8
  <2>2. p \in Int
    BY <1>6 DEF Positions
  <2>3. f[k] = f[k - 1] + Left(Sampled[k]) /\ f[k - 1] \in Int /\ f[k] \in Int
    BY <1>3, <1>4
  <2> HIDE DEF I, From
  <2>4. /\ I(p) \in Int /\ From(k) <= I(p)
        /\ I(p) < meta.episodes[Sampled[k]].to - drop
    BY <2>1, <1>81
  <2>5. Offered(I(p), Sampled[k])
    BY <2>4, <1>1 DEF Offered, From
  <2> QED
    BY <2>4, <2>5
<1>10. ASSUME NEW p \in Positions, NEW q \in Positions, I(p) = I(q) PROVE p = q
  <2>1. PICK j \in 1..n : f[j - 1] <= p /\ p < f[j] /\ I(p) = From(j) + p - f[j - 1]
    BY <1>8
  <2>2. PICK k \in 1..n : f[k - 1] <= q /\ q < f[k] /\ I(q) = From(k) + q - f[k - 1]
    BY <1>8
  <2>3. p \in Int /\ q \in Int
    BY <1>6 DEF Positions
  <2>4. /\ f[j] = f[j - 1] + Left(Sampled[j]) /\ f[j - 1] \in Int /\ f[j] \in Int
        /\ f[k] = f[k - 1] + Left(Sampled[k]) /\ f[k - 1] \in Int /\ f[k] \in Int
    BY <1>3, <1>4
  <2>5. /\ From(j) <= I(p) /\ I(p) < meta.episodes[Sampled[j]].to
        /\ From(k) <= I(p) /\ I(p) < meta.episodes[Sampled[k]].to /\ I(p) \in Int
    <3> HIDE DEF I, From
    <3>1. From(j) <= I(p) /\ I(p) < meta.episodes[Sampled[j]].to - drop /\ I(p) \in Int
      BY <2>1, <1>81
    <3>2. From(k) <= I(q) /\ I(q) < meta.episodes[Sampled[k]].to - drop
      BY <2>2, <1>81
    <3>3. /\ meta.episodes[Sampled[j]].to \in Nat /\ meta.episodes[Sampled[k]].to \in Nat
          /\ drop \in Nat
      BY <1>7
    <3> QED
      BY <1>10, <3>1, <3>2, <3>3, SMTT(30)
  <2>6. Sampled[j] = Sampled[k]
    <3>1. Sampled[j] \in Episodes /\ Sampled[k] \in Episodes /\ Episodes \subseteq Int
      BY <1>1 DEF Episodes
    <3>2. CASE Sampled[j] < Sampled[k]
      <4>1. meta.episodes[Sampled[j]].to <= From(k)
        BY <3>1, <3>2, Loaded
      <4> HIDE DEF I, From
      <4> QED
        BY <4>1, <2>5, <1>7
    <3>3. CASE Sampled[k] < Sampled[j]
      <4>1. meta.episodes[Sampled[k]].to <= From(j)
        BY <3>1, <3>3, Loaded
      <4> HIDE DEF I, From
      <4> QED
        BY <4>1, <2>5, <1>7
    <3>4. Sampled[j] \in Int /\ Sampled[k] \in Int
      BY <3>1
    <3> QED
      BY <3>2, <3>3, <3>4
  <2>7. j = k
    BY <2>6, <1>1
  <2> HIDE DEF I, From
  <2>8. From(j) \in Int
    BY <1>7
  <2>9. I(q) = From(j) + q - f[j - 1]
    BY <2>2, <2>7
  <2> DEFINE start == From(j)
             before == f[j - 1]
  <2>10. start \in Int /\ before \in Int /\ p \in Int /\ q \in Int
    BY <2>3, <2>4, <2>8
  <2>11. start + p - before = start + q - before
    BY <1>10, <2>1, <2>9
  <2> HIDE DEF start, before
  <2> QED
    BY <2>10, <2>11
<1>11. ASSUME NEW a \in Nat, NEW e \in Episodes, Offered(a, e)
       PROVE  \E p \in Positions : I(p) = a
  <2>1. /\ Used(meta.episodes[e]) /\ meta.episodes[e].from <= a /\ a < meta.episodes[e].to - drop
        /\ meta.episodes[e].from \in Nat /\ meta.episodes[e].to \in Nat /\ drop \in Nat
    BY <1>11, Loaded, ReaderAssumption DEF Offered, LoadInv, ReaderTypeOK
  <2>2. Left(e) > 0
    BY <2>1 DEF Left
  <2>3. PICK k \in 1..n : Sampled[k] = e
    BY <2>1, <2>2, <1>1
  <2> DEFINE p == f[k - 1] + a - From(k)
  <2>4. /\ f[k] = f[k - 1] + Left(e) /\ f[k - 1] \in Int /\ f[k] \in Int
        /\ From(k) = meta.episodes[e].from
    BY <2>3, <1>3, <1>4
  <2>5. p \in Int /\ f[k - 1] <= p /\ p < f[k]
    <3> DEFINE start == meta.episodes[e].from
               end == meta.episodes[e].to
               before == f[k - 1]
    <3>1. /\ start \in Int /\ end \in Int /\ drop \in Int /\ before \in Int /\ f[k] \in Int
          /\ start <= a /\ a < end - drop /\ p = before + a - start
          /\ f[k] = before + (end - drop - start)
      BY <2>1, <2>4 DEF Left
    <3> HIDE DEF start, end, before, p
    <3>2. p \in Int /\ before <= p /\ p < f[k]
      BY <3>1
    <3> QED
      BY <3>2 DEF before
  <2>6. 0 <= f[k - 1] /\ f[k] <= f[n]
    <3>1. 0 \in 0..n /\ k - 1 \in 0..n /\ k \in 0..n /\ n \in 0..n /\ 0 <= k - 1 /\ k <= n
      BY <1>1
    <3> QED
      BY <3>1, <1>3, <1>4
  <2>7. p \in Positions /\ p \in Nat
    <3> HIDE DEF p
    <3> QED
      BY <2>4, <2>5, <2>6, <1>6 DEF Positions
  <2>8. I(p) = From(k) + p - f[k - 1]
    <3> HIDE DEF p
    <3> QED
      BY <2>5, <2>7, <1>2, PositionIn
  <2>9. From(k) + p - f[k - 1] = a
    BY <2>1, <2>4, SMTT(30)
  <2> QED
    BY <2>7, <2>8, <2>9
<1> QED
  BY <1>6, <1>9, <1>10, <1>11

-----------------------------------------------------------------------------
(* The row of a position                                                   *)

(* Through the mapping to relative rows and back, a frame's row is its own.*)
LEMMA RelativeBack ==
  ASSUME LoadInv, stage \in {"loaded", "ready"}, NEW a \in Nat,
         selection = Absent => a < Len(rows), selection # Absent => Relative(a) >= 0
  PROVE  /\ a + 1 \in Rows
         /\ Relative(a) \in 0..Len(Selected) - 1
         /\ Selected[Relative(a) + 1] = a + 1
<1> DEFINE S == {i \in DOMAIN rows : selection = Absent \/ rows[i].episode \in wanted}
           n == Cardinality(S)
<1>1. Len(rows) \in Nat /\ DOMAIN rows = 1..Len(rows)
  BY Loaded DEF Rows
<1>2. S \in SUBSET (1..Len(rows))
  BY <1>1
<1>3. Selected = InOrder(S)
  BY DEF Selected
<1>4. selection = Absent => S = 1..Len(rows)
  BY <1>1
<1> HIDE DEF S
<1>5. n \in Nat /\ Selected \in [1..n -> S]
  BY <1>1, <1>2, <1>3, InOrderLists
<1> HIDE DEF n
<1>6. Len(Selected) = n /\ DOMAIN Selected = 1..n
  BY <1>5
<1>7. CASE selection = Absent
  <2>1. Relative(a) = a /\ a < Len(rows) /\ a + 1 \in 1..Len(rows)
    BY <1>1, <1>7 DEF Relative
  <2>2. n = Len(rows) /\ Selected[a + 1] = a + 1
    BY <2>1, <1>1, <1>3, <1>4, <1>7, InOrderRange DEF n
  <2> QED
    BY <2>1, <2>2, <1>6 DEF Rows
<1>8. CASE selection # Absent
  <2> DEFINE k == CHOOSE k \in DOMAIN Selected : Selected[k] = a + 1
  <2>1. \E i \in DOMAIN Selected : Selected[i] = a + 1
    BY <1>8 DEF Relative
  <2>2. Relative(a) = k - 1
    BY <2>1, <1>8 DEF Relative
  <2>3. k \in DOMAIN Selected /\ Selected[k] = a + 1
    BY <2>1
  <2> HIDE DEF k
  <2>4. k \in 1..n /\ (k - 1) + 1 = k
    BY <2>3, <1>6
  <2>5. a + 1 \in S
    BY <2>3, <2>4, <1>5
  <2> QED
    BY <2>2, <2>3, <2>4, <2>5, <1>2, <1>5, <1>6 DEF Rows
<1> QED
  BY <1>7, <1>8

(* The sampler has been accepted.                                          *)
Accepted ==
  /\ Sampled # <<>>
  /\ selection # Absent => MappingAccepted(NewSampler)

Index(p) == FrameIndex(NewSampler, p)

LEMMA RowOfPosition ==
  ASSUME LoadInv, stage \in {"loaded", "ready"}, Accepted, NEW p \in Positions
  PROVE  /\ Index(p) \in Nat /\ Index(p) + 1 \in Rows
         /\ Relative(Index(p)) \in 0..Len(Selected) - 1
         /\ Selected[Relative(Index(p)) + 1] = Index(p) + 1
         /\ \E e : Offered(Index(p), e)
<1>1. PICK e : Offered(Index(p), e)
  BY PositionsServe DEF Accepted, Index
<1>2. /\ e \in Episodes
      /\ meta.episodes[e].from <= Index(p) /\ Index(p) < meta.episodes[e].to - drop
  BY <1>1 DEF Offered
<1>3. /\ meta.episodes[e].from \in Nat /\ meta.episodes[e].to \in Nat /\ drop \in Nat
      /\ meta.episodes[e].to <= Len(rows) /\ Len(rows) \in Nat
  BY <1>2, Loaded, ReaderAssumption DEF LoadInv, ReaderTypeOK
<1>4. Index(p) \in Int
  BY PositionsServe DEF Accepted, Index
<1> DEFINE i == Index(p)
<1>5. i \in Nat /\ i < Len(rows)
  <2> HIDE DEF i
  <2>1. i \in Int /\ meta.episodes[e].from <= i /\ i < meta.episodes[e].to - drop
    BY <1>2, <1>4 DEF i
  <2> QED
    BY <2>1, <1>3
<1>6. selection # Absent => Relative(i) >= 0
  <2>1. selection # Absent => Relative(i) \in 0..NumFrames(NewSampler) - 1
    BY DEF Accepted, MappingAccepted, Positions, Index
  <2>2. NumFrames(NewSampler) \in Int
    BY PositionsServe DEF Accepted
  <2> QED
    BY <2>1, <2>2
<1> HIDE DEF i
<1>7. i + 1 \in Rows /\ Relative(i) \in 0..Len(Selected) - 1 /\ Selected[Relative(i) + 1] = i + 1
  BY <1>5, <1>6, RelativeBack
<1> QED
  BY <1>1, <1>5, <1>7 DEF i

-----------------------------------------------------------------------------
(* Serving                                                                 *)

(* What fails a frame.                                                     *)
Unservable ==
  \/ \E i \in DOMAIN rows : rows[i].task \notin meta.tasks
  \/ chunk * Width(meta.info.features["action"]) > MaxValues

(* The frame served is row a, with a window cut for the episode it names.  *)
ServedFrom(a, d) ==
  /\ a + 1 \in Rows /\ d \in Episodes
  /\ rows[a + 1].episode = d - 1
  /\ frame = [row |-> rows[a + 1], window |-> Window(meta.episodes[d], a)]

ReadyInv ==
  stage = "ready" =>
    /\ Accepted /\ sampler = NewSampler
    /\ \/ frame = Absent
       \/ frame = Failed /\ Unservable
       \/ \E a \in Nat, d \in Episodes : ServedFrom(a, d)

(* Once loaded, what is served is cut out of values that do not change.    *)
Settings == <<request, fps, wanted, table, drop>>

LEMMA SelectedKept ==
  ASSUME UNCHANGED Settings
  PROVE  Selected' = Selected
BY DEF Settings, request, table, Selected

LEMMA SampledKept ==
  ASSUME UNCHANGED Settings
  PROVE  Sampled' = Sampled /\ NewSampler' = NewSampler
<1>1. Sampled' = Sampled
  BY DEF Settings, request, table, Sampled, Used, LeftOf
<1> QED
  BY <1>1 DEF Settings, request, table, NewSampler, LeftOf

LEMMA AcceptedKept ==
  ASSUME UNCHANGED Settings
  PROVE  Accepted' = Accepted
<1>1. \A a : Relative(a)' = Relative(a)
  BY SelectedKept DEF Settings, request, table, Relative
<1>2. MappingAccepted(NewSampler)' = MappingAccepted(NewSampler)
  BY <1>1, SampledKept DEF MappingAccepted, NumFrames, FrameIndex
<1> QED
  BY <1>2, SampledKept DEF Accepted, Settings, request

LEMMA WindowKept ==
  ASSUME UNCHANGED Settings
  PROVE  DeltaIndices' = DeltaIndices /\ \A e, a : Window(e, a)' = Window(e, a)
<1>1. DeltaIndices' = DeltaIndices
  BY DEF Settings, request, table, DeltaIndices
<1> QED
  BY <1>1 DEF Settings, request, table, Window

LEMMA UnservableKept ==
  ASSUME UNCHANGED Settings
  PROVE  Unservable' = Unservable
BY DEF Settings, request, table, Unservable

LEMMA ServedFromKept ==
  ASSUME UNCHANGED <<Settings, frame>>
  PROVE  \A a, d : ServedFrom(a, d) => ServedFrom(a, d)'
<1>1. UNCHANGED Settings /\ frame' = frame /\ rows' = rows /\ meta' = meta
  BY DEF Settings, table
<1>2. \A e, a : Window(e, a)' = Window(e, a)
  BY <1>1, WindowKept
<1> QED
  BY <1>1, <1>2 DEF ServedFrom, Rows, Episodes

LEMMA RoundTyped ==
  ASSUME NEW n \in Nat, NEW d \in Nat \ {0}
  PROVE  RoundHalfEven(n, d) \in Nat
<1>1. n \div d \in Int /\ n \div d >= 0
  OBVIOUS
<1> QED
  BY <1>1 DEF RoundHalfEven

LEMMA DeltaTyped ==
  ASSUME LoadInv, stage \in {"loaded", "ready"}
  PROVE  /\ chunk \in Nat
         /\ \A i \in 1..chunk : DeltaIndices[i] \in Nat
<1>1. chunk \in Nat /\ fps \in Nat \ {0}
  BY ReaderAssumption DEF LoadInv, ReaderTypeOK, Checked
<1>2. meta.info.fps \in Nat
  <2>1. meta.info \in {d.info : d \in AllDisks} /\ meta.info.fps > 0
    BY DEF LoadInv, Checked, InfoAccepted
  <2>2. \A d \in AllDisks : d.info.fps \in Int
    BY DiskTyped
  <2>3. meta.info.fps \in Int
    BY <2>1, <2>2
  <2> QED
    BY <2>1, <2>3
<1>3. ASSUME NEW i \in 1..chunk PROVE DeltaIndices[i] \in Nat
  <2> DEFINE n == (i - 1) * meta.info.fps
  <2>1. i - 1 \in Nat
    BY <1>1
  <2>2. n \in Nat
    BY <2>1, <1>2
  <2>3. DeltaIndices[i] = RoundHalfEven(n, fps)
    BY DEF DeltaIndices
  <2> HIDE DEF n
  <2> QED
    BY <2>2, <2>3, <1>1, RoundTyped
<1> QED
  BY <1>1, <1>3

LEMMA ClampedIn ==
  ASSUME NEW e, NEW target \in Int, e.from \in Nat, e.to \in Nat, e.from < e.to
  PROVE  /\ Clamped(e, target) \in Nat
         /\ e.from <= Clamped(e, target) /\ Clamped(e, target) < e.to
         /\ e.from <= target /\ target < e.to => Clamped(e, target) = target
         /\ target >= e.to => Clamped(e, target) = e.to - 1
BY DEF Clamped

LEMMA ActionWidth ==
  ASSUME LoadInv, stage \in {"files", "loaded", "ready"}
  PROVE  Width(meta.info.features["action"]) \in Nat
<1>1. InfoAccepted(meta.info) /\ "action" \in DOMAIN meta.info.features
  BY DEF LoadInv, Checked
<1>2. WidthFits(meta.info.features["action"])
  BY <1>1 DEF InfoAccepted
<1>3. Width(meta.info.features["action"]) \in 1..MaxWidth /\ MaxWidth \in Nat
  BY <1>2, ReaderAssumption DEF WidthFits
<1> QED
  BY <1>3

(* Whatever fails a frame that has a position, it is one of two things.    *)
LEMMA GetServes ==
  ASSUME LoadInv, ReadyInv, stage = "ready", NEW p \in Nat, p < NumFrames(sampler), Get(p)
  PROVE  \/ frame' = Failed /\ Unservable
         \/ \E a \in Nat, d \in Episodes :
              /\ a + 1 \in Rows /\ rows[a + 1].episode = d - 1
              /\ frame' = [row |-> rows[a + 1], window |-> Window(meta.episodes[d], a)]
<1>1. Accepted /\ sampler = NewSampler
  BY DEF ReadyInv
<1>2. p \in Positions
  <2>1. NumFrames(NewSampler) \in Int
    BY <1>1, PositionsServe DEF Accepted
  <2> QED
    BY <2>1, <1>1 DEF Positions
<1> DEFINE a == Index(p)
           index == Relative(a)
           row == rows[Selected[index + 1]]
           owner == {e \in DOMAIN meta.episodes : meta.episodes[e].index = row.episode}
           e == meta.episodes[Min(owner)]
           Ok == /\ index \in 0..Len(Selected) - 1
                 /\ owner # {}
                 /\ chunk * Width(meta.info.features["action"]) <= MaxValues
                 /\ WindowInRange(e, row.index)
                 /\ row.task \in meta.tasks
<1>3. /\ a \in Nat /\ a + 1 \in Rows
      /\ index \in 0..Len(Selected) - 1
      /\ Selected[index + 1] = a + 1
  BY <1>1, <1>2, RowOfPosition
<1>4. IF Ok THEN frame' = [row |-> row, window |-> Window(e, row.index)] ELSE frame' = Failed
  BY <1>1 DEF Get, Index
<1> HIDE DEF a, index
<1>5. row = rows[a + 1] /\ row.index = a
  BY <1>3, Loaded
<1>6. PICK d \in Episodes : row.episode = d - 1
  BY <1>3, <1>5, OwnFrames
<1>7. d \in owner /\ \A i \in owner : i = d
  <2>1. /\ DOMAIN meta.episodes = Episodes
        /\ \A i \in Episodes : meta.episodes[i].index = i - 1 /\ i \in Int
    BY Loaded DEF Episodes
  <2> QED
    BY <2>1, <1>6
<1>8. d \in Int
  BY <1>6 DEF Episodes
<1> HIDE DEF owner
<1>9. Min(owner) = d
  <2>1. owner = {d}
    BY <1>7
  <2>2. Min({d}) = CHOOSE x \in {d} : \A y \in {d} : x <= y
    BY DEF Min
  <2>3. d <= d
    BY <1>8
  <2> QED
    BY <2>1, <2>2, <2>3
<1>10. e = meta.episodes[d]
  BY <1>9
<1> HIDE DEF e, row
<1>11. CASE Ok
  <2>1. frame' = [row |-> row, window |-> Window(e, row.index)]
    BY <1>4, <1>11
  <2> QED
    BY <2>1, <1>3, <1>5, <1>6, <1>10
<1>12. CASE ~Ok
  <2>1. WindowInRange(e, a)
    <3>1. ASSUME NEW i \in 1..chunk PROVE Clamped(e, a + DeltaIndices[i]) \in 0..Len(rows) - 1
      <4> DEFINE target == a + DeltaIndices[i]
      <4>1. target \in Int
        BY <1>3, DeltaTyped
      <4>2. e.from \in Nat /\ e.to \in Nat /\ e.from < e.to /\ e.to <= Len(rows) /\ Len(rows) \in Nat
        BY <1>10, Loaded
      <4> HIDE DEF target
      <4>3. Clamped(e, target) \in Nat /\ Clamped(e, target) < e.to
        BY <4>1, <4>2, ClampedIn
      <4>4. Clamped(e, target) \in 0..Len(rows) - 1
        BY <4>2, <4>3
      <4> QED
        BY <4>4 DEF target
    <3> QED
      BY <3>1 DEF WindowInRange
  <2>2. \/ ~(chunk * Width(meta.info.features["action"]) <= MaxValues)
        \/ row.task \notin meta.tasks
    BY <2>1, <1>3, <1>5, <1>7, <1>12
  <2>3. Unservable
    <3>1. CASE row.task \notin meta.tasks
      <4>1. a + 1 \in DOMAIN rows
        BY <1>3, Loaded
      <4> QED
        BY <3>1, <4>1, <1>5 DEF Unservable
    <3>2. CASE ~(chunk * Width(meta.info.features["action"]) <= MaxValues)
      <4> DEFINE width == Width(meta.info.features["action"])
      <4>1. chunk \in Nat /\ width \in Nat /\ MaxValues \in Nat
        BY ActionWidth, DeltaTyped, ReaderAssumption
      <4> HIDE DEF width
      <4>2. chunk * width \in Nat
        BY <4>1
      <4>3. chunk * width > MaxValues
        BY <3>2, <4>1, <4>2 DEF width
      <4> QED
        BY <4>3 DEF Unservable, width
    <3> QED
      BY <2>2, <3>1, <3>2
  <2> QED
    BY <2>3, <1>4, <1>12
<1> QED
  BY <1>11, <1>12

LEMMA ReadyInitially == ReaderInit => ReadyInv
BY DEF ReaderInit, ReadyInv

LEMMA ReadyKeeps ==
  ASSUME LoadInv, ReadyInv, [ReaderNext]_readerVars
  PROVE  ReadyInv'
<1> USE DEF source, request, table
<1>1. ASSUME UNCHANGED <<Settings, stage, sampler, frame>> PROVE ReadyInv'
  <2> SUFFICES ASSUME stage' = "ready"
      PROVE  /\ Accepted' /\ sampler' = NewSampler'
             /\ \/ frame' = Absent
                \/ frame' = Failed /\ Unservable'
                \/ \E a \in Nat, d \in Episodes' : ServedFrom(a, d)'
    BY DEF ReadyInv
  <2>1. stage = "ready" /\ UNCHANGED Settings /\ UNCHANGED <<Settings, frame>>
    BY <1>1
  <2>2. Accepted' /\ sampler' = NewSampler'
    BY <1>1, <2>1, SampledKept, AcceptedKept DEF ReadyInv
  <2>3. CASE frame = Absent
    BY <1>1, <2>2, <2>3
  <2>4. CASE frame = Failed /\ Unservable
    BY <1>1, <2>1, <2>2, <2>4, UnservableKept
  <2>5. ASSUME NEW a \in Nat, NEW d \in Episodes, ServedFrom(a, d)
        PROVE  \E b \in Nat, e \in Episodes' : ServedFrom(b, e)'
    <3>1. ServedFrom(a, d)'
      BY <2>1, <2>5, ServedFromKept
    <3>2. d \in Episodes'
      BY <3>1 DEF ServedFrom
    <3> QED
      BY <3>1, <3>2
  <2> QED
    BY <2>1, <2>2, <2>3, <2>4, <2>5 DEF ReadyInv
<1>2. ASSUME stage' # "ready" PROVE ReadyInv'
  BY <1>2 DEF ReadyInv
<1>3. CASE Rewrite
  <2>1. UNCHANGED <<Settings, stage, sampler, frame>>
    BY <1>3 DEF Rewrite, Settings
  <2> QED
    BY <1>1, <2>1
<1>4. CASE Load
  <2>1. stage' # "ready"
    BY <1>4 DEF Load, ReadInfo, ReadEpisodeFile, ValidateEpisodes, CheckWindows, ReadDataFile,
                CheckConsistency, Reading, Refuse
  <2> QED
    BY <1>2, <2>1
<1>5. CASE BuildSampler
  <2>1. /\ stage = "loaded" /\ UNCHANGED Settings /\ frame' = frame
        /\ stage' # "ready" \/ (Accepted /\ sampler' = NewSampler)
    BY <1>5 DEF BuildSampler, Settings, Accepted
  <2>2. frame = Absent
    BY <2>1 DEF LoadInv, Checked
  <2>3. CASE Accepted /\ sampler' = NewSampler
    BY <2>1, <2>2, <2>3, SampledKept, AcceptedKept DEF ReadyInv
  <2> QED
    BY <1>2, <2>1, <2>3
<1>6. ASSUME NEW p \in 0..MaxRows - 1, stage = "ready", p < NumFrames(sampler), Get(p)
      PROVE  ReadyInv'
  <2>1. UNCHANGED Settings /\ sampler' = sampler /\ stage' = stage /\ meta' = meta /\ rows' = rows
    BY <1>6 DEF Get, Settings
  <2>2. Accepted' /\ sampler' = NewSampler'
    BY <1>6, <2>1, SampledKept, AcceptedKept DEF ReadyInv
  <2>3. p \in Nat
    BY ReaderAssumption
  <2>4. \/ frame' = Failed /\ Unservable
        \/ \E a \in Nat, d \in Episodes :
             /\ a + 1 \in Rows /\ rows[a + 1].episode = d - 1
             /\ frame' = [row |-> rows[a + 1], window |-> Window(meta.episodes[d], a)]
    BY <1>6, <2>3, GetServes
  <2>5. CASE frame' = Failed /\ Unservable
    BY <2>1, <2>2, <2>5, UnservableKept DEF ReadyInv
  <2>6. ASSUME NEW a \in Nat, NEW d \in Episodes, a + 1 \in Rows, rows[a + 1].episode = d - 1,
               frame' = [row |-> rows[a + 1], window |-> Window(meta.episodes[d], a)]
        PROVE  \E b \in Nat, e \in Episodes' : ServedFrom(b, e)'
    <3>1. \A e, b : Window(e, b)' = Window(e, b)
      BY <2>1, WindowKept
    <3>2. ServedFrom(a, d)' /\ d \in Episodes'
      BY <2>1, <2>6, <3>1 DEF ServedFrom, Rows, Episodes
    <3> QED
      BY <3>2
  <2> QED
    BY <2>2, <2>4, <2>5, <2>6 DEF ReadyInv
<1>7. CASE UNCHANGED readerVars
  <2>1. UNCHANGED <<Settings, stage, sampler, frame>>
    BY <1>7 DEF readerVars, Settings
  <2> QED
    BY <1>1, <2>1
<1> QED
  BY <1>3, <1>4, <1>5, <1>6, <1>7 DEF ReaderNext

LEMMA AlwaysReadyInv == ReaderSpec => [](LoadInv /\ ReadyInv)
BY LoadInitially, LoadKeeps, ReadyInitially, ReadyKeeps, PTL DEF ReaderSpec

(* A window is cut out of the frame's own episode, and padded beyond its   *)
(* last frame with that frame.                                             *)
LEMMA WindowOf ==
  ASSUME LoadInv, stage = "ready", NEW a \in Nat, NEW d \in Episodes, ServedFrom(a, d)
  PROVE  WindowsStayInEpisode
<1> DEFINE e == meta.episodes[d]
           Latest(r) == /\ r.episode = frame.row.episode
                        /\ \A s \in ToSet(rows) : s.episode = r.episode => s.index <= r.index
<1>1. /\ a + 1 \in Rows /\ frame.row = rows[a + 1] /\ frame.row.episode = d - 1
      /\ frame.row.index = a /\ frame.window = Window(e, a)
  BY Loaded DEF ServedFrom
<1>2. /\ e.from \in Nat /\ e.to \in Nat /\ e.from < e.to /\ e.to <= Len(rows) /\ Len(rows) \in Nat
  BY Loaded
<1>3. ASSUME NEW i \in Rows
      PROVE  /\ rows[i].index = i - 1 /\ i \in Nat
             /\ rows[i].episode = d - 1 <=> e.from <= i - 1 /\ i - 1 < e.to
  BY Loaded, OwnFrames DEF Rows
<1>4. e.from <= a /\ a < e.to
  <2>1. rows[a + 1].episode = d - 1 /\ (a + 1) - 1 = a
    BY <1>1
  <2>2. e.from <= (a + 1) - 1 /\ (a + 1) - 1 < e.to
    BY <1>1, <1>3, <2>1
  <2> HIDE DEF e
  <2> QED
    BY <2>1, <2>2
<1> HIDE DEF e
<1>5. ToSet(rows) = {rows[i] : i \in Rows}
  BY Loaded DEF ToSet
<1>6. e.to \in Rows /\ rows[e.to].episode = d - 1 /\ rows[e.to].index = e.to - 1
  <2>1. e.to \in Rows /\ e.from <= e.to - 1 /\ e.to - 1 < e.to
    BY <1>2 DEF Rows
  <2> QED
    BY <2>1, <1>3
<1>7. Latest(rows[e.to])
  <2>1. ASSUME NEW i \in Rows, rows[i].episode = d - 1 PROVE rows[i].index <= rows[e.to].index
    <3>1. rows[i].index = i - 1 /\ i \in Nat /\ i - 1 < e.to
      BY <2>1, <1>3
    <3> QED
      BY <3>1, <1>2, <1>6
  <2> QED
    BY <2>1, <1>1, <1>5, <1>6
<1>8. ASSUME NEW r \in ToSet(rows), Latest(r) PROVE r = rows[e.to]
  <2>1. PICK i \in Rows : r = rows[i]
    BY <1>5
  <2>2. r.episode = d - 1 /\ rows[e.to].index <= r.index
    BY <1>1, <1>5, <1>6, <1>8
  <2>3. i - 1 < e.to /\ i \in Nat /\ r.index = i - 1
    BY <2>1, <2>2, <1>3
  <2>4. i = e.to
    BY <2>2, <2>3, <1>2, <1>6
  <2> QED
    BY <2>1, <2>4
<1>9. rows[e.to] \in ToSet(rows)
  BY <1>5, <1>6
<1>10. (CHOOSE r \in ToSet(rows) : Latest(r)) = rows[e.to]
  <2> HIDE DEF Latest
  <2> QED
    BY <1>7, <1>8, <1>9
<1>11. chunk \in Nat /\ DOMAIN Window(e, a) = 1..chunk
  BY DeltaTyped DEF Window
<1>12. ASSUME NEW i \in 1..chunk
       PROVE  LET w == Window(e, a)[i]
              IN  /\ w.row.episode = d - 1
                  /\ ~w.pad => w.row.index = a + DeltaIndices[i]
                  /\ w.pad => w.row = rows[e.to] /\ rows[e.to].index < a + DeltaIndices[i]
  <2> DEFINE target == a + DeltaIndices[i]
             place == Clamped(e, target)
             w == Window(e, a)[i]
  <2>1. target \in Int /\ target >= a
    <3>1. DeltaIndices[i] \in Nat
      BY DeltaTyped
    <3> QED
      BY <3>1
  <2>2. /\ w.row = rows[1 + place]
        /\ ~w.pad => target \in e.from .. e.to - 1
        /\ w.pad => target \notin e.from .. e.to - 1
    <3>1. w = [row |-> rows[1 + place], pad |-> target \notin e.from .. e.to - 1]
      BY DEF Window
    <3> HIDE DEF w
    <3> QED
      BY <3>1
  <2> HIDE DEF w, target
  <2>3. /\ place \in Nat /\ e.from <= place /\ place < e.to
        /\ e.from <= target /\ target < e.to => place = target
        /\ target >= e.to => place = e.to - 1
    BY <2>1, <1>2, ClampedIn
  <2> HIDE DEF place
  <2>4. 1 + place \in Rows /\ (1 + place) - 1 = place
    BY <2>3, <1>2 DEF Rows
  <2>5. rows[1 + place].episode = d - 1 /\ rows[1 + place].index = place
    BY <2>3, <2>4, <1>3
  <2>6. e.from <= target
    BY <2>1, <1>2, <1>4
  <2>7. ~w.pad => target < e.to
    BY <2>1, <2>2, <1>2
  <2>8. w.pad => target >= e.to
    BY <2>1, <2>2, <2>6, <1>2
  <2>9. w.pad => w.row = rows[e.to] /\ rows[e.to].index < target
    <3>1. SUFFICES ASSUME w.pad PROVE w.row = rows[e.to] /\ rows[e.to].index < target
      OBVIOUS
    <3>2. place = e.to - 1 /\ 1 + place = e.to
      BY <2>3, <2>8, <3>1, <1>2
    <3> QED
      BY <2>1, <2>2, <2>8, <3>1, <3>2, <1>2, <1>6
  <2>10. ~w.pad => w.row.index = target
    BY <2>2, <2>3, <2>5, <2>6, <2>7
  <2> QED
    BY <2>2, <2>5, <2>9, <2>10 DEF w, target
<1> QED
  BY <1>1, <1>10, <1>11, <1>12, ZenonT(30) DEF WindowsStayInEpisode

(* Every window that is served is of frames of the episode of its frame,   *)
(* each at its offset, and what lies past the end is that episode's last   *)
(* frame, marked as padding. (delta windows in LoadedDataset::get.)        *)
THEOREM WindowsNeverLeave == ReaderSpec => []WindowsStayInEpisode
<1>1. LoadInv /\ ReadyInv => WindowsStayInEpisode
  <2> SUFFICES ASSUME LoadInv, ReadyInv, frame # Absent, frame # Failed
      PROVE  WindowsStayInEpisode
    BY DEF WindowsStayInEpisode
  <2>1. stage = "ready"
    BY DEF LoadInv, Checked
  <2>2. PICK a \in Nat, d \in Episodes : ServedFrom(a, d)
    BY <2>1 DEF ReadyInv
  <2> QED
    BY <2>1, <2>2, WindowOf
<1> QED
  BY <1>1, AlwaysReadyInv, PTL

(* A frame is offered if its episode is used and has drop more frames      *)
(* after it.                                                               *)
LEMMA OfferedRows ==
  ASSUME LoadInv, stage \in {"loaded", "ready"}, NEW i \in Rows
  PROVE  (\E e : Offered(i - 1, e)) <=>
           /\ selection = Absent \/ rows[i].episode \in ToSet(selection)
           /\ \E j \in Rows : rows[j].episode = rows[i].episode /\ rows[j].index = rows[i].index + drop
<1>1. ASSUME NEW j \in Rows
      PROVE  /\ rows[j].index = j - 1 /\ j \in Nat
             /\ \E e \in Episodes : rows[j].episode = e - 1
             /\ \A e \in Episodes : rows[j].episode = e - 1 <=>
                  meta.episodes[e].from <= j - 1 /\ j - 1 < meta.episodes[e].to
  BY Loaded, OwnFrames DEF Rows
<1>2. PICK d \in Episodes : rows[i].episode = d - 1
  BY <1>1
<1> DEFINE from == meta.episodes[d].from
           to == meta.episodes[d].to
<1>3. /\ from \in Nat /\ to \in Nat /\ to <= Len(rows) /\ Len(rows) \in Nat
      /\ meta.episodes[d].index = d - 1 /\ d \in Int /\ drop \in Nat
  BY Loaded, ReaderAssumption DEF Episodes, LoadInv, ReaderTypeOK
<1>4. ASSUME NEW j \in Rows PROVE rows[j].episode = d - 1 <=> from <= j - 1 /\ j - 1 < to
  BY <1>1
<1>5. \A e \in Episodes : rows[i].episode = e - 1 => e = d
  BY <1>2, <1>3 DEF Episodes
<1>6. ASSUME NEW e, Offered(i - 1, e) PROVE e = d
  <2> DEFINE end == meta.episodes[e].to
  <2>1. /\ e \in Episodes /\ meta.episodes[e].from <= i - 1 /\ i - 1 < end - drop
        /\ end \in Nat
    BY <1>6, Loaded DEF Offered
  <2> HIDE DEF end
  <2>2. i \in Nat
    BY <1>1
  <2>3. i - 1 < end
    BY <2>1, <2>2, <1>3
  <2>4. i - 1 < meta.episodes[e].to
    BY <2>3 DEF end
  <2> QED
    BY <2>1, <2>4, <1>1, <1>5
<1> HIDE DEF from, to
<1>7. Used(meta.episodes[d]) <=> selection = Absent \/ rows[i].episode \in ToSet(selection)
  BY <1>2, <1>3 DEF Used
<1>8. from <= i - 1 /\ i - 1 < to
  BY <1>2, <1>4
<1>9. ASSUME i - 1 < to - drop
      PROVE  \E j \in Rows : rows[j].episode = rows[i].episode /\ rows[j].index = rows[i].index + drop
  <2>1. i + drop \in Rows /\ from <= (i + drop) - 1 /\ (i + drop) - 1 < to
    BY <1>1, <1>3, <1>8, <1>9 DEF Rows
  <2>2. rows[i + drop].index = rows[i].index + drop
    <3> DEFINE j == i + drop
    <3>1. rows[j].index = j - 1 /\ rows[i].index = i - 1 /\ i \in Nat
      BY <2>1, <1>1
    <3>2. j - 1 = (i - 1) + drop
      BY <3>1, <1>3
    <3> HIDE DEF j
    <3>3. rows[j].index = rows[i].index + drop
      BY <3>1, <3>2
    <3> QED
      BY <3>3 DEF j
  <2>3. rows[i + drop].episode = d - 1
    BY <2>1, <1>4
  <2> QED
    BY <2>1, <2>2, <2>3, <1>2
<1>10. ASSUME NEW j \in Rows, rows[j].episode = rows[i].episode,
              rows[j].index = rows[i].index + drop
       PROVE  i - 1 < to - drop
  <2>1. j - 1 < to
    BY <1>2, <1>4, <1>10
  <2>2. j - 1 = (i - 1) + drop /\ i \in Nat /\ j \in Nat
    BY <1>1, <1>10
  <2> QED
    BY <2>1, <2>2, <1>3
<1>11. Offered(i - 1, d) <=> Used(meta.episodes[d]) /\ i - 1 < to - drop
  BY <1>8 DEF Offered, from, to
<1> QED
  BY <1>6, <1>7, <1>9, <1>10, <1>11

(* The sampler serves each frame of the selection once, but for the last   *)
(* ones of each episode that it drops, and no other.                       *)
THEOREM SelectionServedOnce == ReaderSpec => []SamplerServesSelection
<1>1. LoadInv /\ ReadyInv => SamplerServesSelection
  <2> SUFFICES ASSUME LoadInv, ReadyInv, stage = "ready" PROVE SamplerServesSelection
    BY DEF SamplerServesSelection
  <2> DEFINE served == [p \in 0..NumFrames(sampler) - 1 |->
                          rows[Selected[Relative(FrameIndex(sampler, p)) + 1]]]
             asked == {r \in ToSet(rows) :
                         /\ selection = Absent \/ r.episode \in ToSet(selection)
                         /\ \E s \in ToSet(rows) : s.episode = r.episode /\ s.index = r.index + drop}
  <2>1. Accepted /\ sampler = NewSampler
    BY DEF ReadyInv
  <2>2. DOMAIN served = Positions
    BY <2>1 DEF Positions
  <2>3. ASSUME NEW p \in Positions
        PROVE  /\ served[p] = rows[Index(p) + 1]
               /\ Index(p) \in Nat /\ Index(p) + 1 \in Rows /\ \E e : Offered(Index(p), e)
    BY <2>1, RowOfPosition DEF Positions, Index
  <2>4. \A i \in Rows : rows[i].index = i - 1 /\ i \in Nat
    BY Loaded DEF Rows
  <2>5. ToSet(rows) = {rows[i] : i \in Rows}
    BY Loaded DEF ToSet
  <2>6. /\ \A p, q \in Positions : Index(p) = Index(q) => p = q
        /\ \A a \in Nat, e \in Episodes : Offered(a, e) => \E p \in Positions : Index(p) = a
    BY <2>1, PositionsServe DEF Accepted, Index
  <2> HIDE DEF served
  <2>7. ASSUME NEW p \in Positions, NEW q \in Positions, served[p] = served[q] PROVE p = q
    <3>1. rows[Index(p) + 1].index = Index(p)
      BY <2>3, <2>4
    <3>2. rows[Index(q) + 1].index = Index(q)
      BY <2>3, <2>4
    <3>3. Index(p) = Index(q)
      BY <2>3, <2>7, <3>1, <3>2
    <3> QED
      BY <2>6, <3>3
  <2>8. ASSUME NEW p \in Positions PROVE served[p] \in asked
    <3> DEFINE i == Index(p) + 1
    <3>1. i \in Rows /\ i - 1 = Index(p) /\ served[p] = rows[i] /\ \E e : Offered(i - 1, e)
      <4>1. i - 1 = Index(p)
        BY <2>3
      <4> QED
        BY <4>1, <2>3
    <3> HIDE DEF i
    <3>2. /\ selection = Absent \/ rows[i].episode \in ToSet(selection)
          /\ \E j \in Rows : rows[j].episode = rows[i].episode /\ rows[j].index = rows[i].index + drop
      BY <3>1, OfferedRows
    <3> QED
      BY <3>1, <3>2, <2>5
  <2>9. ASSUME NEW r \in asked PROVE \E p \in Positions : served[p] = r
    <3>1. PICK i \in Rows : r = rows[i]
      BY <2>5
    <3>2. /\ selection = Absent \/ rows[i].episode \in ToSet(selection)
          /\ \E j \in Rows : rows[j].episode = rows[i].episode /\ rows[j].index = rows[i].index + drop
      BY <3>1, <2>5
    <3>3. PICK e : Offered(i - 1, e)
      BY <3>2, OfferedRows
    <3>4. e \in Episodes /\ i - 1 \in Nat /\ (i - 1) + 1 = i
      BY <3>3 DEF Offered, Rows
    <3>5. PICK p \in Positions : Index(p) = i - 1
      BY <3>3, <3>4, <2>6
    <3> QED
      BY <3>1, <3>4, <3>5, <2>3
  <2> HIDE DEF asked
  <2>10. {served[p] : p \in Positions} = asked
    BY <2>8, <2>9
  <2>11. /\ \A p, q \in DOMAIN served : p # q => served[p] # served[q]
         /\ {served[p] : p \in DOMAIN served} = asked
    BY <2>2, <2>7, <2>10
  <2> QED
    BY <2>11 DEF SamplerServesSelection, served, asked
<1> QED
  BY <1>1, AlwaysReadyInv, PTL

LEMMA WindowTyped ==
  ASSUME LoadInv, stage \in {"loaded", "ready"}, NEW a \in Nat, NEW d \in Episodes
  PROVE  Window(meta.episodes[d], a)
           \in UNION {[1..c -> [row : FrameRows, pad : BOOLEAN]] : c \in Chunks}
<1> DEFINE e == meta.episodes[d]
           w == Window(e, a)
           Elements == [row : FrameRows, pad : BOOLEAN]
<1>1. /\ e.from \in Nat /\ e.to \in Nat /\ e.from < e.to /\ e.to <= Len(rows) /\ Len(rows) \in Nat
      /\ \A i \in Rows : rows[i] \in FrameRows
  BY Loaded
<1>3. chunk \in Chunks
  BY DEF LoadInv, ReaderTypeOK
<1>4. ASSUME NEW i \in 1..chunk PROVE w[i] \in Elements
  <2> DEFINE place == Clamped(e, a + DeltaIndices[i])
  <2>1. w[i] = [row |-> rows[1 + place], pad |-> a + DeltaIndices[i] \notin e.from .. e.to - 1]
    BY DEF Window
  <2>2. 1 + place \in Rows
    <3> DEFINE target == a + DeltaIndices[i]
    <3>1. target \in Int
      BY DeltaTyped
    <3> HIDE DEF e, target
    <3>2. Clamped(e, target) \in Nat /\ Clamped(e, target) < e.to
      BY <3>1, <1>1, ClampedIn
    <3>3. 1 + Clamped(e, target) \in Rows
      BY <3>2, <1>1 DEF Rows
    <3> QED
      BY <3>3 DEF target
  <2> HIDE DEF place, e
  <2>3. rows[1 + place] \in FrameRows
    BY <2>2, <1>1
  <2> HIDE DEF w
  <2> QED
    BY <2>1, <2>3
<1> HIDE DEF Elements
<1>5. w \in [1..chunk -> Elements]
  BY <1>4 DEF Window
<1> QED
  BY <1>3, <1>5 DEF Elements

(* What has been loaded can be served, but for a task nobody described and *)
(* a window that is too large.                                             *)
THEOREM FailuresAreExplained == ReaderSpec => FailuresExplained
<1> DEFINE Explained == frame' = Failed => Unservable
<1>1. LoadInv /\ ReadyInv /\ [ReaderNext]_readerVars => [Explained]_readerVars
  <2> SUFFICES ASSUME LoadInv, ReadyInv, ReaderNext, frame' = Failed PROVE Unservable
    BY DEF Explained
  <2>1. Failed # Absent
    BY ReaderAssumption
  <2>2. ASSUME NEW a \in Nat, NEW d \in Episodes, a + 1 \in Rows, stage \in {"loaded", "ready"}
        PROVE  Failed # [row |-> rows[a + 1], window |-> Window(meta.episodes[d], a)]
    <3> DEFINE Windows == UNION {[1..c -> [row : FrameRows, pad : BOOLEAN]] : c \in Chunks}
               w == Window(meta.episodes[d], a)
    <3>1. w \in Windows
      BY <2>2, WindowTyped
    <3>2. rows[a + 1] \in FrameRows
      BY <2>2, Loaded
    <3>3. Failed \notin [row : FrameRows, window : Windows]
      BY ReaderAssumption
    <3> HIDE DEF Windows, w
    <3>4. [row |-> rows[a + 1], window |-> w] \in [row : FrameRows, window : Windows]
      BY <3>1, <3>2
    <3> QED
      BY <3>3, <3>4 DEF w
  <2>3. ASSUME frame' = frame PROVE Unservable
    <3>1. frame # Absent /\ stage = "ready"
      BY <2>1, <2>3 DEF LoadInv, Checked
    <3> QED
      BY <2>2, <2>3, <3>1 DEF ReadyInv, ServedFrom
  <2>4. CASE Rewrite
    BY <2>3, <2>4 DEF Rewrite
  <2>5. CASE Load
    BY <2>3, <2>5 DEF Load, ReadInfo, ReadEpisodeFile, ValidateEpisodes, CheckWindows, ReadDataFile,
                      CheckConsistency, Reading
  <2>6. CASE BuildSampler
    BY <2>3, <2>6 DEF BuildSampler
  <2>7. ASSUME NEW p \in 0..MaxRows - 1, stage = "ready", p < NumFrames(sampler), Get(p)
        PROVE  Unservable
    <3>1. p \in Nat
      BY ReaderAssumption
    <3> QED
      BY <2>2, <2>7, <3>1, GetServes
  <2> QED
    BY <2>4, <2>5, <2>6, <2>7 DEF ReaderNext
<1>2. [Explained]_readerVars => [frame' = Failed =>
           \/ \E i \in DOMAIN rows : rows[i].task \notin meta.tasks
           \/ chunk * Width(meta.info.features["action"]) > MaxValues ]_readerVars
  BY DEF Unservable
<1> QED
  BY <1>1, <1>2, AlwaysReadyInv, PTL DEF ReaderSpec, FailuresExplained

==============================================================================
