---------------------------- MODULE DatasetReader -----------------------------
(***************************************************************************)
(* Opening a LeRobot dataset and serving frames of it: rerobot-train       *)
(* data/meta.rs, parquet.rs, dataset.rs, image.rs, and rerobot-core        *)
(* dataset/info.rs, delta.rs, sampler.rs.                                  *)
(*                                                                         *)
(* A session reads the metadata once for the frame rate, once for the      *)
(* number of episodes if it selects some, and once more with the frames,   *)
(* file after file, while somebody else may record the dataset anew.  It   *)
(* refuses what does not fit together, then cuts windows out of what it    *)
(* holds in memory.                                                        *)
(*                                                                         *)
(* Abstracted: a row of a table is what it says of itself; the values of   *)
(* a feature are their number, an image its format and extent; what the    *)
(* decoder of a file refuses is a file with `readable` false.  Operators   *)
(* named ...Slip are not the program.                                      *)
(***************************************************************************)
EXTENDS Integers, FiniteSets, SequencesExt, Sums

CONSTANTS
  Disks,         \* what may be at the root, see Disk
  Rewrites,      \* the disks somebody may record over it
  MaxRewrites,   \* bound: how often that happens
  Selections,    \* the episodes asked for: sequences, or Absent for all
  Chunks,        \* chunk sizes of the action window
  Drops,         \* drop_n_last_frames of the sampler, 0 in training
  Tolerance,     \* tolerance_s, in thousandths of a second
  MaxWidth,      \* MAX_FEATURE_WIDTH
  MaxExtent,     \* MAX_IMAGE_EXTENT
  MaxFiles,      \* of the episode table, and of the data
  MaxRows,       \* of either, over all files
  MaxValues,     \* MAX_DECODED_VALUES, of all files and of a window
  Absent,
  Failed

(* What a row of either table says of itself, as far as a proof has to     *)
(* know.                                                                   *)
EpisodeRows == [index : Int, from : Int, to : Int, length : Int, file : Int]
RowsOf(d) == UNION {ToSet(d.files[name].rows) : name \in DOMAIN d.files}
FrameRows == UNION {RowsOf(d) : d \in Disks \cup Rewrites}

ASSUME ReaderAssumption ==
  /\ \A d \in Disks \cup Rewrites :
       /\ d.info.fps \in Int /\ d.info.frames \in Int
       /\ d.episodeFiles \in Seq([readable : BOOLEAN, rows : Seq(EpisodeRows)])
       /\ \A name \in DOMAIN d.files : d.files[name].rows \in Seq(RowsOf(d))
       /\ \A row \in RowsOf(d) : row.index \in Int /\ row.episode \in Int
  /\ Chunks \subseteq Nat /\ Drops \subseteq Nat
  /\ MaxWidth \in Nat /\ MaxRows \in Nat /\ MaxValues \in Nat
  /\ Failed # Absent
  /\ Failed \notin [row : FrameRows,
                    window : UNION {[1..c -> [row : FrameRows, pad : BOOLEAN]] : c \in Chunks}]

VARIABLES
  disk,      \* [info, stats, tasks, episodeFiles, files]
  rewrites,  \* history: times it was recorded anew
  stage,     \* where the session has come to
  pass,      \* the time the metadata is being read for: 1, 2, 3
  selection, \* dataset_episodes
  chunk,     \* policy.chunk_size
  fps,       \* of the first pass
  wanted,    \* the selected episodes that the second pass found in range
  meta,      \* metadata: [info, stats, tasks, episodes]
  readFiles, \* files read by the current loop
  rows,      \* the frames, in the order of the files
  values,    \* decoded scalars
  drop,      \* what the sampler is built with
  sampler,   \* [starts, lengths, relative], or Absent
  frame      \* the last frame served, Failed, or Absent

source == <<disk, rewrites>>
request == <<selection, chunk>>
table == <<meta, rows, values>>
readerVars == <<source, stage, pass, request, fps, wanted, table, readFiles, drop,
                sampler, frame>>

(* The members of a finite set of numbers, from the least on.              *)
InOrder(S) ==
  [k \in 1..Cardinality(S) |-> CHOOSE n \in S : Cardinality({m \in S : m <= n}) = k]

(***************************************************************************)
(* Declarations of features                                                *)
(***************************************************************************)
ScalarColumns == {"timestamp", "frame_index", "episode_index", "index", "task_index"}

IsCamera(spec) == spec.dtype = "image"

(* The names say which axis is the channel.                                *)
PolicyShape(spec) ==
  IF spec.dtype \in {"image", "video"} /\ Len(spec.shape) = 3 /\ spec.channelLast
  THEN <<spec.shape[3], spec.shape[1], spec.shape[2]>>
  ELSE spec.shape

Width(spec) == Product(spec.shape)

(* width: every extent fits, none is zero.                                 *)
WidthFits(spec) ==
  /\ \A i \in DOMAIN spec.shape : spec.shape[i] \in 0..MaxWidth
  /\ Width(spec) \in 1..MaxWidth

(* image_shape                                                             *)
ImageFits(spec) ==
  LET shape == PolicyShape(spec)
  IN /\ Len(spec.shape) = 3
     /\ shape[1] = 3
     /\ shape[2] \in 1..MaxExtent /\ shape[3] \in 1..MaxExtent
     /\ Product(shape) <= MaxWidth

(* from_dict, post_init, parse_features, refuse_video_features.  A total   *)
(* that is absent is zero.                                                 *)
InfoAccepted(info) ==
  /\ info.fps > 0 /\ info.sizes > 0
  /\ \A name \in DOMAIN info.features :
       info.features[name].dtype # "video" /\ WidthFits(info.features[name])

(* load_camera_stats; of other features each statistic is a flat vector.   *)
StatsAccepted(info, stats) ==
  \A name \in DOMAIN stats :
    IF name \in DOMAIN info.features /\ IsCamera(info.features[name])
    THEN stats[name].mean > 0 /\ stats[name].mean = stats[name].std
    ELSE ~stats[name].nested

(***************************************************************************)
(* The metadata                                                            *)
(***************************************************************************)
NoMeta == [info |-> Absent, stats |-> Absent, tasks |-> Absent, episodes |-> <<>>]

ReaderInit ==
  /\ disk \in Disks /\ rewrites = 0
  /\ stage = "info" /\ pass = 1
  /\ selection \in Selections /\ chunk \in Chunks
  /\ fps = Absent /\ wanted = {}
  /\ meta = NoMeta
  /\ readFiles = 0 /\ rows = <<>> /\ values = 0
  /\ drop \in Drops
  /\ sampler = Absent /\ frame = Absent

(* Somebody records the dataset anew, at any time.                         *)
Rewrite ==
  /\ rewrites < MaxRewrites
  /\ disk' \in Rewrites \ {disk}
  /\ rewrites' = rewrites + 1
  /\ UNCHANGED <<stage, pass, request, fps, wanted, table, readFiles, drop, sampler, frame>>

Refuse ==
  /\ stage' = "refused"
  /\ UNCHANGED <<fps, wanted, pass, table, readFiles>>

Reading(s) == stage = s /\ UNCHANGED <<source, request, drop, sampler, frame>>

(* info.json and stats.json, tasks.parquet.                                *)
ReadInfo ==
  /\ Reading("info")
  /\ IF InfoAccepted(disk.info) /\ StatsAccepted(disk.info, disk.stats)
     THEN /\ meta' = [info |-> disk.info, stats |-> disk.stats,
                      tasks |-> disk.tasks, episodes |-> <<>>]
          /\ stage' = "episodes" /\ readFiles' = 0
          /\ UNCHANGED <<fps, wanted, pass, rows, values>>
     ELSE Refuse

RowsFit(file) == file.readable /\ Len(file.rows) <= MaxRows

(* load_episodes: one file, while the total stays within its budget.       *)
ReadEpisodeFile ==
  /\ Reading("episodes")
  /\ readFiles < Len(disk.episodeFiles)
  /\ LET file == disk.episodeFiles[readFiles + 1]
     IN IF /\ Len(disk.episodeFiles) <= MaxFiles
           /\ RowsFit(file)
           /\ Len(meta.episodes) + Len(file.rows) <= MaxRows
        THEN /\ meta' = [meta EXCEPT !.episodes = @ \o file.rows]
             /\ readFiles' = readFiles + 1
             /\ UNCHANGED <<stage, fps, wanted, pass, rows, values>>
        ELSE Refuse

Inserted(sorted, e) ==
  LET n == Cardinality({i \in DOMAIN sorted : sorted[i].index <= e.index})
  IN SubSeq(sorted, 1, n) \o <<e>> \o SubSeq(sorted, n + 1, Len(sorted))

(* A stable sort.                                                          *)
ByIndex(episodes) ==
  LET sorted[n \in 0..Len(episodes)] ==
        IF n = 0 THEN <<>> ELSE Inserted(sorted[n - 1], episodes[n])
  IN sorted[Len(episodes)]

EpisodesAcceptedSlip(info, episodes) == \* the ranges are not compared
  /\ \A i \in DOMAIN episodes :
       /\ episodes[i].index = i - 1 /\ episodes[i].length > 0
       /\ episodes[i].to - episodes[i].from = episodes[i].length
  /\ info.frames = IF episodes = <<>> THEN 0 ELSE Last(episodes).to

(* validate_episodes: the indices are 0..n-1, every range is as long as    *)
(* its episode, and the ranges tile the frames that info.json declares.    *)
EpisodesAccepted(info, episodes) ==
  /\ info.frames >= 0
  /\ \A i \in DOMAIN episodes :
       /\ episodes[i].index = i - 1
       /\ episodes[i].length > 0
       /\ episodes[i].to - episodes[i].from = episodes[i].length
       /\ episodes[i].from = IF i = 1 THEN 0 ELSE episodes[i - 1].to
       /\ episodes[i].file >= 0
  /\ info.frames = IF episodes = <<>> THEN 0 ELSE Last(episodes).to

(* The metadata is complete: the frame rate is taken, then the episodes    *)
(* that are in range, then the frames are read.                            *)
ValidateEpisodes ==
  /\ Reading("episodes")
  /\ readFiles >= Len(disk.episodeFiles)
  /\ LET episodes == ByIndex(meta.episodes)
     IN IF readFiles > 0 /\ EpisodesAccepted(meta.info, episodes)
        THEN /\ meta' = [meta EXCEPT !.episodes = episodes]
             /\ fps' = IF pass = 1 THEN meta.info.fps ELSE fps
             /\ wanted' = IF pass = 2
                          THEN {e \in ToSet(selection) : e \in 0..meta.info.episodes - 1}
                          ELSE wanted
             /\ pass' = IF pass = 1 /\ selection = Absent THEN 3
                        ELSE IF pass < 3 THEN pass + 1 ELSE pass
             /\ stage' = IF pass < 3 THEN "info" ELSE "windows"
             /\ readFiles' = 0
             /\ UNCHANGED <<rows, values>>
        ELSE Refuse

(***************************************************************************)
(* The frames                                                              *)
(***************************************************************************)
(* python_round_half_even of n / d                                         *)
RoundHalfEven(n, d) ==
  LET q == n \div d
      twice == 2 * (n % d)
  IN IF twice < d \/ (twice = d /\ q % 2 = 0) THEN q ELSE q + 1

Distance(a, b) == IF a > b THEN a - b ELSE b - a

(* The window asked for is step i at i / fps, in the frame rate of the     *)
(* first pass; it is laid over the frames in that of the last one.         *)
DeltaIndices == [i \in 1..chunk |-> RoundHalfEven((i - 1) * meta.info.fps, fps)]

(* check_delta_timestamps: the deviation from the grid, in seconds.        *)
OnTheGrid ==
  \A i \in 1..chunk :
    1000 * Distance((i - 1) * meta.info.fps, DeltaIndices[i] * fps)
      <= Tolerance * fps * meta.info.fps

ValueKeys == {name \in DOMAIN meta.info.features \ ScalarColumns :
               ~IsCamera(meta.info.features[name])}
Cameras == {name \in DOMAIN meta.info.features : IsCamera(meta.info.features[name])}

DataFiles == InOrder({meta.episodes[i].file : i \in DOMAIN meta.episodes})

CheckWindows ==
  /\ Reading("windows")
  /\ IF OnTheGrid /\ "action" \in ValueKeys \cup (ScalarColumns \cap DOMAIN meta.info.features)
        /\ Len(DataFiles) <= MaxFiles
     THEN stage' = "files" /\ UNCHANGED <<fps, wanted, pass, table, readFiles>>
     ELSE Refuse

(* from_encoded: a PNG or JPEG, of the extent that is declared.            *)
CellDecodes(cell, spec) ==
  /\ cell.format \in {"png", "jpeg"}
  /\ <<3, cell.height, cell.width>> = PolicyShape(spec)

(* vector_column, image_column, i64_column: present, none null, every row  *)
(* of the declared width.                                                  *)
ColumnsRead(file) ==
  /\ \A name \in ValueKeys :
       \A i \in DOMAIN file.rows :
         /\ name \in DOMAIN file.rows[i].widths
         /\ file.rows[i].widths[name] = Width(meta.info.features[name])
  /\ \A name \in Cameras :
       /\ ImageFits(meta.info.features[name])
       /\ \A i \in DOMAIN file.rows :
            /\ name \in DOMAIN file.rows[i].images
            /\ CellDecodes(file.rows[i].images[name], meta.info.features[name])

ValuesOf(file) ==
  Len(file.rows) * SumOf([i \in 1..Cardinality(ValueKeys \cup Cameras) |->
    Width(meta.info.features[SetToSeq(ValueKeys \cup Cameras)[i]])])

(* One file of the loop of load_within, within the budgets of all files.   *)
ReadDataFile ==
  /\ Reading("files")
  /\ readFiles < Len(DataFiles)
  /\ LET name == DataFiles[readFiles + 1]
     IN IF /\ name \in DOMAIN disk.files
           /\ RowsFit(disk.files[name])
           /\ Len(rows) + Len(disk.files[name].rows) <= MaxRows
           /\ values + ValuesOf(disk.files[name]) <= MaxValues
           /\ ColumnsRead(disk.files[name])
        THEN /\ rows' = rows \o disk.files[name].rows
             /\ values' = values + ValuesOf(disk.files[name])
             /\ readFiles' = readFiles + 1
             /\ UNCHANGED <<stage, fps, wanted, pass, meta>>
        ELSE Refuse

EpisodeOf(absolute) ==
  {i \in DOMAIN meta.episodes :
     absolute \in meta.episodes[i].from .. meta.episodes[i].to - 1}

ConsistentSlip == \* the frames' own episode_index is not looked at
  Len(rows) = meta.info.frames /\ \A i \in DOMAIN rows : rows[i].index = i - 1

(* check_consistency: as many rows as declared, each in its place and in   *)
(* the episode it names.                                                   *)
Consistent ==
  /\ Len(rows) = meta.info.frames
  /\ \A i \in DOMAIN rows :
       /\ rows[i].index = i - 1
       /\ \E e \in EpisodeOf(rows[i].index) : meta.episodes[e].index = rows[i].episode

CheckConsistency ==
  /\ Reading("files")
  /\ readFiles = Len(DataFiles)
  /\ IF Consistent
     THEN stage' = "loaded" /\ UNCHANGED <<fps, wanted, pass, table, readFiles>>
     ELSE Refuse

(* The rows of the selected episodes, in order; all of them if none are    *)
(* selected.                                                               *)
Selected == InOrder({i \in DOMAIN rows : selection = Absent \/ rows[i].episode \in wanted})

(***************************************************************************)
(* The sampler                                                             *)
(***************************************************************************)
Used(e) == selection = Absent \/ e.index \in ToSet(selection)

LeftOf(e) == e.to - drop - e.from

Sampled ==
  InOrder({i \in DOMAIN meta.episodes : Used(meta.episodes[i]) /\ LeftOf(meta.episodes[i]) > 0})

(* EpisodeAwareSampler::new: start and cumulative length of each episode   *)
(* that has frames left.                                                   *)
NewSampler ==
  [starts  |-> [i \in DOMAIN Sampled |-> meta.episodes[Sampled[i]].from],
   lengths |-> [i \in DOMAIN Sampled |->
                 SumOf([j \in 1..i |-> LeftOf(meta.episodes[Sampled[j]])])]]

NumFrames(s) == Last(s.lengths)

FrameIndexSlip(s, position) == \* searchsorted from the other side
  LET e == Min({i \in DOMAIN s.lengths : s.lengths[i] >= position})
  IN s.starts[e] + position - (IF e = 1 THEN 0 ELSE s.lengths[e - 1])

(* frame_index: the episode by its cumulative length, then the place in it.*)
FrameIndex(s, position) ==
  LET e == Min({i \in DOMAIN s.lengths : s.lengths[i] > position})
  IN s.starts[e] + position - (IF e = 1 THEN 0 ELSE s.lengths[e - 1])

(* The relative row of an absolute frame, -1 if it is not selected.        *)
Relative(absolute) ==
  IF selection = Absent THEN absolute
  ELSE IF \E k \in DOMAIN Selected : Selected[k] = absolute + 1
       THEN (CHOOSE k \in DOMAIN Selected : Selected[k] = absolute + 1) - 1
       ELSE -1

(* set_absolute_to_relative checks every frame before the mapping is used; *)
(* the bound is the number of frames that are sampled.                     *)
MappingAccepted(s) ==
  \A position \in 0..NumFrames(s) - 1 :
    Relative(FrameIndex(s, position)) \in 0..NumFrames(s) - 1

BuildSampler ==
  /\ stage = "loaded" /\ sampler = Absent
  /\ IF /\ selection # Absent => \A e \in ToSet(selection) : e \in 0..Len(meta.episodes) - 1
        /\ Sampled # <<>>
        /\ selection # Absent => MappingAccepted(NewSampler)
     THEN sampler' = NewSampler /\ stage' = "ready"
     ELSE stage' = "refused" /\ UNCHANGED sampler
  /\ UNCHANGED <<source, request, fps, wanted, pass, table, readFiles, drop, frame>>

(***************************************************************************)
(* Serving                                                                 *)
(***************************************************************************)
Clamped(e, target) == IF target >= e.to THEN e.to - 1 ELSE IF target < e.from THEN e.from ELSE target

WindowSlip(e, absolute) == \* clamped to the frames that were read
  [i \in 1..chunk |->
     [row |-> rows[1 + Min({absolute + DeltaIndices[i], Len(rows) - 1})],
      pad |-> absolute + DeltaIndices[i] >= e.to]]

(* query_window, and the rows it points at.                                *)
Window(e, absolute) ==
  [i \in 1..chunk |->
     [row |-> rows[1 + Clamped(e, absolute + DeltaIndices[i])],
      pad |-> absolute + DeltaIndices[i] \notin e.from .. e.to - 1]]

WindowInRange(e, absolute) ==
  \A i \in 1..chunk : Clamped(e, absolute + DeltaIndices[i]) \in 0..Len(rows) - 1

(* get: the frame's own episode is the one its window is clamped to.  The  *)
(* size of the window and the frame's task are looked at only here.        *)
Get(position) ==
  /\ stage = "ready"
  /\ LET index == Relative(FrameIndex(sampler, position))
         row   == rows[Selected[index + 1]]
         owner == {e \in DOMAIN meta.episodes : meta.episodes[e].index = row.episode}
         e     == meta.episodes[Min(owner)]
     IN IF /\ index \in 0..Len(Selected) - 1
           /\ owner # {}
           /\ chunk * Width(meta.info.features["action"]) <= MaxValues
           /\ WindowInRange(e, row.index)
           /\ row.task \in meta.tasks
        THEN frame' = [row |-> row, window |-> Window(e, row.index)]
        ELSE frame' = Failed
  /\ UNCHANGED <<source, stage, pass, request, fps, wanted, table, readFiles, drop, sampler>>

Load == ReadInfo \/ ReadEpisodeFile \/ ValidateEpisodes \/ CheckWindows
        \/ ReadDataFile \/ CheckConsistency

ReaderNext ==
  \/ Rewrite
  \/ Load
  \/ BuildSampler
  \/ \E position \in 0..MaxRows - 1 :
       stage = "ready" /\ position < NumFrames(sampler) /\ Get(position)

ReaderSpec == ReaderInit /\ [][ReaderNext]_readerVars

-----------------------------------------------------------------------------
(* Whatever was on the disk, and whoever wrote to it in the meantime: when *)
(* a dataset is loaded, every frame lies in exactly one episode, the one   *)
(* it names, and the episodes hold nothing but their frames.  A hole or an *)
(* overlap would train on action chunks of another episode.                *)
EveryFrameOwned ==
  stage \in {"loaded", "ready"} =>
    /\ \A i \in DOMAIN rows : Cardinality(EpisodeOf(rows[i].index)) = 1
    /\ \A e \in DOMAIN meta.episodes :
         meta.episodes[e].length =
           Cardinality({i \in DOMAIN rows : rows[i].episode = meta.episodes[e].index})

(* Every element of a window that is served is a frame of the same episode *)
(* as the frame itself; it is the frame so many steps later unless it is   *)
(* padding, and padding is what lies beyond the episode's last frame.      *)
WindowsStayInEpisode ==
  frame \notin {Absent, Failed} =>
    \A i \in DOMAIN frame.window :
      LET w == frame.window[i]
          last == CHOOSE r \in ToSet(rows) : r.episode = frame.row.episode
                    /\ \A s \in ToSet(rows) : s.episode = r.episode => s.index <= r.index
      IN /\ w.row.episode = frame.row.episode
         /\ ~w.pad => w.row.index = frame.row.index + DeltaIndices[i]
         /\ w.pad => w.row = last /\ last.index < frame.row.index + DeltaIndices[i]

(* The sampler serves the frames of the selected episodes, except for the  *)
(* last ones of each if it drops some, every one once, and no other.       *)
SamplerServesSelection ==
  stage = "ready" =>
    LET served == [p \in 0..NumFrames(sampler) - 1 |->
                     rows[Selected[Relative(FrameIndex(sampler, p)) + 1]]]
    IN /\ \A p, q \in DOMAIN served : p # q => served[p] # served[q]
       /\ {served[p] : p \in DOMAIN served} =
            {r \in ToSet(rows) :
               /\ selection = Absent \/ r.episode \in ToSet(selection)
               /\ \E s \in ToSet(rows) : s.episode = r.episode /\ s.index = r.index + drop}

(* What has been loaded can be served.  Two things alone fail a frame,     *)
(* hours into a run perhaps: a task nobody described, a window too large.  *)
FailuresExplained ==
  [][ frame' = Failed =>
        \/ \E i \in DOMAIN rows : rows[i].task \notin meta.tasks
        \/ chunk * Width(meta.info.features["action"]) > MaxValues ]_readerVars

==============================================================================
