--------------------------- MODULE MCDatasetReader ----------------------------
(* A recording of two episodes in two files, with one camera, and every    *)
(* recording that differs from it in one or two places.                    *)
EXTENDS DatasetReader


Vector(n) == [dtype |-> "float32", shape |-> <<n>>, channelLast |-> FALSE]
Camera == [dtype |-> "image", shape |-> <<2, 1, 3>>, channelLast |-> TRUE]
Features == [action |-> Vector(2), image |-> Camera,
             timestamp |-> Vector(1), index |-> [Vector(1) EXCEPT !.dtype = "int64"]]
Flat == [mean |-> 2, std |-> 2, nested |-> FALSE]
Image == [mean |-> 3, std |-> 3, nested |-> TRUE]

Row(index, episode) ==
  [index |-> index, episode |-> episode, task |-> 0, widths |-> [action |-> 2],
   images |-> [image |-> [format |-> "png", height |-> 2, width |-> 1]]]
Episode(index, from, to, file) ==
  [index |-> index, from |-> from, to |-> to, length |-> to - from, file |-> file]

Good ==
  [info |-> [fps |-> 10, sizes |-> 1, frames |-> 5, episodes |-> 2, features |-> Features],
   stats |-> [action |-> Flat, image |-> Image],
   tasks |-> {0},
   episodeFiles |-> <<[readable |-> TRUE,
                       rows |-> <<Episode(1, 3, 5, 1), Episode(0, 0, 3, 0)>>]>>,
   files |-> (0 :> [readable |-> TRUE, rows |-> [i \in 1..3 |-> Row(i - 1, 0)]])
          @@ (1 :> [readable |-> TRUE, rows |-> [i \in 1..2 |-> Row(i + 2, 1)]])]

(* The same dataset recorded for longer, and at another rate.              *)
Grown ==
  [Good EXCEPT
    !.info.frames = 6, !.info.episodes = 3,
    !.episodeFiles = Append(@, [readable |-> TRUE, rows |-> <<Episode(2, 5, 6, 1)>>]),
    !.files = [@ EXCEPT ![1].rows = Append(@, Row(5, 2))]]
Faster == [Good EXCEPT !.info.fps = 20]
Odd == [Good EXCEPT !.info.fps = 15]

EpisodeFields == {"index", "from", "to", "length", "file"}

Recorded(d) == \* one number of the episode table
  {[d EXCEPT !.episodeFiles[1].rows[i][f] = n] :
     <<i, f, n>> \in {1, 2} \X EpisodeFields \X (-1..5)}
Framed(d) == \* one number of a frame
  UNION {{[d EXCEPT !.files[c].rows[i].index = n] : n \in 0..5}
          \cup {[d EXCEPT !.files[c].rows[i].episode = n] : n \in 0..2}
          \cup {[d EXCEPT !.files[c].rows[i].task = 1]}
          \cup {[d EXCEPT !.files[c].rows[i].widths.action = 1]} :
           <<c, i>> \in ({0} \X (1..3)) \cup ({1} \X (1..2))}
Totalled(d) ==
  {[d EXCEPT !.info.frames = n] : n \in {-1, 0, 4, 6}}
    \cup {[d EXCEPT !.info.episodes = n] : n \in {0, 1, 3}}

(* One frame of wide actions.                                              *)
Brief ==
  [Good EXCEPT
    !.info.frames = 1, !.info.episodes = 1, !.info.features.action.shape = <<7>>,
    !.episodeFiles[1].rows = <<Episode(0, 0, 1, 0)>>,
    !.files = 0 :> [readable |-> TRUE, rows |-> <<[Row(0, 0) EXCEPT !.widths.action = 7]>>]]

(* What a part of the reader refuses on its own.                           *)
Broken ==
  {[Good EXCEPT !.info.fps = 0], [Good EXCEPT !.info.sizes = 0],
   [Good EXCEPT !.info.features.action.shape = <<0>>],
   [Good EXCEPT !.info.features.action.shape = <<3, 3>>],
   [Good EXCEPT !.info.features.image.dtype = "video"],
   [Good EXCEPT !.info.features.image.shape = <<2, 2, 3>>],
   [Good EXCEPT !.info.features.image.channelLast = FALSE],
   [Good EXCEPT !.stats.image.std = 1], [Good EXCEPT !.stats.action.nested = TRUE],
   [Good EXCEPT !.tasks = {}],
   [Good EXCEPT !.episodeFiles = <<>>], [Good EXCEPT !.episodeFiles[1].readable = FALSE],
   [Good EXCEPT !.files[1].readable = FALSE], [Good EXCEPT !.files = [c \in {0} |-> @[0]]],
   [Good EXCEPT !.files[1].rows[1].images.image.format = "gif"],
   [Good EXCEPT !.files[1].rows[2].images.image.width = 2],
   [Good EXCEPT !.files[0].rows = @ \o @]}

MCRewrites == {Good, Grown, Faster, Odd}
MCDisks ==
  {Brief} \cup MCRewrites \cup Broken
    \cup Recorded(Good) \cup Framed(Good) \cup Totalled(Good)
    \cup UNION {Recorded(d) : d \in Recorded(Good)}
    \cup UNION {Totalled(d) : d \in Recorded(Good)}

MCSelections == {Absent, <<0>>, <<1>>, <<0, 1>>, <<1, 0>>, <<2>>}
=============================================================================
