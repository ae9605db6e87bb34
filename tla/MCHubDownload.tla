---------------------------- MODULE MCHubDownload ----------------------------
(* Two processes and two versions of a dataset: one with a file besides the  *)
(* required, one with a video.  Three entries are one more than a tree has   *)
(* files, and one fewer than two pages can name.                             *)
EXTENDS HubDownload, TLC

CONSTANTS p1, p2, d1, d2, info, extra, video, v1, v2

MCTrees == v1 :> {info, extra} @@ v2 :> {info, video}

HubSymmetry == Permutations({p1, p2}) \cup Permutations({d1, d2})

==============================================================================
