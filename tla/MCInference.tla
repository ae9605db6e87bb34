----------------------------- MODULE MCInference -----------------------------
(* Five frames in two episodes of three and two; chunks of one to three.     *)
EXTENDS Inference

MCEpisode == [f \in Frames |-> IF f < 3 THEN 0 ELSE 1]

MCConfigs ==
  {[temporal |-> TRUE, chunk |-> c, steps |-> 1] : c \in 1..3}
    \cup {[temporal |-> FALSE, chunk |-> 3, steps |-> s] : s \in 1..3}

==============================================================================
