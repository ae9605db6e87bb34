---------------------------- MODULE MCControlLoop -----------------------------
(* Buffers from no frames to four, byte bounds from negative to more than    *)
(* four of the largest frames.                                               *)
EXTENDS ControlLoop

MCCapacities == [frames : 0..4, bytes : {-1, 0, 1, 4, 6, 13}]

==============================================================================
