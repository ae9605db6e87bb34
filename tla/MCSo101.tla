------------------------------- MODULE MCSo101 -------------------------------
(* The calibration that the process starts with is valid, this one is not. *)
EXTENDS So101Cli

MCCalibrations == {[min |-> 2500, max |-> 100]}

==============================================================================
