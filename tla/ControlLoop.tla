----------------------------- MODULE ControlLoop ------------------------------
(***************************************************************************)
(* The self-contained parts of a control loop: the DAgger events, the      *)
(* telemetry buffer, the interpolator and the serial line.  They share no  *)
(* state, so that what holds of each while it moves alone holds of all of  *)
(* them in any interleaving; a behaviour moves one, and the others stay in *)
(* an arbitrary initial state.                                             *)
(***************************************************************************)
EXTENDS DAggerEvents, RingBuffer, ActionInterpolator, FeetechBus

VARIABLE part \* the one that moves

controlVars == <<part, daggerVars, ringVars, interpolatorVars, busVars>>

LoopInit ==
  /\ part \in {"events", "buffer", "interpolator", "bus"}
  /\ DAggerInit /\ BufferInit /\ InterpolatorInit /\ BusInit
  /\ part # "buffer" => capacity = CHOOSE c \in Capacities : TRUE
  /\ part # "interpolator" => multiplier = CHOOSE m \in Multipliers : TRUE

LoopNext ==
  /\ UNCHANGED part
  /\ \/ part = "events" /\ DAggerNext
        /\ UNCHANGED <<ringVars, interpolatorVars, busVars>>
     \/ part = "buffer" /\ BufferNext
        /\ UNCHANGED <<daggerVars, interpolatorVars, busVars>>
     \/ part = "interpolator" /\ InterpolatorNext
        /\ UNCHANGED <<daggerVars, ringVars, busVars>>
     \/ part = "bus" /\ BusNext
        /\ UNCHANGED <<daggerVars, ringVars, interpolatorVars>>

LoopSpec == LoopInit /\ [][LoopNext]_controlVars

==============================================================================
