-------------------------- MODULE ActionInterpolator --------------------------
(***************************************************************************)
(* ActionInterpolator of rerobot-core action_interpolator.rs: between two  *)
(* actions of the policy it makes the steps that the faster control loop   *)
(* executes.                                                               *)
(*                                                                         *)
(* Abstracted: an action is its place among the calls of add, and its      *)
(* width; a step, the actions it lies between and how far, in parts of the *)
(* multiplier.  Operators named ...Slip are not the program.               *)
(***************************************************************************)
EXTENDS Naturals, Sequences

CONSTANTS
  Multipliers, \* that `new` accepts
  Widths,      \* of the actions
  MaxSteps,    \* MAX_INTERPOLATION_STEPS
  MaxElements, \* MAX_INTERPOLATION_ELEMENTS
  MaxAdds,     \* bound: calls of add
  None

ASSUME InterpolatorAssumption ==
  /\ Multipliers \subseteq Nat \ {0}
  /\ Widths \subseteq Nat
  /\ MaxSteps \in Nat /\ MaxElements \in Nat /\ MaxAdds \in Nat

Action == [number : 1..MaxAdds, width : Widths]
Step == [from : Nat, to : Nat, part : Nat, width : Widths]

ASSUME NoneAssumption == None \notin Action /\ None \notin Step

VARIABLES
  multiplier,
  prev,
  buffer,
  idx,
  adds,     \* history: calls of add
  executed, \* history: the step last got since a reset, or None
  skipped   \* history: steps were discarded since then

interpolatorVars == <<multiplier, prev, buffer, idx, adds, executed, skipped>>

InterpolatorTypeOK ==
  /\ multiplier \in Multipliers
  /\ prev \in Action \cup {None}
  /\ buffer \in Seq(Step)
  /\ idx \in Nat
  /\ adds \in 0..MaxAdds
  /\ executed \in Step \cup {None}
  /\ skipped \in BOOLEAN

InterpolatorInit ==
  /\ multiplier \in Multipliers
  /\ prev = None
  /\ buffer = <<>>
  /\ idx = 0
  /\ adds = 0
  /\ executed = None
  /\ skipped = FALSE

Enabled == multiplier > 1

(* broadcast_len                                                           *)
Broadcasts(a, b) == a = b \/ a = 1 \/ b = 1

BroadcastLen(a, b) == IF a = 1 THEN b ELSE a

Allocatable(width) == multiplier <= MaxSteps /\ multiplier * width <= MaxElements

InterpolatedSlip(a) == \* t = (i - 1) / steps
  [i \in 1..multiplier |->
    [from |-> prev.number, to |-> a.number, part |-> i - 1,
     width |-> BroadcastLen(prev.width, a.width)]]

Interpolated(a) ==
  [i \in 1..multiplier |->
    [from |-> prev.number, to |-> a.number, part |-> i,
     width |-> BroadcastLen(prev.width, a.width)]]

(* The first action after a reset, and every action where there is nothing *)
(* to interpolate.                                                         *)
PassedThrough(a) ==
  <<[from |-> a.number, to |-> a.number, part |-> multiplier, width |-> a.width]>>

NeedsNewAction == idx >= Len(buffer)

Accepts(a) ==
  prev # None /\ Enabled =>
    /\ Broadcasts(prev.width, a.width)
    /\ Allocatable(BroadcastLen(prev.width, a.width))

AddAction(a) ==
  /\ buffer' = IF prev # None /\ Enabled THEN Interpolated(a) ELSE PassedThrough(a)
  /\ prev' = a
  /\ idx' = 0

RejectActionSlip == \* the buffer is cleared after the checks
  UNCHANGED <<prev, buffer, idx>>

(* NotBroadcastable, BufferNotAllocatable: only the buffer is gone.        *)
RejectAction ==
  /\ buffer' = <<>>
  /\ UNCHANGED <<prev, idx>>

Add(width) ==
  /\ adds < MaxAdds
  /\ LET a == [number |-> adds + 1, width |-> width]
     IN IF Accepts(a) THEN AddAction(a) ELSE RejectAction
  /\ adds' = adds + 1
  /\ skipped' = (skipped \/ ~NeedsNewAction)
  /\ UNCHANGED <<multiplier, executed>>

Get ==
  /\ ~NeedsNewAction
  /\ idx' = idx + 1
  /\ executed' = buffer[idx + 1]
  /\ skipped' = FALSE
  /\ UNCHANGED <<multiplier, prev, buffer, adds>>

ResetSlip == \* the previous action is kept
  /\ buffer' = <<>>
  /\ idx' = 0
  /\ executed' = None
  /\ skipped' = FALSE
  /\ UNCHANGED <<multiplier, prev, adds>>

Reset ==
  /\ prev' = None
  /\ buffer' = <<>>
  /\ idx' = 0
  /\ executed' = None
  /\ skipped' = FALSE
  /\ UNCHANGED <<multiplier, adds>>

InterpolatorNext == (\E width \in Widths : Add(width)) \/ Get \/ Reset

InterpolatorSpec == InterpolatorInit /\ [][InterpolatorNext]_interpolatorVars

-----------------------------------------------------------------------------
(* What there is to get belongs to the newest call of add, also when calls *)
(* have failed: a step of an action that was superseded, or of an earlier  *)
(* one than the one refused, is never executed.                            *)
NothingStale ==
  \A i \in idx + 1 .. Len(buffer) : buffer[i].to = adds

(* Motion is continuous: a step goes on from the one executed before it,   *)
(* by one part, or begins at the action the one before has arrived at,     *)
(* whatever was refused in between, unless the caller has discarded steps. *)
(* The first step after a reset is an action itself.                       *)
Follows(step, before) ==
  \/ step.from = before.from /\ step.to = before.to /\ step.part = before.part + 1
  \/ step.from = before.to /\ step.part = 1 /\ before.part = multiplier

Continuous ==
  [][ idx' = idx + 1 /\ Enabled /\ ~skipped =>
        IF executed = None THEN executed'.from = executed'.to
        ELSE Follows(executed', executed) ]_interpolatorVars

==============================================================================
