------------------------------- MODULE So101Cli -------------------------------
(***************************************************************************)
(* `lerobot-teleoperate` on one follower, rerobot-cli so101.rs `execute`   *)
(* and `hold_and_release`: commands run one after the other, each in a     *)
(* process of its own that may be killed at any time, also while it holds. *)
(* Between them other programs may drive the arm, in any way So101 allows. *)
(*                                                                         *)
(* A command is a sequence of operations of So101; what follows the one    *)
(* that failed is decided here.  ping and read write nothing and are left  *)
(* out; the calibration is always the default one.                         *)
(***************************************************************************)
EXTENDS So101

VARIABLES
  action, \* the position action or release being executed
  stage,  \* the operation it has come to; "library": another program runs
  failed, \* the error it will report
  tried   \* history: whether it has called disable_torque

cliVars == <<so101Vars, action, stage, failed, tried>>

Actions == {"center", "set", "release"}
Stages == {"configure", "enable", "move", "hold", "release"}

CliTypeOK ==
  /\ TypeOK
  /\ action \in Actions
  /\ stage \in Stages \cup {"exited", "library"}
  /\ failed \in BOOLEAN
  /\ tried \in BOOLEAN

CliInit ==
  /\ Init
  /\ action = "release"
  /\ stage = "exited"
  /\ failed = FALSE
  /\ tried = FALSE

(* A command is given: the port is opened by a new process.                *)
Start(a) ==
  /\ stage \notin Stages
  /\ Reopen
  /\ action' = a
  /\ stage' = IF a = "release" THEN "release" ELSE "configure"
  /\ failed' = FALSE
  /\ tried' = FALSE

(* The operation of the stage is called.                                   *)
Perform ==
  /\ result = "none" /\ op = "none"
  /\ CASE stage = "configure" -> Call("configure")
       [] stage = "enable"    -> Call("enable")
       [] stage = "move"      -> IF action = "center" THEN Center
                                 ELSE \E p \in Positions : SetPositionsTicks(p)
       [] stage = "release"   -> Call("disable")
       [] OTHER               -> FALSE
  /\ tried' = (tried \/ stage = "release")
  /\ UNCHANGED <<action, stage, failed>>

CliExecute ==
  /\ stage \in Stages
  /\ Execute
  /\ UNCHANGED <<action, stage, failed, tried>>

AfterErrorRetrySlip == \* disable_torque is called until it succeeds
  CASE stage = "move" /\ action = "center" -> "hold"
    [] stage \in {"move", "release"}       -> "release"
    [] OTHER                               -> "exited"

(* Where a command goes on after an operation: `?` returns from configure  *)
(* and enable, center holds whatever happened, set releases at once.       *)
AfterError ==
  CASE stage = "move" /\ action = "center" -> "hold"
    [] stage = "move" /\ action = "set"    -> "release"
    [] OTHER                               -> "exited"

AfterSuccess ==
  CASE stage = "configure" -> "enable"
    [] stage = "enable"    -> "move"
    [] stage = "move"      -> "hold"
    [] OTHER               -> "exited"

ProceedSlip == \* the error of the release is dropped
  /\ stage \in Stages
  /\ op = "none" /\ result # "none"
  /\ stage' = IF result = "ok" THEN AfterSuccess ELSE AfterError
  /\ failed' = (failed \/ (result = "error" /\ stage # "release"))
  /\ result' = "none"
  /\ UNCHANGED <<registers, host, op, servo, line, lost, clean,
                 action, tried>>

Proceed ==
  /\ stage \in Stages
  /\ op = "none" /\ result # "none"
  /\ stage' = IF result = "ok" THEN AfterSuccess ELSE AfterError
  /\ failed' = (failed \/ result = "error")
  /\ result' = "none"
  /\ UNCHANGED <<registers, host, op, servo, line, lost, clean,
                 action, tried>>

(* hold_and_release sleeps, then calls disable_torque.                     *)
Hold ==
  /\ stage = "hold"
  /\ stage' = "release"
  /\ UNCHANGED <<so101Vars, action, failed, tried>>

Kill ==
  /\ stage \in Stages
  /\ Reopen
  /\ stage' = "exited"
  /\ failed' = TRUE
  /\ UNCHANGED <<action, tried>>

(* A program of somebody else opens the port, and calls what it likes.     *)
OpenLibrary ==
  /\ stage \notin Stages
  /\ Reopen
  /\ stage' = "library"
  /\ failed' = FALSE
  /\ tried' = FALSE
  /\ UNCHANGED action

CallLibrary ==
  /\ stage = "library"
  /\ Next
  /\ UNCHANGED <<action, stage, failed, tried>>

CliNext ==
  \/ \E a \in Actions : Start(a)
  \/ Perform
  \/ CliExecute
  \/ Proceed
  \/ Hold
  \/ Kill
  \/ OpenLibrary
  \/ CallLibrary

CliSpec == CliInit /\ [][CliNext]_cliVars

(* A command that is not killed runs on; nobody has to give another.       *)
CliFairSpec ==
  CliSpec /\ WF_cliVars(Perform \/ CliExecute \/ Proceed \/ Hold)

-----------------------------------------------------------------------------
(* Reporting success means the arm is free: a command that exits without   *)
(* an error has released every servo, whatever state it found the arm in   *)
(* and whatever it moved, unless a write of its disable_torque was lost.   *)
SuccessMeansReleased ==
  stage = "exited" /\ tried /\ ~failed /\ ~lost => \A s \in Servos : ~Torqued(s)

(* A command that is not killed exits: it calls nothing for ever.          *)
EveryCommandEnds == stage \in Stages ~> stage = "exited"

(* The help text says that position actions "hold torque [..], then        *)
(* release it".  Where enable_torque fails at a later servo, `?` returns   *)
(* from execute with the earlier ones on, and releases nothing.            *)
ErrorMeansReleaseTried ==
  [][ stage' = "exited" /\ stage \in Stages =>
        Kill \/ tried \/ \A s \in Servos : ~Torqued(s) ]_cliVars

==============================================================================
