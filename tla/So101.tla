-------------------------------- MODULE So101 --------------------------------
(***************************************************************************)
(* The SO-101 follower of rerobot-hardware so101.rs: a process that talks  *)
(* to servos over one bus, one register at a time.                         *)
(*                                                                         *)
(* The servos keep their registers when the process ends; the process      *)
(* keeps only `torque_enabled` and its calibration, and starts with the    *)
(* first false.  An operation is the list of register accesses of its      *)
(* loop body, repeated for each servo, and ends at the first that fails;   *)
(* a write is not acknowledged, so that one that was sent may be lost, and *)
(* one whose sending failed may have arrived all the same.  Between any    *)
(* two accesses the process may be killed.                                 *)
(*                                                                         *)
(* Abstracted: the gains, accelerations and limits of                      *)
(* configure_position_mode go with Operating_Mode, bit 4 of Phase is all   *)
(* of Phase, the homing offset and the minimum go with the maximum of a    *)
(* calibration, and a calibration is the same for every servo.  Operators  *)
(* named ...Slip are not the program.                                      *)
(***************************************************************************)
EXTENDS Integers, Sequences

CONSTANTS
  NumServos,     \* 6 on the arm
  Positions,     \* encoder ticks that callers ask for
  Calibrations   \* [min, max]: the position limits of a calibration

Servos == 1..NumServos
MaxTick == 4095
DefaultCalibration == [min |-> 0, max |-> MaxTick]

ASSUME So101Assumption ==
  /\ NumServos \in Nat \ {0}
  /\ Positions \subseteq Nat
  /\ Calibrations \subseteq [min : Int, max : Int]

VARIABLES
  registers,     \* <<servo, name>> -> value
  torqueEnabled, \* the process's torque_enabled
  calibration,   \* the process's calibration
  op,            \* the operation being executed, or "none"
  servo,         \* the servo its loop has come to
  line,          \* the access of the loop body it has come to
  result,        \* how the last operation ended
  lost,          \* history: a write of the last operation was lost
  clean          \* history: the process found the arm released, and since
                 \* then no access has failed and no write was lost

host == <<torqueEnabled, calibration>>
so101Vars == <<registers, host, op, servo, line, result, lost, clean>>

Names == {"Torque_Enable", "Lock", "Phase", "Operating_Mode",
          "Max_Position_Limit", "Goal_Position"}
Operations == {"enable", "disable", "configure", "calibrate"}
Guarded == {"configure", "calibrate"} \* refused while torque_enabled

(* The registers an operation writes on each servo, in order.  The first   *)
(* of configure is a read.                                                 *)
Body(o) ==
  CASE o = "enable"    -> <<"Torque_Enable", "Lock">>
    [] o = "disable"   -> <<"Torque_Enable", "Lock">>
    [] o = "configure" -> <<"Phase", "Phase", "Operating_Mode">>
    [] o = "calibrate" -> <<"Max_Position_Limit">>

(* What it writes to them.                                                 *)
Value(o) ==
  CASE o = "enable"                  -> 1
    [] o \in {"disable", "configure"} -> 0
    [] o = "calibrate"               -> calibration.max

IsRead(o, l) == o = "configure" /\ l = 1

(* validate_range: both limits fit the register, and in this order.        *)
ValidRange(c) == c.min \in 0..65535 /\ c.max \in 0..65535 /\ c.min < c.max

Torqued(s) == registers[<<s, "Torque_Enable">>] = 1

TypeOK ==
  /\ registers \in [Servos \X Names -> Int]
  /\ torqueEnabled \in BOOLEAN
  /\ calibration \in Calibrations \cup {DefaultCalibration}
  /\ op \in Operations \cup {"none"}
  /\ servo \in Servos
  /\ line \in 1..3
  /\ result \in {"none", "ok", "error"}
  /\ lost \in BOOLEAN
  /\ clean \in BOOLEAN

(* The arm is switched on: torque is off, whatever else it has stored.     *)
Init ==
  /\ \E phase, mode \in {0, 1} :
       registers = [x \in Servos \X Names |->
         CASE x[2] = "Phase"              -> phase
           [] x[2] = "Operating_Mode"     -> mode
           [] x[2] = "Max_Position_Limit" -> MaxTick
           [] OTHER                       -> 0]
  /\ torqueEnabled = FALSE
  /\ calibration = DefaultCalibration
  /\ op = "none"
  /\ servo = 1
  /\ line = 1
  /\ result = "none"
  /\ lost = FALSE
  /\ clean = TRUE

(***************************************************************************)
(* Executing an operation                                                  *)
(***************************************************************************)
Return(r) ==
  /\ op' = "none"
  /\ servo' = 1
  /\ line' = 1
  /\ result' = r

(* What an operation that has reached its last write leaves in the process.*)
Completed(o) ==
  torqueEnabled' = CASE o = "enable"  -> TRUE
                     [] o = "disable" -> FALSE
                     [] OTHER         -> torqueEnabled

GoOn(steps) ==
  IF line + steps <= Len(Body(op))
  THEN /\ line' = line + steps
       /\ UNCHANGED <<torqueEnabled, op, servo, result>>
  ELSE IF servo < NumServos
       THEN /\ servo' = servo + 1
            /\ line' = 1
            /\ UNCHANGED <<torqueEnabled, op, result>>
       ELSE Completed(op) /\ Return("ok")

Call(o) ==
  /\ op = "none"
  /\ IF o \in Guarded /\ torqueEnabled
     THEN Return("error") /\ UNCHANGED lost
     ELSE /\ op' = o /\ servo' = 1 /\ line' = 1
          /\ result' = "none" /\ lost' = FALSE
  /\ UNCHANGED <<registers, host, clean>>

(* A servo's calibration is validated when its turn comes, after those     *)
(* before it have been written.                                            *)
CalibrationInvalid ==
  /\ op = "calibrate"
  /\ line = 1
  /\ ~ValidRange(calibration)
  /\ Return("error")
  /\ UNCHANGED <<registers, host, lost, clean>>

Set(s, name, value) == registers' = [registers EXCEPT ![<<s, name>>] = value]

Arrives == Set(servo, Body(op)[line], Value(op))

WriteSlip == \* the first servo is written each time
  /\ op # "none"
  /\ ~IsRead(op, line)
  /\ op = "calibrate" => ValidRange(calibration)
  /\ Set(1, Body(op)[line], Value(op))
  /\ GoOn(1)
  /\ UNCHANGED <<calibration, lost, clean>>

Write ==
  /\ op # "none"
  /\ ~IsRead(op, line)
  /\ op = "calibrate" => ValidRange(calibration)
  /\ \/ Arrives /\ UNCHANGED <<lost, clean>>
     \/ UNCHANGED registers /\ lost' = TRUE /\ clean' = FALSE
  /\ GoOn(1)
  /\ UNCHANGED calibration

(* The write after the read of Phase is skipped where the bit is clear.    *)
ReadPhase ==
  /\ op # "none"
  /\ IsRead(op, line)
  /\ GoOn(IF registers[<<servo, "Phase">>] = 1 THEN 1 ELSE 2)
  /\ UNCHANGED <<registers, calibration, lost, clean>>

AccessFailsSlip == \* the error is dropped, the loop goes on
  /\ op # "none"
  /\ op = "calibrate" => ValidRange(calibration)
  /\ GoOn(1)
  /\ clean' = FALSE
  /\ UNCHANGED <<registers, calibration, lost>>

(* No answer to a read, or an error of the port.  The operation ends here; *)
(* what it has written stays, torque_enabled is as it was.                 *)
AccessFails ==
  /\ op # "none"
  /\ op = "calibrate" => ValidRange(calibration)
  /\ \/ UNCHANGED registers
     \/ ~IsRead(op, line) /\ Arrives
  /\ Return("error")
  /\ clean' = FALSE
  /\ UNCHANGED <<host, lost>>

(* set_positions_ticks: one packet for all servos.  The commands of         *)
(* set_positions_degrees that are refused before that end here too.        *)
AllGoals(position) ==
  registers' = [x \in Servos \X Names |->
    IF x[2] = "Goal_Position" THEN position ELSE registers[x]]

SetPositionsTicksSlip(position) == \* without the check of torque_enabled
  /\ op = "none"
  /\ AllGoals(position) \/ UNCHANGED registers
  /\ \E r \in {"ok", "error"} : Return(r)
  /\ UNCHANGED <<host, lost, clean>>

SetPositionsTicks(position) ==
  /\ op = "none"
  /\ \/ /\ torqueEnabled
        /\ AllGoals(position) \/ UNCHANGED registers
        /\ \E r \in {"ok", "error"} : Return(r)
     \/ UNCHANGED registers /\ Return("error")
  /\ UNCHANGED <<host, lost, clean>>

(* center: the middle of the calibrated range, for all servos.             *)
Center ==
  /\ op = "none"
  /\ IF ValidRange(calibration)
     THEN SetPositionsTicks((calibration.min + calibration.max) \div 2)
     ELSE Return("error") /\ UNCHANGED <<registers, host, lost, clean>>

(* set_calibration                                                         *)
SetCalibration(c) ==
  /\ op = "none"
  /\ IF torqueEnabled
     THEN UNCHANGED calibration /\ Return("error")
     ELSE calibration' = c /\ Return("ok")
  /\ UNCHANGED <<registers, torqueEnabled, lost, clean>>

(* The process ends or is killed, and another one opens the port.          *)
Reopen ==
  /\ torqueEnabled' = FALSE
  /\ calibration' = DefaultCalibration
  /\ Return("none")
  /\ lost' = FALSE
  /\ clean' = \A s \in Servos : ~Torqued(s)
  /\ UNCHANGED registers

Execute ==
  \/ CalibrationInvalid
  \/ Write
  \/ ReadPhase
  \/ AccessFails

Next ==
  \/ \E o \in Operations : Call(o)
  \/ Execute
  \/ \E p \in Positions : SetPositionsTicks(p)
  \/ Center
  \/ \E c \in Calibrations : SetCalibration(c)
  \/ Reopen

Spec == Init /\ [][Next]_so101Vars

-----------------------------------------------------------------------------
(***************************************************************************)
(* Properties                                                              *)
(***************************************************************************)

(* torque_enabled says of the arm what its documentation says it does,     *)
(* "explicitly enabled torque on all six joints": it becomes true only     *)
(* when every servo holds, locked, and false by disable_torque only when   *)
(* every servo is released, whatever failed or was lost in earlier calls;  *)
(* only a write lost in the very call can make it wrong.                   *)
FlagMeansAllServos ==
  [][ ~lost' =>
      /\ ~torqueEnabled /\ torqueEnabled' =>
           \A s \in Servos : registers'[<<s, "Torque_Enable">>] = 1
                             /\ registers'[<<s, "Lock">>] = 1
      /\ torqueEnabled /\ ~torqueEnabled' =>
           Reopen \/ \A s \in Servos : registers'[<<s, "Torque_Enable">>] = 0
                                        /\ registers'[<<s, "Lock">>] = 0
    ]_so101Vars

(* In a process that found the arm released and has met no failure, the    *)
(* flag is the truth about every servo, and what is refused while it is    *)
(* set never runs on a servo that holds.                                   *)
FlagIsTruthWhenClean ==
  clean => /\ op = "none" => \A s \in Servos : Torqued(s) <=> torqueEnabled
           /\ op \in Guarded => \A s \in Servos : ~Torqued(s)

(* Goals are written only by a process that has itself enabled all servos, *)
(* and, failures apart, only to servos that hold.                          *)
NoGoalBeforeTorque ==
  [][ \A s \in Servos :
        registers'[<<s, "Goal_Position">>] # registers[<<s, "Goal_Position">>]
          => torqueEnabled /\ (clean => Torqued(s)) ]_so101Vars

==============================================================================
