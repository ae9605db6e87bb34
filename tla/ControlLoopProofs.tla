--------------------------- MODULE ControlLoopProofs ---------------------------
(***************************************************************************)
(* Proofs about the parts of a control loop, one after the other: the      *)
(* DAgger events for any number of threads, the interpolator for any       *)
(* multiplier and widths, the telemetry buffer for any bounds, the serial  *)
(* line for any number of servos, loops and faults; that what holds of     *)
(* each holds of ControlLoop; and the arm that such loops drive, for any   *)
(* number of servos, any positions and any calibrations.                   *)
(***************************************************************************)
EXTENDS ControlLoop, So101Cli, SumsProofs, SequenceTheorems, TLAPS

-----------------------------------------------------------------------------
(* The DAgger events                                                       *)

(* What the table says, pair by pair.                                      *)
LEMMA TableFacts ==
  /\ \A p \in Phases : DOMAIN Table[p] \subseteq Events
  /\ \A p \in Phases : \A e \in DOMAIN Table[p] : Table[p][e] \in Phases
  /\ Nothing \notin Events
BY DAggerAssumption DEF Table, Phases, Events

(* The methods of DAggerEvents keep its fields in their types, whichever   *)
(* threads call them.                                                      *)
THEOREM DAggerTypeCorrect == DAggerSpec => []DAggerTypeOK
<1>1. DAggerInit => DAggerTypeOK
  BY DEF DAggerInit, DAggerTypeOK, Phases, Events
<1>2. DAggerTypeOK /\ [DAggerNext]_daggerVars => DAggerTypeOK'
  <2> SUFFICES ASSUME DAggerTypeOK, [DAggerNext]_daggerVars PROVE DAggerTypeOK'
    OBVIOUS
  <2> USE DEF DAggerTypeOK, state, flags, history
  <2>1. ASSUME NEW e \in Events, RequestTransition(e) PROVE DAggerTypeOK'
    BY <2>1 DEF RequestTransition
  <2>2. CASE ConsumeTransition
    BY <2>2, TableFacts DEF ConsumeTransition, IsTransition
  <2>3. ASSUME NEW p \in Phases, SetPhase(p) PROVE DAggerTypeOK'
    BY <2>3 DEF SetPhase
  <2>4. ASSUME NEW t \in Threads, ResetState(t) PROVE DAggerTypeOK'
    BY <2>4 DEF ResetState, Phases
  <2>5. ASSUME NEW t \in Threads, ResetUpload(t) PROVE DAggerTypeOK'
    BY <2>5 DEF ResetUpload
  <2>6. CASE Stop
    BY <2>6 DEF Stop
  <2>7. ASSUME NEW r \in BOOLEAN, SetUpload(r) PROVE DAggerTypeOK'
    BY <2>7 DEF SetUpload
  <2>8. CASE UNCHANGED daggerVars
    BY <2>8 DEF daggerVars
  <2> QED
    BY <2>1, <2>2, <2>3, <2>4, <2>5, <2>6, <2>7, <2>8 DEF DAggerNext
<1> QED
  BY <1>1, <1>2, PTL DEF DAggerSpec

(* One step of any thread keeps the pending request and the phase it was   *)
(* checked against together.                                               *)
LEMMA PendingStep ==
  ASSUME DAggerTypeOK, PendingMeansWhatItMeant, [DAggerNext]_daggerVars
  PROVE  PendingMeansWhatItMeant'
<1> USE DEF PendingMeansWhatItMeant, IsTransition, state, flags, history
<1>1. ASSUME NEW e \in Events, RequestTransition(e) PROVE PendingMeansWhatItMeant'
  BY <1>1 DEF RequestTransition
<1>2. CASE ConsumeTransition
  BY <1>2 DEF ConsumeTransition
<1>3. ASSUME NEW p \in Phases, SetPhase(p) PROVE PendingMeansWhatItMeant'
  BY <1>3 DEF SetPhase
<1>4. ASSUME NEW t \in Threads, ResetState(t) PROVE PendingMeansWhatItMeant'
  BY <1>4 DEF ResetState
<1>5. ASSUME NEW t \in Threads, ResetUpload(t) PROVE PendingMeansWhatItMeant'
  BY <1>5 DEF ResetUpload
<1>6. CASE Stop
  BY <1>6 DEF Stop
<1>7. ASSUME NEW r \in BOOLEAN, SetUpload(r) PROVE PendingMeansWhatItMeant'
  BY <1>7 DEF SetUpload
<1>8. CASE UNCHANGED daggerVars
  BY <1>8 DEF daggerVars
<1> QED
  BY <1>1, <1>2, <1>3, <1>4, <1>5, <1>6, <1>7, <1>8 DEF DAggerNext

(* Whatever the threads do, a request that is pending still leads where it *)
(* was meant to lead, unless set_phase was called since.                   *)
THEOREM PendingIsMeaningful == DAggerSpec => []PendingMeansWhatItMeant
<1>1. DAggerInit => PendingMeansWhatItMeant
  BY DEF DAggerInit, PendingMeansWhatItMeant
<1> QED
  BY <1>1, PendingStep, DAggerTypeCorrect, PTL DEF DAggerSpec

(* The main loop applies each request at most once, and to the phase it    *)
(* was made in.                                                            *)
THEOREM RequestsAppliedAsAsked == DAggerSpec => AppliedOnceAsAsked
<1> DEFINE Applied == pending # Nothing /\ phase' # phase /\ ~overwritten'
                      /\ resetting' = resetting
                      => pending' = Nothing /\ phase' = Table[requestedIn][pending]
<1>1. ASSUME DAggerTypeOK, PendingMeansWhatItMeant, [DAggerNext]_daggerVars PROVE Applied
  <2> USE <1>1 DEF state, flags, history
  <2>1. ASSUME NEW e \in Events, RequestTransition(e) PROVE Applied
    BY <2>1 DEF RequestTransition
  <2>2. CASE ConsumeTransition
    BY <2>2 DEF ConsumeTransition, PendingMeansWhatItMeant
  <2>3. ASSUME NEW p \in Phases, SetPhase(p) PROVE Applied
    BY <2>3 DEF SetPhase
  <2>4. ASSUME NEW t \in Threads, ResetState(t) PROVE Applied
    BY <2>4 DEF ResetState
  <2>5. ASSUME NEW t \in Threads, ResetUpload(t) PROVE Applied
    BY <2>5 DEF ResetUpload
  <2>6. CASE Stop
    BY <2>6 DEF Stop
  <2>7. ASSUME NEW r \in BOOLEAN, SetUpload(r) PROVE Applied
    BY <2>7 DEF SetUpload
  <2>8. CASE UNCHANGED daggerVars
    BY <2>8 DEF daggerVars
  <2> QED
    BY <2>1, <2>2, <2>3, <2>4, <2>5, <2>6, <2>7, <2>8 DEF DAggerNext
<1>2. DAggerTypeOK /\ PendingMeansWhatItMeant /\ [DAggerNext]_daggerVars => [Applied]_daggerVars
  BY <1>1
<1> HIDE DEF Applied
<1>3. DAggerSpec => [][Applied]_daggerVars
  BY <1>2, PendingIsMeaningful, DAggerTypeCorrect, PTL DEF DAggerSpec
<1> QED
  BY <1>3 DEF Applied, AppliedOnceAsAsked

-----------------------------------------------------------------------------
(* The interpolator                                                        *)

(* What is in the buffer, and how it continues what was executed.          *)
Passed ==
  /\ Len(buffer) = 1
  /\ buffer[1].from = prev.number
  /\ buffer[1].to = prev.number
  /\ buffer[1].part = multiplier

Blended ==
  /\ Len(buffer) = multiplier
  /\ \A i \in 1..multiplier : /\ buffer[i].part = i
                              /\ buffer[i].from = buffer[1].from
                              /\ buffer[i].to = prev.number

Shape ==
  buffer # <<>> => /\ prev # None
                   /\ Passed \/ Blended
                   /\ idx <= Len(buffer)

(* The motion has arrived at the previous action.                          *)
Arrived == executed.part = multiplier /\ executed.to = prev.number

Joined ==
  Enabled /\ ~skipped =>
    /\ executed = None => IF prev = None THEN buffer = <<>>
                          ELSE Passed /\ idx = 0
    /\ executed # None =>
         /\ prev # None
         /\ buffer = <<>> => Arrived
         /\ buffer # <<>> /\ idx = 0 =>
              /\ Blended
              /\ executed.part = multiplier
              /\ buffer[1].from = executed.to
         /\ buffer # <<>> /\ idx > 0 => executed = buffer[idx]

InterpolatorInv == InterpolatorTypeOK /\ NothingStale /\ Shape /\ Joined

-----------------------------------------------------------------------------
LEMMA ActionTyped ==
  ASSUME InterpolatorTypeOK, NEW width \in Widths, adds < MaxAdds
  PROVE  [number |-> adds + 1, width |-> width] \in Action
BY InterpolatorAssumption DEF InterpolatorTypeOK, Action

(* A blend of two actions is a sequence of steps, one for each part.       *)
LEMMA BlendTyped ==
  ASSUME InterpolatorTypeOK, prev # None, NEW a \in Action, Broadcasts(prev.width, a.width)
  PROVE  /\ Interpolated(a) \in Seq(Step)
         /\ Len(Interpolated(a)) = multiplier
         /\ \A i \in 1..multiplier :
              /\ Interpolated(a)[i].part = i
              /\ Interpolated(a)[i].from = prev.number
              /\ Interpolated(a)[i].to = a.number
<1> DEFINE step(i) == [from |-> prev.number, to |-> a.number, part |-> i,
                       width |-> BroadcastLen(prev.width, a.width)]
<1>1. multiplier \in Nat \ {0} /\ prev \in Action
  BY InterpolatorAssumption DEF InterpolatorTypeOK
<1>2. BroadcastLen(prev.width, a.width) \in Widths
  BY <1>1 DEF BroadcastLen, Broadcasts, Action
<1>3. prev.number \in Nat /\ a.number \in Nat
  BY <1>1, InterpolatorAssumption DEF Action
<1>4. \A i \in 1..multiplier : step(i) \in Step
  BY <1>1, <1>2, <1>3 DEF Step
<1>5. Interpolated(a) = [i \in 1..multiplier |-> step(i)]
  BY DEF Interpolated
<1>6. /\ [i \in 1..multiplier |-> step(i)] \in Seq(Step)
      /\ Len([i \in 1..multiplier |-> step(i)]) = multiplier
  <2> HIDE DEF step
  <2> DEFINE blend == [i \in 1..multiplier |-> step(i)]
  <2>1. blend \in [1..multiplier -> Step]
    BY <1>4
  <2>2. blend \in Seq(Step)
    BY <1>1, <2>1
  <2>3. Len(blend) = multiplier
    BY <1>1, <2>1
  <2> QED BY <2>2, <2>3
<1>7. ASSUME NEW i \in 1..multiplier
      PROVE  /\ Interpolated(a)[i].part = i
             /\ Interpolated(a)[i].from = prev.number
             /\ Interpolated(a)[i].to = a.number
  BY <1>5
<1> HIDE DEF step
<1> QED BY <1>5, <1>6, <1>7

LEMMA PassTyped ==
  ASSUME InterpolatorTypeOK, NEW a \in Action
  PROVE  /\ PassedThrough(a) \in Seq(Step)
         /\ Len(PassedThrough(a)) = 1
         /\ PassedThrough(a)[1] = [from |-> a.number, to |-> a.number,
                                   part |-> multiplier, width |-> a.width]
BY InterpolatorAssumption DEF InterpolatorTypeOK, PassedThrough, Action, Step

-----------------------------------------------------------------------------
LEMMA InterpolatorInitially == InterpolatorInit => InterpolatorInv
<1> SUFFICES ASSUME InterpolatorInit PROVE InterpolatorInv
  OBVIOUS
<1>1. InterpolatorTypeOK
  <2>1. <<>> \in Seq(Step) /\ 0 \in 0..MaxAdds /\ 0 \in Nat
    BY InterpolatorAssumption
  <2> QED BY <2>1 DEF InterpolatorInit, InterpolatorTypeOK
<1>2. NothingStale /\ Shape /\ Joined
  BY DEF InterpolatorInit, NothingStale, Shape, Joined
<1> QED BY <1>1, <1>2 DEF InterpolatorInv

(* Where a new action is needed and nothing was skipped, the motion has     *)
(* arrived at the previous one.                                            *)
LEMMA AtTheEnd ==
  ASSUME InterpolatorInv, prev # None, Enabled, ~skipped, NeedsNewAction
  PROVE  executed # None /\ Arrived
<1>1. InterpolatorTypeOK /\ Shape /\ Joined /\ idx >= Len(buffer)
  BY DEF InterpolatorInv, NeedsNewAction
<1>2. executed # None
  <2> SUFFICES ASSUME executed = None PROVE FALSE
    OBVIOUS
  <2>1. Passed /\ idx = 0
    BY <1>1 DEF Joined
  <2>2. Len(buffer) = 1
    BY <2>1 DEF Passed
  <2> QED BY <1>1, <2>1, <2>2
<1>3. CASE buffer = <<>>
  BY <1>1, <1>2, <1>3 DEF Joined
<1>4. CASE buffer # <<>>
  <2>1. idx \in Nat /\ buffer \in Seq(Step) /\ Len(buffer) > 0
    BY <1>1, <1>4 DEF InterpolatorTypeOK
  <2>2. idx = Len(buffer) /\ (Passed \/ Blended)
    BY <1>1, <1>4, <2>1 DEF Shape
  <2>3. executed = buffer[Len(buffer)]
    BY <1>1, <1>2, <1>4, <2>1, <2>2 DEF Joined
  <2>4. CASE Passed
    <3>1. Len(buffer) = 1
      BY <2>4 DEF Passed
    <3>2. executed = buffer[1]
      BY <2>3, <3>1
    <3>3. buffer[1].part = multiplier /\ buffer[1].to = prev.number
      BY <2>4 DEF Passed
    <3> QED BY <1>2, <3>2, <3>3 DEF Arrived
  <2>5. CASE Blended
    <3>1. multiplier \in 1..multiplier
      BY <1>1, InterpolatorAssumption DEF InterpolatorTypeOK
    <3>2. executed = buffer[multiplier]
      BY <2>3, <2>5 DEF Blended
    <3>3. buffer[multiplier].part = multiplier
          /\ buffer[multiplier].to = prev.number
      BY <2>5, <3>1 DEF Blended
    <3> QED BY <1>2, <3>2, <3>3 DEF Arrived
  <2> QED BY <2>2, <2>4, <2>5
<1> QED BY <1>2, <1>3, <1>4

LEMMA AddKeeps ==
  ASSUME InterpolatorInv, NEW width \in Widths, Add(width)
  PROVE  InterpolatorInv'
<1> DEFINE a == [number |-> adds + 1, width |-> width]
<1>1. /\ InterpolatorTypeOK /\ Shape /\ Joined
      /\ adds < MaxAdds /\ adds' = adds + 1
      /\ multiplier' = multiplier /\ executed' = executed
      /\ skipped' = (skipped \/ ~NeedsNewAction)
  BY DEF InterpolatorInv, Add
<1>2. a \in Action /\ a # None /\ a.number = adds'
  BY <1>1, ActionTyped, NoneAssumption
<1>3. multiplier' \in Multipliers /\ adds' \in 0..MaxAdds
      /\ executed' \in Step \cup {None} /\ multiplier \in Nat \ {0}
  BY <1>1, InterpolatorAssumption DEF InterpolatorTypeOK
<1>4. skipped' \in BOOLEAN
  BY <1>1
<1>5. ~skipped' => ~skipped /\ NeedsNewAction
  BY <1>1
<1>6. CASE Accepts(a)
  <2>1. AddAction(a)
    BY <1>6 DEF Add
  <2>2. prev' = a /\ idx' = 0
    BY <2>1 DEF AddAction
  <2> HIDE DEF a
  <2>3. CASE prev # None /\ Enabled
    <3>1. Broadcasts(prev.width, a.width)
      BY <1>6, <2>3 DEF Accepts
    <3>2. /\ buffer' = Interpolated(a)
          /\ buffer' \in Seq(Step) /\ Len(buffer') = multiplier
          /\ \A i \in 1..multiplier : /\ buffer'[i].part = i
                                      /\ buffer'[i].from = prev.number
                                      /\ buffer'[i].to = a.number
      BY <1>1, <1>2, <2>1, <2>3, <3>1, BlendTyped DEF AddAction
    <3>3. InterpolatorTypeOK'
      BY <1>2, <1>3, <1>4, <2>2, <3>2 DEF InterpolatorTypeOK
    <3>4. NothingStale'
      BY <1>2, <1>3, <2>2, <3>2 DEF NothingStale
    <3>5. Blended' /\ buffer' # <<>>
      BY <1>1, <1>3, <2>2, <3>2 DEF Blended
    <3>6. Shape'
      BY <1>2, <1>3, <2>2, <3>2, <3>5 DEF Shape
    <3>7. ASSUME ~skipped' PROVE executed # None /\ Arrived
      BY <1>5, <2>3, <3>7, AtTheEnd
    <3>8. ASSUME ~skipped'
          PROVE  /\ executed' # None /\ prev' # None
                 /\ executed'.part = multiplier' /\ buffer'[1].from = executed'.to
      BY <1>1, <1>2, <1>3, <2>2, <3>2, <3>7, <3>8 DEF Arrived
    <3>9. Joined'
      BY <2>2, <3>5, <3>8 DEF Joined
    <3> QED BY <3>3, <3>4, <3>6, <3>9 DEF InterpolatorInv
  <2>4. CASE ~(prev # None /\ Enabled)
    <3>1. /\ buffer' = PassedThrough(a)
          /\ buffer' \in Seq(Step) /\ Len(buffer') = 1
          /\ buffer'[1] = [from |-> a.number, to |-> a.number,
                           part |-> multiplier, width |-> a.width]
      BY <1>1, <1>2, <2>1, <2>4, PassTyped DEF AddAction
    <3>2. InterpolatorTypeOK'
      BY <1>2, <1>3, <1>4, <2>2, <3>1 DEF InterpolatorTypeOK
    <3>3. NothingStale'
      <4>1. buffer'[1].to = adds'
        BY <1>2, <3>1
      <4>2. \A i \in idx' + 1 .. Len(buffer') : i = 1
        BY <2>2, <3>1
      <4> QED BY <4>1, <4>2 DEF NothingStale
    <3>4. Passed' /\ buffer' # <<>>
      <4>1. /\ buffer'[1].from = a.number /\ buffer'[1].to = a.number
            /\ buffer'[1].part = multiplier
        BY <3>1
      <4>2. buffer' # <<>>
        <5>1. Len(buffer') = 1 /\ Len(<<>>) = 0
          BY <3>1
        <5> QED BY <5>1
      <4>3. Passed'
        BY <1>1, <2>2, <3>1, <4>1 DEF Passed
      <4> QED BY <4>2, <4>3
    <3>5. Shape'
      BY <1>2, <2>2, <3>1, <3>4 DEF Shape
    <3>6. ASSUME Enabled', ~skipped' PROVE executed' = None
      BY <1>1, <1>5, <2>4, <3>6 DEF Joined, Enabled
    <3>7. Joined'
      BY <1>2, <2>2, <3>4, <3>6 DEF Joined
    <3> QED BY <3>2, <3>3, <3>5, <3>7 DEF InterpolatorInv
  <2> QED BY <2>3, <2>4
<1>7. CASE ~Accepts(a)
  <2>1. buffer' = <<>> /\ prev' = prev /\ idx' = idx
    BY <1>7 DEF Add, RejectAction
  <2>2. prev # None /\ Enabled
    BY <1>7 DEF Accepts
  <2>3. InterpolatorTypeOK'
    BY <1>1, <1>3, <1>4, <2>1 DEF InterpolatorTypeOK
  <2>4. NothingStale' /\ Shape'
    BY <1>1, <2>1 DEF NothingStale, Shape, InterpolatorTypeOK
  <2>5. ASSUME ~skipped' PROVE executed # None /\ Arrived
    BY <1>5, <2>2, <2>5, AtTheEnd
  <2>6. ASSUME ~skipped' PROVE executed' # None /\ prev' # None /\ Arrived'
    BY <1>1, <2>1, <2>2, <2>5, <2>6 DEF Arrived
  <2>7. Joined'
    BY <2>1, <2>6 DEF Joined
  <2> QED BY <2>3, <2>4, <2>7 DEF InterpolatorInv
<1> QED BY <1>6, <1>7

LEMMA GetKeeps ==
  ASSUME InterpolatorInv, Get
  PROVE  InterpolatorInv'
<1>1. /\ InterpolatorTypeOK /\ NothingStale /\ Shape
      /\ idx \in Nat /\ buffer \in Seq(Step) /\ Len(buffer) \in Nat /\ idx < Len(buffer)
      /\ idx' = idx + 1 /\ executed' = buffer[idx + 1] /\ skipped' = FALSE
      /\ multiplier' = multiplier /\ prev' = prev /\ buffer' = buffer /\ adds' = adds
  BY DEF InterpolatorInv, InterpolatorTypeOK, Get, NeedsNewAction
<1>2. buffer[idx + 1] \in Step
  BY <1>1
<1>3. InterpolatorTypeOK'
  <2>1. idx' \in Nat
    BY <1>1
  <2>2. executed' \in Step \cup {None}
    BY <1>1, <1>2
  <2>3. skipped' \in BOOLEAN
    BY <1>1
  <2> QED BY <1>1, <2>1, <2>2, <2>3 DEF InterpolatorTypeOK
<1>4. NothingStale'
  BY <1>1 DEF NothingStale
<1>5. buffer # <<>>
  BY <1>1
<1>6. prev # None /\ (Passed \/ Blended) /\ (Passed' <=> Passed) /\ (Blended' <=> Blended)
  BY <1>1, <1>5 DEF Shape, Passed, Blended
<1>7. Shape'
  BY <1>1, <1>6 DEF Shape
<1>8. executed' # None
  BY <1>1, <1>2, NoneAssumption
<1>9. Joined'
  BY <1>1, <1>5, <1>6, <1>8 DEF Joined
<1> QED BY <1>3, <1>4, <1>7, <1>9 DEF InterpolatorInv

LEMMA InterpolatorKeeps ==
  ASSUME InterpolatorInv, [InterpolatorNext]_interpolatorVars
  PROVE  InterpolatorInv'
<1>1. CASE \E width \in Widths : Add(width)
  BY <1>1, AddKeeps
<1>2. CASE Get
  BY <1>2, GetKeeps
<1>3. CASE Reset
  <2>1. InterpolatorTypeOK'
    <3>1. <<>> \in Seq(Step) /\ 0 \in Nat
      OBVIOUS
    <3> QED BY <1>3, <3>1 DEF InterpolatorInv, InterpolatorTypeOK, Reset
  <2>2. NothingStale' /\ Shape' /\ Joined'
    BY <1>3 DEF Reset, NothingStale, Shape, Joined
  <2> QED BY <2>1, <2>2 DEF InterpolatorInv
<1>4. CASE UNCHANGED interpolatorVars
  BY <1>4 DEF interpolatorVars, InterpolatorInv, InterpolatorTypeOK, NothingStale, Shape, Joined, Passed,
              Blended, Arrived, Enabled
<1> QED BY <1>1, <1>2, <1>3, <1>4 DEF InterpolatorNext

(* Whatever is added, refused, taken and reset: the buffer is of the       *)
(* newest add, has the shape its multiplier gives it, and continues what   *)
(* was executed last. (ActionInterpolator::add, get, reset.)               *)
THEOREM InterpolatorInductive == InterpolatorSpec => []InterpolatorInv
BY InterpolatorInitially, InterpolatorKeeps, PTL DEF InterpolatorSpec

(* Buffer, previous action and index keep their types, for every           *)
(* multiplier, and every limit on what can be allocated.                   *)
THEOREM InterpolatorTypeCorrect == InterpolatorSpec => []InterpolatorTypeOK
<1>1. InterpolatorInv => InterpolatorTypeOK
  BY DEF InterpolatorInv
<1> QED BY <1>1, InterpolatorInductive, PTL

(* No step is ever left to get that does not belong to the newest add.     *)
THEOREM NoStepIsStale == InterpolatorSpec => []NothingStale
<1>1. InterpolatorInv => NothingStale
  BY DEF InterpolatorInv
<1> QED BY <1>1, InterpolatorInductive, PTL

-----------------------------------------------------------------------------
(* Only get moves the index on by one.                                     *)
LEMMA OnlyGetMovesOn ==
  ASSUME InterpolatorInv, [InterpolatorNext]_interpolatorVars, idx' = idx + 1
  PROVE  Get
<1>1. idx \in Nat /\ idx + 1 # 0 /\ idx + 1 # idx
  BY DEF InterpolatorInv, InterpolatorTypeOK
<1>2. ASSUME NEW width \in Widths, Add(width) PROVE idx' = 0 \/ idx' = idx
  BY <1>2 DEF Add, AddAction, RejectAction
<1>3. Reset => idx' = 0
  BY DEF Reset
<1>4. UNCHANGED interpolatorVars => idx' = idx
  BY DEF interpolatorVars
<1> QED BY <1>1, <1>2, <1>3, <1>4 DEF InterpolatorNext

LEMMA GetIsContinuous ==
  ASSUME InterpolatorInv, Get, Enabled, ~skipped
  PROVE  IF executed = None THEN executed'.from = executed'.to
         ELSE Follows(executed', executed)
<1>1. /\ idx \in Nat /\ idx < Len(buffer) /\ buffer # <<>> /\ Len(buffer) \in Nat
      /\ executed' = buffer[idx + 1] /\ multiplier \in Nat
      /\ Shape /\ Joined
  BY InterpolatorAssumption DEF InterpolatorInv, InterpolatorTypeOK, Get, NeedsNewAction
<1>2. CASE executed = None
  <2>1. Passed /\ idx = 0
    BY <1>1, <1>2 DEF Joined
  <2> QED BY <1>1, <1>2, <2>1 DEF Passed
<1>3. CASE executed # None
  <2>1. CASE idx = 0
    <3>1. Blended /\ executed.part = multiplier /\ buffer[1].from = executed.to
      BY <1>1, <1>3, <2>1 DEF Joined
    <3>2. 1 \in 1..multiplier
      BY <1>1, <3>1 DEF Blended
    <3>3. buffer[1].part = 1
      BY <3>1, <3>2 DEF Blended
    <3>4. executed' = buffer[1]
      BY <1>1, <2>1
    <3> QED BY <1>3, <3>1, <3>3, <3>4 DEF Follows
  <2>2. CASE idx # 0
    <3>1. executed = buffer[idx] /\ Len(buffer) > 1
      BY <1>1, <1>3, <2>2 DEF Joined
    <3>2. Blended
      <4>1. Passed \/ Blended
        BY <1>1 DEF Shape
      <4>2. ~Passed
        <5> SUFFICES ASSUME Passed PROVE FALSE
          OBVIOUS
        <5>1. Len(buffer) = 1
          BY DEF Passed
        <5> QED BY <1>1, <3>1, <5>1
      <4> QED BY <4>1, <4>2
    <3>3. idx \in 1..multiplier /\ idx + 1 \in 1..multiplier
      BY <1>1, <2>2, <3>2 DEF Blended
    <3>4. /\ buffer[idx].part = idx /\ buffer[idx + 1].part = idx + 1
          /\ buffer[idx].from = buffer[idx + 1].from
          /\ buffer[idx].to = buffer[idx + 1].to
      BY <3>2, <3>3 DEF Blended
    <3> QED BY <1>1, <1>3, <3>1, <3>4 DEF Follows
  <2> QED BY <2>1, <2>2
<1> QED BY <1>2, <1>3

(* The steps executed make one continuous motion, for every multiplier and *)
(* every sequence of calls, refused ones included, that discards none.     *)
THEOREM MotionIsContinuous == InterpolatorSpec => Continuous
<1>1. ASSUME InterpolatorInv, [InterpolatorNext]_interpolatorVars
      PROVE  [ idx' = idx + 1 /\ Enabled /\ ~skipped =>
                 IF executed = None THEN executed'.from = executed'.to
                 ELSE Follows(executed', executed) ]_interpolatorVars
  BY <1>1, OnlyGetMovesOn, GetIsContinuous
<1> QED BY <1>1, InterpolatorInductive, PTL DEF InterpolatorSpec, Continuous

-----------------------------------------------------------------------------
(* The telemetry buffer                                                    *)

(* What the estimate is made of: what is buffered, and what it has not     *)
(* forgotten of the frames that the frame bound has dropped.  A buffer of  *)
(* no frames never forgets anything.                                       *)
EstimateExplained ==
  capacity.frames > 0 => currentBytes = dropped + BytesOf(ring)

BufferInv == BufferTypeOK /\ EstimateExplained /\ DriftBounded

Estimates(frames) == [i \in DOMAIN frames |-> Estimate(frames[i])]

LEMMA EstimateTyped ==
  ASSUME NEW f \in Frame
  PROVE  Estimate(f) \in Nat \ {0}
<1>1. f.cost \in Nat
  BY RingBufferAssumption DEF Frame
<1>2. CASE f.cost = 0
  BY <1>2 DEF Estimate
<1>3. CASE f.cost # 0
  BY <1>1, <1>3 DEF Estimate
<1> QED
  BY <1>2, <1>3

LEMMA EstimatesTyped ==
  ASSUME NEW frames \in Seq(Frame)
  PROVE  /\ Estimates(frames) \in Seq(Nat \ {0}) /\ Estimates(frames) \in Seq(Int)
         /\ Len(Estimates(frames)) = Len(frames)
         /\ \A i \in 1..Len(frames) : Estimates(frames)[i] = Estimate(frames[i])
         /\ BytesOf(frames) = SumOf(Estimates(frames))
         /\ BytesOf(frames) \in Nat
<1> DEFINE n == Len(frames)
           numbers == [i \in 1..n |-> Estimate(frames[i])]
<1>1. n \in Nat /\ DOMAIN frames = 1..n
  OBVIOUS
<1>2. ASSUME NEW i \in 1..n PROVE Estimate(frames[i]) \in Nat \ {0}
  BY <1>1, EstimateTyped
<1>3. Estimates(frames) = numbers
  BY <1>1 DEF Estimates
<1> HIDE DEF n
<1>4. numbers \in [1..n -> Nat \ {0}]
  BY <1>2
<1>5. numbers \in Seq(Nat \ {0}) /\ numbers \in Seq(Int) /\ Len(numbers) = n
  <2> HIDE DEF numbers
  <2> QED
    BY <1>1, <1>4
<1>6. \A i \in 1..n : numbers[i] = Estimate(frames[i])
  OBVIOUS
<1>7. BytesOf(frames) = SumOf(Estimates(frames))
  BY DEF BytesOf, Estimates
<1>8. SumOf(numbers) \in Nat
  <2> HIDE DEF numbers
  <2> QED
    BY <1>5, SumOfPositive
<1> QED
  BY <1>3, <1>5, <1>6, <1>7, <1>8 DEF n

LEMMA BytesOfNone == BytesOf(<<>>) = 0
<1>1. [i \in DOMAIN <<>> |-> Estimate(<<>>[i])] = <<>>
  OBVIOUS
<1> QED
  BY <1>1, SumEmpty DEF BytesOf

LEMMA BytesOfAppend ==
  ASSUME NEW frames \in Seq(Frame), NEW f \in Frame
  PROVE  BytesOf(Append(frames, f)) = BytesOf(frames) + Estimate(f)
<1> DEFINE longer == Append(frames, f)
<1>1. longer \in Seq(Frame) /\ Len(longer) = Len(frames) + 1
  OBVIOUS
<1>2. \A i \in 1..Len(frames) + 1 : longer[i] = IF i <= Len(frames) THEN frames[i] ELSE f
  OBVIOUS
<1> HIDE DEF longer
<1>3. Estimate(f) \in Int
  BY EstimateTyped
<1> DEFINE a == Estimates(longer)
           b == Append(Estimates(frames), Estimate(f))
<1>4. /\ a \in Seq(Int) /\ Len(a) = Len(frames) + 1
      /\ \A i \in 1..Len(frames) + 1 : a[i] = Estimate(longer[i])
  BY <1>1, EstimatesTyped
<1>5. /\ Estimates(frames) \in Seq(Int) /\ Len(Estimates(frames)) = Len(frames)
      /\ \A i \in 1..Len(frames) : Estimates(frames)[i] = Estimate(frames[i])
  BY EstimatesTyped
<1>6. /\ b \in Seq(Int) /\ Len(b) = Len(frames) + 1
      /\ \A i \in 1..Len(frames) : b[i] = Estimates(frames)[i]
      /\ b[Len(frames) + 1] = Estimate(f)
  BY <1>3, <1>5
<1>7. a = b
  <2> HIDE DEF a, b
  <2>1. ASSUME NEW i \in 1..Len(a) PROVE a[i] = b[i]
    <3>1. CASE i <= Len(frames)
      <4>1. i \in 1..Len(frames) /\ i \in 1..Len(frames) + 1
        BY <3>1, <1>4
      <4> QED
        BY <3>1, <4>1, <1>2, <1>4, <1>5, <1>6
    <3>2. CASE ~(i <= Len(frames))
      <4>1. i = Len(frames) + 1 /\ i \in 1..Len(frames) + 1
        BY <3>2, <1>4
      <4> QED
        BY <3>2, <4>1, <1>2, <1>4, <1>6
    <3> QED
      BY <3>1, <3>2
  <2> QED
    BY <2>1, <1>4, <1>6, SeqEqual
<1>8. SumOf(b) = SumOf(Estimates(frames)) + Estimate(f)
  BY <1>3, <1>5, SumAppend
<1>9. BytesOf(longer) = SumOf(a) /\ BytesOf(frames) = SumOf(Estimates(frames))
  BY <1>1, EstimatesTyped
<1> QED
  BY <1>7, <1>8, <1>9 DEF longer

(* The oldest n frames, and the rest.                                      *)
LEMMA BytesOfSplit ==
  ASSUME NEW frames \in Seq(Frame), NEW n \in 0..Len(frames)
  PROVE  /\ SubSeq(frames, 1, n) \in Seq(Frame)
         /\ SubSeq(frames, n + 1, Len(frames)) \in Seq(Frame)
         /\ Len(SubSeq(frames, n + 1, Len(frames))) = Len(frames) - n
         /\ BytesOf(frames) = BytesOf(SubSeq(frames, 1, n))
                                + BytesOf(SubSeq(frames, n + 1, Len(frames)))
<1> DEFINE old == SubSeq(frames, 1, n)
           new == SubSeq(frames, n + 1, Len(frames))
           numbers == Estimates(frames)
<1>1. old \in Seq(Frame) /\ Len(old) = n /\ \A k \in 1..n : old[k] = frames[k]
  OBVIOUS
<1>2. /\ new \in Seq(Frame) /\ Len(new) = Len(frames) - n
      /\ \A k \in 1..Len(frames) - n : new[k] = frames[n + k]
  OBVIOUS
<1> HIDE DEF old, new
<1>3. /\ numbers \in Seq(Int) /\ Len(numbers) = Len(frames)
      /\ \A i \in 1..Len(frames) : numbers[i] = Estimate(frames[i])
      /\ BytesOf(frames) = SumOf(numbers)
  BY EstimatesTyped
<1>4. /\ Estimates(old) \in Seq(Int) /\ Len(Estimates(old)) = n
      /\ \A i \in 1..n : Estimates(old)[i] = Estimate(old[i])
      /\ BytesOf(old) = SumOf(Estimates(old))
  BY <1>1, EstimatesTyped
<1>5. /\ Estimates(new) \in Seq(Int) /\ Len(Estimates(new)) = Len(frames) - n
      /\ \A i \in 1..Len(frames) - n : Estimates(new)[i] = Estimate(new[i])
      /\ BytesOf(new) = SumOf(Estimates(new))
  BY <1>2, EstimatesTyped
<1> HIDE DEF numbers
<1> DEFINE a == SubSeq(numbers, 1, n)
           b == SubSeq(numbers, n + 1, Len(numbers))
<1>6. n \in 0..Len(numbers)
  BY <1>3
<1>7. a \in Seq(Int) /\ b \in Seq(Int) /\ SumOf(numbers) = SumOf(a) + SumOf(b)
  BY <1>3, <1>6, SumSplit
<1>8. /\ Len(a) = n /\ \A k \in 1..n : a[k] = numbers[k]
      /\ Len(b) = Len(frames) - n /\ \A k \in 1..Len(frames) - n : b[k] = numbers[n + k]
  BY <1>3
<1> HIDE DEF a, b
<1>9. a = Estimates(old)
  <2>1. \A k \in 1..n : k \in 1..Len(frames) /\ a[k] = Estimates(old)[k]
    BY <1>1, <1>3, <1>4, <1>8
  <2> QED
    BY <2>1, <1>4, <1>7, <1>8, SeqEqual
<1>10. b = Estimates(new)
  <2>1. \A k \in 1..Len(frames) - n : n + k \in 1..Len(frames)
    OBVIOUS
  <2>2. ASSUME NEW k \in 1..Len(frames) - n PROVE b[k] = Estimates(new)[k]
    <3>1. b[k] = numbers[n + k] /\ numbers[n + k] = Estimate(frames[n + k])
      BY <2>1, <1>3, <1>8
    <3>2. Estimates(new)[k] = Estimate(new[k]) /\ new[k] = frames[n + k]
      BY <1>2, <1>5
    <3> QED
      BY <3>1, <3>2
  <2> QED
    BY <2>2, <1>5, <1>7, <1>8, SeqEqual
<1> QED
  BY <1>1, <1>2, <1>3, <1>4, <1>5, <1>7, <1>9, <1>10 DEF old, new

LEMMA EvictedTyped ==
  ASSUME BufferTypeOK, NEW f \in Frame
  PROVE  /\ Evicted(f) \in 0..Len(ring)
         /\ Evicted(f) = Len(ring) \/ ~OverCap(BytesWithout(Evicted(f)), f)
<1> DEFINE Enough == {n \in 0..Len(ring) : n = Len(ring) \/ ~OverCap(BytesWithout(n), f)}
<1>1. Len(ring) \in Nat
  BY DEF BufferTypeOK
<1>2. Enough \in SUBSET Nat /\ Len(ring) \in Enough
  BY <1>1
<1>3. Evicted(f) = Min(Enough)
  BY DEF Evicted
<1>4. Min(Enough) \in Enough
  <2> HIDE DEF Enough
  <2>1. \E n \in Enough : \A m \in Enough : n <= m
    BY <1>2, LeastExists
  <2> QED
    BY <2>1 DEF Min
<1> QED
  BY <1>3, <1>4

LEMMA MaxOfZero ==
  ASSUME NEW b \in Int
  PROVE  Max({b, 0}) \in Nat /\ b <= Max({b, 0})
<1>1. \E x \in {b, 0} : \A y \in {b, 0} : x >= y
  OBVIOUS
<1>2. Max({b, 0}) \in {b, 0} /\ \A y \in {b, 0} : Max({b, 0}) >= y
  BY <1>1 DEF Max
<1> QED
  BY <1>2

LEMMA BufferInitially == BufferInit => BufferInv
<1> SUFFICES ASSUME BufferInit PROVE BufferInv
  OBVIOUS
<1>1. ring = <<>> /\ currentBytes = 0 /\ appended = 0 /\ dropped = 0 /\ capacity \in Capacities
  BY DEF BufferInit
<1>2. capacity.frames \in Nat /\ capacity.bytes \in Int
  BY <1>1, RingBufferAssumption
<1> QED
  BY <1>1, <1>2, MaxOfZero, BytesOfNone, RingBufferAssumption
     DEF BufferInv, BufferTypeOK, EstimateExplained, DriftBounded

(* What a new frame does to the buffer: `kept` is what the byte bound      *)
(* leaves, `bytes` its estimate.                                           *)
LEMMA AppendStep ==
  ASSUME BufferInv, NEW cost \in Costs, AppendFrame(cost)
  PROVE  BufferInv'
<1> DEFINE f == [number |-> appended + 1, cost |-> cost]
           n == Evicted(f)
           old == SubSeq(ring, 1, n)
           kept == SubSeq(ring, n + 1, Len(ring))
           bytes == BytesWithout(n)
<1>1. /\ capacity \in Capacities /\ ring \in Seq(Frame) /\ currentBytes \in Nat
      /\ appended \in 0..MaxAppends /\ dropped \in Nat
  BY DEF BufferInv, BufferTypeOK
<1>2. capacity.frames \in Nat /\ capacity.bytes \in Int
  BY <1>1, RingBufferAssumption
<1>3. /\ appended < MaxAppends
      /\ ring' = Pushed(kept, f)
      /\ currentBytes' = bytes + Estimate(f)
      /\ dropped' = dropped + DroppedBy(kept, f)
      /\ appended' = appended + 1
      /\ capacity' = capacity
  BY DEF AppendFrame
<1>4. f \in Frame
  BY <1>1, <1>3, RingBufferAssumption DEF Frame
<1>5. n \in 0..Len(ring) /\ (n = Len(ring) \/ ~OverCap(bytes, f))
  <2> HIDE DEF f
  <2> QED
    BY <1>4, EvictedTyped DEF BufferInv
<1>6. bytes = Minus(currentBytes, BytesOf(old))
  BY DEF BytesWithout
<1>7. /\ Len(ring) <= capacity.frames
      /\ capacity.frames > 0 => dropped <= Max({capacity.bytes, 0})
  BY DEF BufferInv, DriftBounded
<1>8. capacity.frames > 0 => currentBytes = dropped + BytesOf(ring)
  BY DEF BufferInv, EstimateExplained
<1> HIDE DEF f, n
<1>9. /\ old \in Seq(Frame) /\ kept \in Seq(Frame) /\ Len(kept) = Len(ring) - n
      /\ BytesOf(ring) = BytesOf(old) + BytesOf(kept)
  BY <1>1, <1>5, BytesOfSplit
<1>10. BytesOf(old) \in Nat /\ BytesOf(kept) \in Nat
  BY <1>9, EstimatesTyped
<1>11. Estimate(f) \in Nat \ {0}
  BY <1>4, EstimateTyped
<1> HIDE DEF old, kept, bytes
<1>12. bytes \in Nat
  BY <1>1, <1>6, <1>10 DEF Minus
<1>13. capacity.frames > 0 => bytes = dropped + BytesOf(kept)
  BY <1>1, <1>2, <1>6, <1>8, <1>9, <1>10 DEF Minus
<1>14. n < Len(ring) => bytes + Estimate(f) <= capacity.bytes
  BY <1>2, <1>5, <1>11, <1>12 DEF OverCap
<1>15. Max({capacity.bytes, 0}) \in Nat /\ capacity.bytes <= Max({capacity.bytes, 0})
  BY <1>2, MaxOfZero
<1>16. Len(ring) \in Nat /\ Len(kept) \in Nat
  BY <1>1, <1>9
<1>17. currentBytes' \in Nat /\ appended' \in 0..MaxAppends /\ capacity' \in Capacities
  BY <1>1, <1>3, <1>11, <1>12, RingBufferAssumption
<1>18. CASE capacity.frames = 0
  <2>1. Len(ring) = 0 /\ Len(kept) = 0
    BY <1>5, <1>7, <1>9, <1>16, <1>18
  <2>2. ring' = kept /\ dropped' = dropped + Estimate(f)
    BY <1>3, <1>18 DEF Pushed, DroppedBy
  <2>3. Len(ring') = 0 /\ ring' = <<>> /\ ring' \in Seq(Frame)
    BY <2>1, <2>2, <1>9
  <2>4. dropped' \in Nat
    BY <2>2, <1>1, <1>11
  <2>5. ~(capacity'.frames > 0) /\ capacity'.frames = 0
    BY <1>3, <1>18
  <2> QED
    BY <2>3, <2>4, <2>5, <1>17
       DEF BufferInv, BufferTypeOK, EstimateExplained, DriftBounded
<1>19. CASE capacity.frames # 0 /\ Len(kept) = capacity.frames
  <2>1. n < Len(ring)
    BY <1>2, <1>5, <1>9, <1>16, <1>19
  <2>2. ring' = Append(Tail(kept), f) /\ dropped' = dropped + Estimate(Head(kept))
    BY <1>3, <1>19 DEF Pushed, DroppedBy
  <2>3. kept # <<>>
    BY <1>2, <1>9, <1>19
  <2> DEFINE rest == Tail(kept)
  <2>4. /\ Head(kept) \in Frame /\ rest \in Seq(Frame) /\ Len(rest) = Len(kept) - 1
        /\ Head(kept) = kept[1] /\ \A k \in 1..Len(rest) : rest[k] = kept[k + 1]
    BY <2>3, <1>9
  <2>5. BytesOf(kept) = Estimate(Head(kept)) + BytesOf(rest)
    <3> DEFINE first == SubSeq(kept, 1, 1)
               others == SubSeq(kept, 1 + 1, Len(kept))
    <3>1. 1 \in 0..Len(kept)
      BY <1>2, <1>16, <1>19
    <3>2. BytesOf(kept) = BytesOf(first) + BytesOf(others)
      BY <3>1, <1>9, BytesOfSplit
    <3>8. /\ others \in Seq(Frame) /\ Len(others) = Len(kept) - 1
          /\ \A k \in 1..Len(kept) - 1 : others[k] = kept[k + 1]
          /\ first \in Seq(Frame) /\ Len(first) = 1 /\ first[1] = kept[1]
      BY <3>1, <1>9
    <3> HIDE DEF first, others, rest
    <3>3. others = rest
      <4>1. \A k \in 1..Len(rest) : rest[k] = others[k]
        BY <3>8, <2>4
      <4> QED
        BY <4>1, <3>8, <2>4, SeqEqual
    <3> DEFINE one == Append(<<>>, Head(kept))
    <3>4. first = one
      <4>1. one \in Seq(Frame) /\ Len(one) = 1 /\ one[1] = Head(kept)
        BY <2>4
      <4> HIDE DEF one
      <4>2. \A k \in 1..Len(first) : first[k] = one[k]
        BY <4>1, <3>8, <2>4
      <4> QED
        BY <4>1, <4>2, <3>8, SeqEqual
    <3>5. BytesOf(Append(<<>>, Head(kept))) = BytesOf(<<>>) + Estimate(Head(kept))
      <4>1. <<>> \in Seq(Frame)
        OBVIOUS
      <4> QED
        BY <4>1, <2>4, BytesOfAppend
    <3>6. Estimate(Head(kept)) \in Nat
      BY <2>4, EstimateTyped
    <3>7. BytesOf(first) = Estimate(Head(kept))
      BY <3>4, <3>5, <3>6, BytesOfNone
    <3> QED
      BY <3>2, <3>3, <3>7
  <2>6. BytesOf(rest) \in Nat /\ Estimate(Head(kept)) \in Nat
    BY <2>4, EstimatesTyped, EstimateTyped
  <2> HIDE DEF rest
  <2>7. ring' = Append(rest, f)
    BY <2>2 DEF rest
  <2>8. /\ ring' \in Seq(Frame) /\ Len(ring') = Len(rest) + 1 /\ ring'[Len(rest) + 1] = f
    BY <2>4, <2>7, <1>4
  <2>9. BytesOf(ring') = BytesOf(rest) + Estimate(f)
    BY <2>4, <2>7, <1>4, BytesOfAppend
  <2>10. dropped' \in Nat /\ dropped' <= bytes
    BY <2>2, <2>5, <2>6, <1>1, <1>2, <1>13, <1>19
  <2>11. dropped' <= capacity.bytes /\ currentBytes' <= capacity.bytes
    BY <2>1, <2>10, <1>2, <1>3, <1>11, <1>12, <1>14
  <2>12. currentBytes' = dropped' + BytesOf(ring')
    BY <2>2, <2>5, <2>6, <2>9, <1>1, <1>2, <1>3, <1>11, <1>13, <1>19, SMTT(30)
  <2>13. Len(ring') = capacity.frames
    BY <2>4, <2>8, <1>2, <1>16, <1>19
  <2>14. Estimate(Last(ring')) = Estimate(f)
    BY <2>8 DEF Last
  <2>15. /\ dropped' <= Max({capacity.bytes, 0})
         /\ currentBytes' <= Max({capacity.bytes, 0}) + Estimate(Last(ring'))
    BY <2>10, <2>11, <2>14, <1>2, <1>11, <1>15, <1>17
  <2> QED
    BY <2>8, <2>10, <2>11, <2>12, <2>13, <2>15, <1>2, <1>3, <1>17
       DEF BufferInv, BufferTypeOK, EstimateExplained, DriftBounded
<1>20. CASE capacity.frames # 0 /\ Len(kept) # capacity.frames
  <2>1. ring' = Append(kept, f) /\ dropped' = dropped
    BY <1>1, <1>3, <1>20 DEF Pushed, DroppedBy
  <2>2. /\ ring' \in Seq(Frame) /\ Len(ring') = Len(kept) + 1 /\ ring'[Len(kept) + 1] = f
    BY <2>1, <1>4, <1>9
  <2>3. BytesOf(ring') = BytesOf(kept) + Estimate(f)
    BY <2>1, <1>4, <1>9, BytesOfAppend
  <2>4. currentBytes' = dropped' + BytesOf(ring')
    BY <2>1, <2>3, <1>1, <1>2, <1>3, <1>10, <1>11, <1>13, <1>20
  <2>5. Len(ring') <= capacity.frames
    BY <2>2, <1>2, <1>5, <1>7, <1>9, <1>16, <1>20
  <2>6. Len(ring') > 1 => currentBytes' <= capacity.bytes
    BY <2>2, <1>3, <1>5, <1>9, <1>14, <1>16
  <2>7. Estimate(Last(ring')) = Estimate(f)
    BY <2>2 DEF Last
  <2>8. dropped' <= Max({capacity.bytes, 0})
    BY <2>1, <1>2, <1>7, <1>20
  <2>9. currentBytes' <= Max({capacity.bytes, 0}) + Estimate(Last(ring'))
    <3>1. CASE n < Len(ring)
      BY <3>1, <2>7, <1>2, <1>3, <1>11, <1>12, <1>14, <1>15
    <3>2. CASE ~(n < Len(ring))
      <4>1. Len(kept) = 0
        BY <3>2, <1>5, <1>9, <1>16
      <4>2. BytesOf(kept) = 0
        <5>1. kept = <<>>
          BY <4>1, <1>9
        <5> QED
          BY <5>1, BytesOfNone
      <4>3. bytes = dropped
        BY <4>2, <1>1, <1>2, <1>13, <1>20
      <4> QED
        BY <4>3, <2>1, <2>7, <2>8, <1>1, <1>3, <1>11, <1>15
    <3> QED
      BY <3>1, <3>2
  <2>10. dropped' \in Nat
    BY <2>1, <1>1
  <2> QED
    BY <2>2, <2>4, <2>5, <2>6, <2>8, <2>9, <2>10, <1>3, <1>17
       DEF BufferInv, BufferTypeOK, EstimateExplained, DriftBounded
<1> QED
  BY <1>18, <1>19, <1>20

LEMMA BufferKeeps == BufferInv /\ [BufferNext]_ringVars => BufferInv'
<1> SUFFICES ASSUME BufferInv, [BufferNext]_ringVars PROVE BufferInv'
  OBVIOUS
<1>1. ASSUME NEW cost \in Costs, AppendFrame(cost) PROVE BufferInv'
  BY <1>1, AppendStep
<1>2. CASE Drain
  <2>1. /\ capacity' = capacity /\ ring' = <<>> /\ currentBytes' = 0
        /\ appended' = 0 /\ dropped' = 0
    BY <1>2 DEF Drain
  <2>2. capacity \in Capacities /\ capacity.frames \in Nat /\ capacity.bytes \in Int
    BY RingBufferAssumption DEF BufferInv, BufferTypeOK
  <2>3. Max({capacity.bytes, 0}) \in Nat
    BY <2>2, MaxOfZero
  <2>4. BytesOf(ring') = 0
    BY <2>1, BytesOfNone
  <2>5. ring' \in Seq(Frame) /\ Len(ring') = 0
    BY <2>1
  <2> QED
    BY <2>1, <2>2, <2>3, <2>4, <2>5, RingBufferAssumption
       DEF BufferInv, BufferTypeOK, EstimateExplained, DriftBounded
<1>3. CASE UNCHANGED ringVars
  BY <1>3 DEF ringVars, BufferInv, BufferTypeOK, EstimateExplained, DriftBounded,
              BytesOf, Frame
<1> QED
  BY <1>1, <1>2, <1>3 DEF BufferNext

(* For every capacity and all costs of frames: the buffer stays within its *)
(* bounds, and its estimate drifts no further than one bound.              *)
THEOREM BufferDriftBounded == BufferSpec => []DriftBounded
<1>1. BufferSpec => []BufferInv
  BY BufferInitially, BufferKeeps, PTL DEF BufferSpec
<1>2. BufferInv => DriftBounded
  BY DEF BufferInv
<1> QED
  BY <1>1, <1>2, PTL

(* ... and the estimate is what the buffered frames cost, and those that   *)
(* the frame bound has dropped since the last drain.                       *)
THEOREM BufferEstimateExplained == BufferSpec => [](BufferTypeOK /\ EstimateExplained)
<1>1. BufferSpec => []BufferInv
  BY BufferInitially, BufferKeeps, PTL DEF BufferSpec
<1>2. BufferInv => BufferTypeOK /\ EstimateExplained
  BY DEF BufferInv
<1> QED
  BY <1>1, <1>2, PTL

-----------------------------------------------------------------------------
(* The serial line                                                         *)

Packets == [number : Nat, id : 1..BusServos, size : Nat, flaw : Flaws]
Byte == [packet : Packets, at : Nat]

BusTypeOK ==
  /\ wire \in Seq(Byte) /\ input \in Seq(Byte)
  /\ loop \in DOMAIN Asked \cup {"none"}
  /\ target \in 1..BusServos
  /\ exchange \in {"send", "prefix", "rest"}
  /\ exchange = "rest" => prefix[1].packet \in Packets
  /\ announced \in Nat
  /\ sent \in Nat
  /\ behind \in BOOLEAN
  /\ answer \in Packets \cup {NoPacket}
  /\ exchange # "send" => answer = NoPacket

AllOf(p, bytes) == \A i \in 1..Len(bytes) : bytes[i].packet = p

(* What is on the line, read or not, while it is in step: nothing between  *)
(* two requests; then what has come of the last one, which is never more   *)
(* than the packet it was sent in; then no more than the rest of that, if  *)
(* its length was read as it was sent.                                     *)
OnLine == Len(input) + Len(wire)

LineInv ==
  ~behind =>
    /\ exchange = "send" => wire = <<>> /\ input = <<>>
    /\ exchange = "prefix" =>
         \E p \in Packets : /\ p.number = sent
                            /\ AllOf(p, input) /\ AllOf(p, wire)
                            /\ OnLine <= Length(p)
    /\ exchange = "rest" =>
         /\ prefix[1].packet.number = sent
         /\ announced = Announced(prefix[1].packet) => OnLine <= announced

BusInv == BusTypeOK /\ LineInv /\ AnswersAreFresh

LEMMA AskedNat == \A l \in DOMAIN Asked : Asked[l] \in Nat
BY DEF Asked

(* A packet in bytes is as long as it should be, and all its own.          *)
LEMMA BytesTyped ==
  ASSUME NEW p \in Packets
  PROVE  /\ Length(p) \in Nat /\ Length(p) = 6 + p.size /\ p.size \in Nat
         /\ Bytes(p) \in Seq(Byte)
         /\ Len(Bytes(p)) = Length(p)
         /\ AllOf(p, Bytes(p))
<1>1. Length(p) \in Nat /\ Length(p) = 6 + p.size /\ p.size \in Nat
  BY DEF Length, Packets
<1>2. \A k \in 1..Length(p) : [packet |-> p, at |-> k] \in Byte
  BY <1>1 DEF Byte
<1> DEFINE bytes == [k \in 1..Length(p) |-> [packet |-> p, at |-> k]]
<1>3. bytes \in [1..Length(p) -> Byte]
  BY <1>2
<1>4. bytes \in Seq(Byte) /\ Len(bytes) = Length(p)
  <2> HIDE DEF bytes
  <2> QED BY <1>1, <1>3
<1>5. AllOf(p, bytes)
  <2>1. \A k \in 1..Length(p) : bytes[k].packet = p
    OBVIOUS
  <2> HIDE DEF bytes
  <2> QED BY <1>4, <2>1 DEF AllOf
<1> QED
  BY <1>1, <1>4, <1>5 DEF Bytes

(* What is put together of bytes of a packet, or is a part of them, is.    *)
LEMMA ConcatAll ==
  ASSUME NEW s \in Seq(Byte), NEW t \in Seq(Byte), NEW p, AllOf(p, s), AllOf(p, t)
  PROVE  /\ s \o t \in Seq(Byte) /\ Len(s \o t) = Len(s) + Len(t)
         /\ AllOf(p, s \o t)
<1>1. Len(s) \in Nat /\ Len(t) \in Nat
  BY LenProperties
<1>2. /\ s \o t \in Seq(Byte) /\ Len(s \o t) = Len(s) + Len(t)
      /\ \A i \in 1..Len(s) + Len(t) :
           (s \o t)[i] = IF i <= Len(s) THEN s[i] ELSE t[i - Len(s)]
  BY ConcatProperties
<1>3. ASSUME NEW i \in 1..Len(s) + Len(t) PROVE (s \o t)[i].packet = p
  <2>1. CASE i <= Len(s)
    <3>1. (s \o t)[i] = s[i] /\ i \in 1..Len(s)
      BY <1>1, <1>2, <2>1
    <3> QED
      BY <3>1 DEF AllOf
  <2>2. CASE ~(i <= Len(s))
    <3>1. (s \o t)[i] = t[i - Len(s)]
      BY <1>2, <2>2
    <3>2. i - Len(s) \in 1..Len(t)
      BY <1>1, <2>2
    <3> QED
      BY <3>1, <3>2 DEF AllOf
  <2> QED
    BY <2>1, <2>2
<1> QED
  BY <1>2, <1>3 DEF AllOf

LEMMA SubSeqAll ==
  ASSUME NEW s \in Seq(Byte), NEW p, AllOf(p, s),
         NEW m \in Nat \ {0}, NEW n \in Nat, m <= n + 1, n <= Len(s)
  PROVE  /\ SubSeq(s, m, n) \in Seq(Byte) /\ Len(SubSeq(s, m, n)) = n - m + 1
         /\ AllOf(p, SubSeq(s, m, n))
<1>1. Len(s) \in Nat
  BY LenProperties
<1>2. \A i \in m..n : s[i] \in Byte
  BY <1>1, ElementOfSeq
<1>3. /\ SubSeq(s, m, n) \in Seq(Byte) /\ Len(SubSeq(s, m, n)) = n - m + 1
      /\ \A i \in 1..n - m + 1 : SubSeq(s, m, n)[i] = s[m + i - 1]
  BY <1>2, SubSeqProperties
<1>4. ASSUME NEW i \in 1..n - m + 1 PROVE s[m + i - 1].packet = p
  <2>1. m + i - 1 \in 1..Len(s)
    BY <1>1
  <2> QED
    BY <2>1 DEF AllOf
<1> QED
  BY <1>3, <1>4 DEF AllOf

(* ... and shorter when it lacks a byte.                                   *)
LEMMA WithoutTyped ==
  ASSUME NEW p \in Packets, NEW k \in 1..Length(p)
  PROVE  /\ Without(p, k) \in Seq(Byte)
         /\ Len(Without(p, k)) <= Length(p)
         /\ AllOf(p, Without(p, k))
<1>1. /\ Bytes(p) \in Seq(Byte) /\ Len(Bytes(p)) = Length(p) /\ Length(p) \in Nat
      /\ AllOf(p, Bytes(p))
  BY BytesTyped
<1> DEFINE u == SubSeq(Bytes(p), 1, k - 1)
           v == SubSeq(Bytes(p), k + 1, Length(p))
<1>2. k - 1 \in Nat /\ k - 1 <= Length(p) /\ 1 <= (k - 1) + 1
      /\ k + 1 \in Nat \ {0} /\ k + 1 <= Length(p) + 1 /\ Length(p) <= Length(p)
  BY <1>1
<1>3. u \in Seq(Byte) /\ Len(u) = k - 1 - 1 + 1 /\ AllOf(p, u)
  BY <1>1, <1>2, SubSeqAll
<1>4. v \in Seq(Byte) /\ Len(v) = Length(p) - (k + 1) + 1 /\ AllOf(p, v)
  BY <1>1, <1>2, SubSeqAll
<1> HIDE DEF u, v
<1>5. u \o v \in Seq(Byte) /\ Len(u \o v) = Len(u) + Len(v) /\ AllOf(p, u \o v)
  BY <1>3, <1>4, ConcatAll
<1>6. Len(u \o v) <= Length(p)
  BY <1>1, <1>3, <1>4, <1>5
<1> QED
  BY <1>5, <1>6 DEF Without, u, v

(* Whatever comes of a request is of one packet, which bears its number.   *)
LEMMA RepliesTyped ==
  ASSUME BusTypeOK, loop # "none", NEW reply \in Replies
  PROVE  /\ reply \in Seq(Byte)
         /\ \E p \in Packets : /\ p.number = sent + 1
                               /\ Len(reply) <= Length(p) /\ AllOf(p, reply)
<1>1. ASSUME NEW flaw \in Flaws
      PROVE  Packet(flaw) \in Packets /\ Packet(flaw).number = sent + 1
  BY AskedNat DEF Packet, Packets, BusTypeOK
<1>2. "none" \in Flaws
  BY DEF Flaws
<1>3. CASE reply = <<>>
  <2>1. reply \in Seq(Byte) /\ Len(reply) = 0
    BY <1>3
  <2>2. Packet("none") \in Packets /\ Packet("none").number = sent + 1
    BY <1>1, <1>2
  <2>3. Length(Packet("none")) \in Nat
    BY <2>2, BytesTyped
  <2>4. AllOf(Packet("none"), reply)
    BY <2>1 DEF AllOf
  <2> QED
    BY <2>1, <2>2, <2>3, <2>4
<1>4. ASSUME NEW flaw \in Flaws, reply = Bytes(Packet(flaw))
      PROVE  /\ reply \in Seq(Byte)
             /\ Len(reply) <= Length(Packet(flaw)) /\ AllOf(Packet(flaw), reply)
  BY <1>1, <1>4, BytesTyped
<1>5. ASSUME NEW k \in 1..Length(Packet("none")), reply = Without(Packet("none"), k)
      PROVE  /\ reply \in Seq(Byte)
             /\ Len(reply) <= Length(Packet("none")) /\ AllOf(Packet("none"), reply)
  BY <1>1, <1>2, <1>5, WithoutTyped
<1>6. \/ reply = <<>>
      \/ \E flaw \in Flaws : reply = Bytes(Packet(flaw))
      \/ \E k \in 1..Length(Packet("none")) : reply = Without(Packet("none"), k)
  BY DEF Replies
<1> QED
  BY <1>1, <1>2, <1>3, <1>4, <1>5, <1>6

(* What is left of the input when its first bytes are taken.               *)
LEMMA LeftTyped ==
  ASSUME BusTypeOK, NEW n \in Nat, n <= Len(input)
  PROVE  Left(n) \in Seq(Byte) /\ Len(Left(n)) = Len(input) - n
<1>1. input \in Seq(Byte) /\ Len(input) \in Nat
  BY LenProperties DEF BusTypeOK
<1>2. \A i \in n + 1 .. Len(input) : input[i] \in Byte
  BY <1>1, ElementOfSeq
<1> QED
  BY <1>1, <1>2, SubSeqProperties DEF Left

(* The steps of the loop leave its place in their types.                   *)
LEMMA EndedTyped ==
  ASSUME BusTypeOK, NEW ok \in BOOLEAN, Ended(ok)
  PROVE  /\ exchange' = "send"
         /\ announced' \in Nat
         /\ loop' \in DOMAIN Asked \cup {"none"}
         /\ target' \in 1..BusServos
BY BusAssumption DEF BusTypeOK, Ended

(* A request is written, or fails to be, on a line that is empty or out of *)
(* step.                                                                   *)
LEMMA SendStep ==
  ASSUME BusInv, Send \/ SendFails PROVE BusInv'
<1>1. /\ exchange = "send" /\ loop # "none" /\ sent' = sent + 1 /\ input' = input
      /\ answer' = NoPacket
  BY DEF Send, SendFails
<1>2. PICK reply \in Replies : wire' = wire \o reply
  BY DEF Send, SendFails
<1>3. BusTypeOK
  BY DEF BusInv
<1>4. reply \in Seq(Byte) /\ wire \in Seq(Byte) /\ input \in Seq(Byte) /\ sent \in Nat
  BY <1>1, <1>3, RepliesTyped DEF BusTypeOK
<1>5. wire' \in Seq(Byte)
  BY <1>2, <1>4, ConcatProperties
<1>6. CASE Send
  <2>1. exchange' = "prefix" /\ UNCHANGED <<loop, target, announced, behind>>
    BY <1>6 DEF Send
  <2>2. BusTypeOK'
    BY <1>1, <1>3, <1>4, <1>5, <2>1 DEF BusTypeOK
  <2>3. ASSUME ~behind
        PROVE  \E p \in Packets : /\ p.number = sent' /\ AllOf(p, input') /\ AllOf(p, wire')
                                  /\ Len(input') + Len(wire') <= Length(p)
    <3>1. wire = <<>> /\ input = <<>>
      BY <1>1, <2>3 DEF BusInv, LineInv
    <3>2. wire' = reply
      BY <1>2, <1>4, <3>1, ConcatEmptySeq
    <3>3. Len(input') = 0 /\ \A p : AllOf(p, input')
      BY <1>1, <3>1 DEF AllOf
    <3>4. Len(reply) \in Nat
      BY <1>4, LenProperties
    <3>5. Len(input') + Len(wire') = Len(reply)
      BY <3>2, <3>3, <3>4
    <3> QED
      BY <1>1, <1>3, <3>2, <3>3, <3>5, RepliesTyped
  <2>4. LineInv'
    BY <2>1, <2>3 DEF LineInv, OnLine
  <2> QED
    BY <1>1, <2>2, <2>4 DEF BusInv, AnswersAreFresh
<1>7. CASE SendFails
  <2>1. behind' = TRUE /\ Ended(FALSE)
    BY <1>7 DEF SendFails
  <2>2. /\ exchange' = "send" /\ announced' \in Nat
        /\ loop' \in DOMAIN Asked \cup {"none"} /\ target' \in 1..BusServos
    BY <1>3, <2>1, EndedTyped
  <2>3. BusTypeOK'
    BY <1>1, <1>4, <1>5, <2>1, <2>2 DEF BusTypeOK
  <2> QED
    BY <2>1, <2>3 DEF BusInv, LineInv, AnswersAreFresh
<1> QED
  BY <1>6, <1>7

(* A byte that arrives stays on the line.                                  *)
LEMMA ArriveStep ==
  ASSUME BusInv, Arrive PROVE BusInv'
<1> DEFINE longer == Append(input, Head(wire))
           after == Tail(wire)
<1>1. /\ BusTypeOK /\ wire \in Seq(Byte) /\ input \in Seq(Byte) /\ wire # <<>>
      /\ input' = longer /\ wire' = after
      /\ UNCHANGED <<loop, target, exchange, prefix, announced, sent, behind, answer>>
  BY DEF BusInv, BusTypeOK, Arrive, client, tally
<1>2. /\ Head(wire) \in Byte /\ Head(wire) = wire[1]
      /\ after \in Seq(Byte) /\ Len(after) = Len(wire) - 1
      /\ \A i \in 1..Len(after) : after[i] = wire[i + 1]
  BY <1>1, HeadTailProperties
<1>3. /\ longer \in Seq(Byte) /\ Len(longer) = Len(input) + 1
      /\ \A i \in 1..Len(input) : longer[i] = input[i]
      /\ longer[Len(input) + 1] = wire[1]
  BY <1>1, <1>2, AppendProperties
<1>4. Len(input) \in Nat /\ Len(wire) \in Nat /\ Len(wire) >= 1
  BY <1>1, LenProperties, EmptySeq
<1> HIDE DEF longer, after
<1>5. OnLine' = OnLine
  BY <1>1, <1>2, <1>3, <1>4 DEF OnLine
<1>6. ASSUME NEW p, AllOf(p, input), AllOf(p, wire)
      PROVE  AllOf(p, longer) /\ AllOf(p, after)
  <2>1. ASSUME NEW i \in 1..Len(longer) PROVE longer[i].packet = p
    <3>1. CASE i \in 1..Len(input)
      BY <1>3, <1>6, <3>1 DEF AllOf
    <3>2. CASE i = Len(input) + 1
      BY <1>3, <1>4, <1>6, <3>2 DEF AllOf
    <3> QED
      BY <1>3, <1>4, <3>1, <3>2
  <2>2. ASSUME NEW i \in 1..Len(after) PROVE after[i].packet = p
    <3>1. i + 1 \in 1..Len(wire)
      BY <1>2, <1>4
    <3> QED
      BY <1>2, <1>6, <3>1 DEF AllOf
  <2> QED
    BY <2>1, <2>2 DEF AllOf
<1>7. BusTypeOK'
  BY <1>1, <1>2, <1>3 DEF BusTypeOK
<1>8. LineInv'
  <2> SUFFICES ASSUME ~behind'
               PROVE  /\ exchange' # "send"
                      /\ exchange' = "prefix" =>
                           \E p \in Packets : /\ p.number = sent'
                                              /\ AllOf(p, input') /\ AllOf(p, wire')
                                              /\ OnLine' <= Length(p)
                      /\ exchange' = "rest" =>
                           /\ prefix'[1].packet.number = sent'
                           /\ announced' = Announced(prefix'[1].packet) =>
                                OnLine' <= announced'
    BY DEF LineInv
  <2>1. ~behind /\ exchange # "send"
    BY <1>1 DEF BusInv, LineInv
  <2>2. CASE exchange = "prefix"
    BY <1>1, <1>5, <1>6, <2>1, <2>2 DEF BusInv, LineInv
  <2>3. CASE exchange = "rest"
    BY <1>1, <1>5, <2>1, <2>3 DEF BusInv, LineInv
  <2> QED
    BY <1>1, <2>1, <2>2, <2>3
<1> QED
  BY <1>1, <1>7, <1>8 DEF BusInv, AnswersAreFresh

(* Four bytes of a reply are followed by the rest of it at the most.       *)
LEMMA PrefixStep ==
  ASSUME BusInv, ReadPrefix PROVE BusInv'
<1>1. /\ BusTypeOK /\ exchange = "prefix" /\ Len(input) >= 4 /\ input' = Left(4)
      /\ UNCHANGED <<wire, sent, answer>>
  BY DEF ReadPrefix, BusInv, tally
<1>2. /\ input' \in Seq(Byte) /\ Len(input') = Len(input) - 4
      /\ input \in Seq(Byte) /\ wire \in Seq(Byte)
      /\ Len(input) \in Nat /\ Len(wire) \in Nat
  BY <1>1, LeftTyped, LenProperties DEF BusTypeOK
<1>3. answer = NoPacket
  BY <1>1 DEF BusTypeOK
<1>4. CASE behind' = TRUE /\ Ended(FALSE)
  <2>1. BusTypeOK'
    BY <1>1, <1>2, <1>4, EndedTyped DEF BusTypeOK
  <2> QED
    BY <1>4, <2>1 DEF BusInv, LineInv, AnswersAreFresh
<1>5. CASE /\ exchange' = "rest" /\ prefix' = Taken(4)
           /\ announced' \in LengthsRead(Taken(4)) \cap (2..MaxLength)
           /\ UNCHANGED <<loop, target, behind>>
  <2>1. announced' \in Nat
    BY <1>5, BusAssumption
  <2>2. input[1] \in Byte
    BY <1>1, <1>2, ElementOfSeq
  <2>3. Taken(4)[1] = input[1]
    <3>1. \A i \in 1..4 : input[i] \in Byte
      BY <1>1, <1>2, ElementOfSeq
    <3> QED
      BY <1>1, <1>2, <3>1, SubSeqProperties DEF Taken
  <2>4. prefix'[1].packet = input[1].packet /\ input[1].packet \in Packets
    BY <1>5, <2>2, <2>3 DEF Byte
  <2>5. BusTypeOK'
    BY <1>1, <1>2, <1>3, <1>5, <2>1, <2>4 DEF BusTypeOK
  <2>6. ASSUME ~behind
        PROVE  /\ prefix'[1].packet.number = sent'
               /\ announced' = Announced(prefix'[1].packet) => OnLine' <= announced'
    <3>1. PICK p \in Packets : /\ p.number = sent /\ AllOf(p, input)
                               /\ OnLine <= Length(p)
      BY <1>1, <2>6 DEF BusInv, LineInv
    <3>2. input[1].packet = p
      BY <1>1, <1>2, <3>1 DEF AllOf
    <3>3. OnLine' = OnLine - 4
      BY <1>1, <1>2 DEF OnLine
    <3>4. OnLine \in Nat
      BY <1>2 DEF OnLine
    <3>5. Length(p) = Announced(p) + 4 /\ Announced(p) \in Nat
      BY BytesTyped DEF Announced
    <3> QED
      BY <1>1, <2>4, <3>1, <3>2, <3>3, <3>4, <3>5
  <2>7. LineInv'
    BY <1>5, <2>6 DEF LineInv
  <2> QED
    BY <1>1, <1>3, <2>5, <2>7 DEF BusInv, AnswersAreFresh
<1> QED
  BY <1>4, <1>5 DEF ReadPrefix, HeaderWrong, LengthWrong

(* With the rest of a reply, of the length it was sent in, everything on   *)
(* the line has been read.                                                 *)
LEMMA RestStep ==
  ASSUME BusInv, ReadRest PROVE BusInv'
<1> DEFINE p == prefix[1].packet
           ok == WellFormed(prefix \o Taken(announced)) /\ Answers(p)
<1>1. /\ BusTypeOK /\ exchange = "rest" /\ Len(input) >= announced
      /\ input' = Left(announced)
      /\ Ended(ok)
      /\ answer' = IF ok THEN p ELSE answer
      /\ behind' = (behind \/ announced # Announced(p))
      /\ UNCHANGED <<wire, sent>>
  BY DEF ReadRest, BusInv, tally
<1>2. ok \in BOOLEAN
  BY DEF WellFormed, Answers
<1> HIDE DEF ok
<1>3. /\ input' \in Seq(Byte) /\ Len(input') = Len(input) - announced
      /\ wire \in Seq(Byte) /\ announced \in Nat
      /\ Len(input) \in Nat /\ Len(wire) \in Nat
  BY <1>1, LeftTyped, LenProperties DEF BusTypeOK
<1>4. p \in Packets /\ answer' \in {p, NoPacket}
  BY <1>1 DEF BusTypeOK
<1>5. behind' \in BOOLEAN /\ (~behind' => ~behind /\ announced = Announced(p))
  BY <1>1 DEF BusTypeOK
<1>6. /\ exchange' = "send" /\ announced' \in Nat
      /\ loop' \in DOMAIN Asked \cup {"none"} /\ target' \in 1..BusServos
  BY <1>1, <1>2, EndedTyped
<1>7. BusTypeOK'
  BY <1>1, <1>3, <1>4, <1>5, <1>6 DEF BusTypeOK
<1>8. ASSUME ~behind'
      PROVE  p.number = sent /\ wire = <<>> /\ input' = <<>>
  <2>1. p.number = sent /\ OnLine <= announced
    BY <1>1, <1>5, <1>8 DEF BusInv, LineInv
  <2>2. Len(wire) = 0 /\ Len(input') = 0
    BY <1>1, <1>3, <2>1 DEF OnLine
  <2> QED
    BY <1>3, <2>1, <2>2, EmptySeq
<1>9. LineInv' /\ AnswersAreFresh'
  BY <1>1, <1>4, <1>6, <1>8 DEF LineInv, AnswersAreFresh
<1> QED
  BY <1>7, <1>9 DEF BusInv

(* A read that fails leaves the line in step when nothing is left on it.   *)
LEMMA ReadFailsStep ==
  ASSUME BusInv, ReadFails PROVE BusInv'
<1>1. /\ BusTypeOK /\ exchange \in {"prefix", "rest"} /\ Ended(FALSE)
      /\ UNCHANGED <<wire, sent, answer>>
  BY DEF ReadFails, BusInv
<1>2. PICK n \in 0..Len(input) : /\ input' = Left(n)
                                 /\ behind' = (n < Len(input) \/ wire # <<>>)
  BY DEF ReadFails
<1>3. /\ input' \in Seq(Byte) /\ Len(input') = Len(input) - n
      /\ wire \in Seq(Byte) /\ Len(input) \in Nat /\ n \in Nat
  BY <1>1, <1>2, LeftTyped, LenProperties DEF BusTypeOK
<1>4. answer' = NoPacket
  BY <1>1 DEF BusTypeOK
<1>5. BusTypeOK'
  BY <1>1, <1>2, <1>3, <1>4, EndedTyped DEF BusTypeOK
<1>6. ASSUME ~behind' PROVE wire = <<>> /\ input' = <<>>
  <2> DEFINE more == n < Len(input)
  <2>1. ~more /\ wire = <<>>
    BY <1>2, <1>6, Zenon
  <2>2. Len(input') = 0
    BY <1>3, <2>1
  <2> QED
    BY <1>3, <2>1, <2>2, EmptySeq
<1>7. exchange' = "send"
  BY <1>1 DEF Ended
<1> QED
  BY <1>1, <1>4, <1>5, <1>6, <1>7 DEF BusInv, LineInv, AnswersAreFresh

LEMMA BusInvStep ==
  ASSUME BusInv, [BusNext]_busVars PROVE BusInv'
<1>1. ASSUME NEW l \in DOMAIN Asked, BeginLoop(l) PROVE BusInv'
  <2>1. /\ loop' = l /\ target' = 1 /\ answer' = NoPacket
        /\ UNCHANGED <<wire, input, exchange, prefix, announced, sent, behind>>
    BY <1>1 DEF BeginLoop, serial
  <2>2. 1 \in 1..BusServos
    BY BusAssumption
  <2> QED
    BY <2>1, <2>2 DEF BusInv, BusTypeOK, LineInv, AnswersAreFresh, OnLine
<1>2. CASE UNCHANGED busVars
  BY <1>2 DEF busVars, serial, client, tally, BusInv, BusTypeOK, LineInv,
              AnswersAreFresh, OnLine
<1> QED
  BY <1>1, <1>2, SendStep, ArriveStep, PrefixStep, RestStep, ReadFailsStep DEF BusNext

(* Whatever is late, lost or damaged, the length of a packet included, and *)
(* whatever bytes that are no packet look like: until a request has seen   *)
(* an error that may leave bytes on the line, and again when a read has    *)
(* timed out with none on its way, an answer is the reply to the request   *)
(* it is returned for.                                                     *)
THEOREM BusAnswersFresh == BusSpec => []AnswersAreFresh
<1>1. BusInit => BusInv
  <2> SUFFICES ASSUME BusInit PROVE BusInv
    OBVIOUS
  <2>1. <<>> \in Seq(Byte)
    BY EmptySeq
  <2>2. 1 \in 1..BusServos
    BY BusAssumption
  <2>3. wire \in Seq(Byte) /\ input \in Seq(Byte)
    BY <2>1 DEF BusInit
  <2>4. behind = FALSE
    BY DEF BusInit
  <2>5. behind \in BOOLEAN
    BY <2>4
  <2>6. BusTypeOK
    BY <2>2, <2>3, <2>5 DEF BusInit, BusTypeOK
  <2> QED
    BY <2>6 DEF BusInit, BusInv, LineInv, AnswersAreFresh
<1>2. BusInv => AnswersAreFresh
  BY DEF BusInv
<1> QED
  BY <1>1, <1>2, BusInvStep, PTL DEF BusSpec

-----------------------------------------------------------------------------
(* The control loop: a behaviour of all parts is one of each               *)

(* The events of a control loop are those of DAggerEvents.                 *)
THEOREM LoopKeepsEvents == LoopSpec => DAggerSpec
<1>1. LoopInit => DAggerInit
  BY DEF LoopInit
<1>2. [LoopNext]_controlVars => [DAggerNext]_daggerVars
  BY DEF LoopNext, controlVars
<1> QED
  BY <1>1, <1>2, PTL DEF LoopSpec, DAggerSpec

(* Its interpolator is that of ActionInterpolator.                         *)
THEOREM LoopKeepsInterpolator == LoopSpec => InterpolatorSpec
<1>1. LoopInit => InterpolatorInit
  BY DEF LoopInit
<1>2. [LoopNext]_controlVars => [InterpolatorNext]_interpolatorVars
  BY DEF LoopNext, controlVars
<1> QED
  BY <1>1, <1>2, PTL DEF LoopSpec, InterpolatorSpec

(* Its telemetry buffer is that of RingBuffer.                             *)
THEOREM LoopKeepsBuffer == LoopSpec => BufferSpec
<1>1. LoopInit => BufferInit
  BY DEF LoopInit
<1>2. [LoopNext]_controlVars => [BufferNext]_ringVars
  BY DEF LoopNext, controlVars
<1> QED
  BY <1>1, <1>2, PTL DEF LoopSpec, BufferSpec

(* Its serial line is that of FeetechBus.                                  *)
THEOREM LoopKeepsBus == LoopSpec => BusSpec
<1>1. LoopInit => BusInit
  BY DEF LoopInit
<1>2. [LoopNext]_controlVars => [BusNext]_busVars
  BY DEF LoopNext, controlVars
<1> QED
  BY <1>1, <1>2, PTL DEF LoopSpec, BusSpec

(* A request of the operator that is pending still means what it meant     *)
(* when it was made, whatever the rest of the loop does.                   *)
THEOREM LoopPendingIsMeaningful == LoopSpec => []PendingMeansWhatItMeant
BY LoopKeepsEvents, PendingIsMeaningful, PTL

(* A request is applied once, to the phase it was made in.                 *)
THEOREM LoopAppliesAsAsked == LoopSpec => AppliedOnceAsAsked
BY LoopKeepsEvents, RequestsAppliedAsAsked, PTL

(* The telemetry buffer of a control loop keeps its bounds.                *)
THEOREM LoopDriftBounded == LoopSpec => []DriftBounded
BY LoopKeepsBuffer, BufferDriftBounded, PTL

(* No step of an action that was replaced is still to be executed.         *)
THEOREM LoopNothingStale == LoopSpec => []NothingStale
BY LoopKeepsInterpolator, NoStepIsStale, PTL

(* The arm moves on from where the last step has left it.                  *)
THEOREM LoopIsContinuous == LoopSpec => Continuous
BY LoopKeepsInterpolator, MotionIsContinuous, PTL

(* An answer of the line is the reply to the request it is returned for,   *)
(* until an error that may leave bytes on the line, and again after one    *)
(* that has left none.                                                     *)
THEOREM LoopAnswersFresh == LoopSpec => []AnswersAreFresh
BY LoopKeepsBus, BusAnswersFresh, PTL

-----------------------------------------------------------------------------
(* The arm and its commands                                                *)

Switching == {"enable", "disable"}

(* The servos whose Torque_Enable the operation has come past, and those   *)
(* whose Lock it has.                                                      *)
Past(s) == s < servo \/ (s = servo /\ line = 2)
PastLock(s) == s < servo

(* An operation that has lost no write has written what it has passed.     *)
Written ==
  op \in Switching /\ ~lost =>
    \A s \in Servos :
      /\ Past(s) => registers[<<s, "Torque_Enable">>] = Value(op)
      /\ PastLock(s) => registers[<<s, "Lock">>] = Value(op)

(* Without failures, what it has not passed is as the flag says.           *)
Unwritten ==
  clean /\ op \in Switching =>
    \A s \in Servos : ~Past(s) => (Torqued(s) <=> torqueEnabled)

ArmInv ==
  /\ TypeOK
  /\ op # "none" => line <= Len(Body(op))
  /\ op \in Guarded => ~torqueEnabled
  /\ clean => ~lost
  /\ Written
  /\ Unwritten
  /\ FlagIsTruthWhenClean

-----------------------------------------------------------------------------
(* Operations and registers                                                *)

(* The writes of an operation are those of its list, and no goal is one.   *)
LEMMA Bodies ==
  /\ \A o \in Switching : /\ Len(Body(o)) = 2
                          /\ Body(o)[1] = "Torque_Enable" /\ Body(o)[2] = "Lock"
  /\ \A o \in Guarded : /\ Len(Body(o)) \in 1..3
                        /\ \A l \in 1..Len(Body(o)) :
                             Body(o)[l] \in {"Phase", "Operating_Mode", "Max_Position_Limit"}
  /\ Operations = Switching \cup Guarded /\ Switching \cap Guarded = {}
  /\ "none" \notin Operations
<1>1. /\ Body("enable") = <<"Torque_Enable", "Lock">>
      /\ Body("disable") = <<"Torque_Enable", "Lock">>
      /\ Body("configure") = <<"Phase", "Phase", "Operating_Mode">>
      /\ Body("calibrate") = <<"Max_Position_Limit">>
  BY DEF Body
<1> QED
  BY <1>1 DEF Switching, Guarded, Operations

LEMMA Values ==
  /\ Value("enable") = 1 /\ Value("disable") = 0 /\ Value("configure") = 0
  /\ Value("calibrate") = calibration.max
BY DEF Value

LEMMA ValueTyped == ASSUME TypeOK, op # "none" PROVE Value(op) \in Int
<1>1. calibration.max \in Int
  BY So101Assumption DEF TypeOK, DefaultCalibration, MaxTick
<1> QED
  BY <1>1, Values DEF TypeOK, Operations

(* Which register an access is of.                                         *)
LEMMA Access ==
  ASSUME ArmInv, op # "none"
  PROVE  /\ line \in 1..Len(Body(op))
         /\ Body(op)[line] \in Names \ {"Goal_Position"}
         /\ op \in Guarded => Body(op)[line] \notin {"Torque_Enable", "Lock"}
         /\ op \in Switching => Body(op)[line] = IF line = 1 THEN "Torque_Enable" ELSE "Lock"
BY Bodies DEF ArmInv, TypeOK, Names

(* A write that arrives changes one register.                              *)
LEMMA ArrivesAt ==
  ASSUME ArmInv, op # "none", Arrives
  PROVE  /\ registers' \in [Servos \X Names -> Int]
         /\ \A s \in Servos, n \in Names :
              registers'[<<s, n>>] = IF s = servo /\ n = Body(op)[line]
                                     THEN Value(op) ELSE registers[<<s, n>>]
<1>1. registers \in [Servos \X Names -> Int] /\ Value(op) \in Int
  BY ValueTyped DEF ArmInv, TypeOK
<1>2. registers' = [registers EXCEPT ![<<servo, Body(op)[line]>>] = Value(op)]
  BY DEF Arrives, Set
<1>3. registers' \in [Servos \X Names -> Int]
  BY <1>1, <1>2
<1>4. ASSUME NEW s \in Servos, NEW n \in Names
      PROVE registers'[<<s, n>>] = IF s = servo /\ n = Body(op)[line]
                                   THEN Value(op) ELSE registers[<<s, n>>]
  <2>1. <<s, n>> \in Servos \X Names
    OBVIOUS
  <2>2. <<s, n>> = <<servo, Body(op)[line]>> <=> s = servo /\ n = Body(op)[line]
    OBVIOUS
  <2> QED
    BY <1>1, <1>2, <2>1, <2>2
<1> QED
  BY <1>3, <1>4

(* What a write does to the arm, if the history counts it as arrived.      *)
LEMMA WriteEffect ==
  ASSUME ArmInv, Write
  PROVE  /\ op # "none" /\ GoOn(1) /\ UNCHANGED calibration
         /\ registers' \in [Servos \X Names -> Int]
         /\ lost' \in BOOLEAN /\ clean' \in BOOLEAN
         /\ clean' => clean /\ ~lost'
         /\ ~lost' => /\ ~lost
                      /\ \A s \in Servos, n \in Names :
                           registers'[<<s, n>>] = IF s = servo /\ n = Body(op)[line]
                                                  THEN Value(op) ELSE registers[<<s, n>>]
<1>1. op # "none" /\ GoOn(1) /\ UNCHANGED calibration
  BY DEF Write
<1>2. CASE Arrives /\ UNCHANGED <<lost, clean>>
  <2>1. lost' = lost /\ clean' = clean
    BY <1>2
  <2>2. lost' \in BOOLEAN /\ clean' \in BOOLEAN /\ (clean' => clean /\ ~lost')
    BY <2>1 DEF ArmInv, TypeOK
  <2> QED
    BY <1>1, <1>2, <2>1, <2>2, ArrivesAt
<1>3. CASE UNCHANGED registers /\ lost' = TRUE /\ clean' = FALSE
  <2>1. lost' \in BOOLEAN /\ clean' \in BOOLEAN
    BY <1>3
  <2> QED
    BY <1>1, <1>3, <2>1 DEF ArmInv, TypeOK
<1> QED
  BY <1>2, <1>3 DEF Write

(* Where the loop goes on: to the next access, to the next servo, or back  *)
(* to the caller.                                                          *)
LEMMA GoingOn ==
  ASSUME ArmInv, op # "none", NEW steps \in {1, 2}, GoOn(steps)
  PROVE  /\ op' \in Operations \cup {"none"} /\ servo' \in Servos /\ line' \in 1..3
         /\ result' \in {"none", "ok", "error"} /\ torqueEnabled' \in BOOLEAN
         /\ op' # "none" => /\ op' = op /\ torqueEnabled' = torqueEnabled
                            /\ line' <= Len(Body(op))
                            /\ \/ servo' = servo /\ line' = line + steps
                               \/ /\ servo' = servo + 1 /\ line' = 1
                                  /\ line + steps > Len(Body(op))
         /\ op' = "none" => /\ servo = NumServos /\ line + steps > Len(Body(op))
                            /\ Completed(op)
<1>1. /\ op \in Operations /\ line \in 1..Len(Body(op)) /\ Len(Body(op)) \in 1..3
      /\ servo \in 1..NumServos /\ NumServos \in Nat \ {0}
  BY Access, Bodies, So101Assumption DEF ArmInv, TypeOK, Servos
<1>2. torqueEnabled \in BOOLEAN /\ result \in {"none", "ok", "error"}
  BY DEF ArmInv, TypeOK
<1>3. CASE line + steps <= Len(Body(op))
  <2>1. line' = line + steps /\ UNCHANGED <<torqueEnabled, op, servo, result>>
    BY <1>3 DEF GoOn
  <2>2. torqueEnabled' \in BOOLEAN
    BY <1>2, <2>1
  <2> QED
    BY <1>1, <1>2, <1>3, <2>1, <2>2 DEF Servos
<1>4. CASE ~(line + steps <= Len(Body(op))) /\ servo < NumServos
  <2>1. servo' = servo + 1 /\ line' = 1 /\ UNCHANGED <<torqueEnabled, op, result>>
    BY <1>4 DEF GoOn
  <2>2. torqueEnabled' \in BOOLEAN
    BY <1>2, <2>1
  <2> QED
    BY <1>1, <1>2, <1>4, <2>1, <2>2 DEF Servos
<1>5. CASE ~(line + steps <= Len(Body(op))) /\ ~(servo < NumServos)
  <2>1. Completed(op) /\ Return("ok")
    BY <1>5 DEF GoOn
  <2>2. torqueEnabled' \in BOOLEAN
    <3>1. torqueEnabled' \in {TRUE, FALSE, torqueEnabled}
      BY <2>1, <1>1 DEF Completed
    <3> QED BY <1>2, <3>1
  <2> QED
    BY <1>1, <1>5, <2>1, <2>2 DEF Servos, Return
<1> QED
  BY <1>3, <1>4, <1>5

(* An operation that switches all servos has switched all when it returns. *)
LEMMA AllSwitched ==
  ASSUME ArmInv, Write, op \in Switching, ~lost', op' = "none"
  PROVE  \A s \in Servos : /\ registers'[<<s, "Torque_Enable">>] = Value(op)
                           /\ registers'[<<s, "Lock">>] = Value(op)
<1>1. servo = NumServos /\ line + 1 > Len(Body(op))
  BY WriteEffect, GoingOn
<1>2. line = 2 /\ Body(op)[line] = "Lock"
  BY <1>1, WriteEffect, Access, Bodies
<1> SUFFICES ASSUME NEW s \in Servos
             PROVE  /\ registers'[<<s, "Torque_Enable">>] = Value(op)
                    /\ registers'[<<s, "Lock">>] = Value(op)
  OBVIOUS
<1>3. Past(s) /\ (s # servo => PastLock(s))
  BY <1>1, <1>2, So101Assumption DEF Past, PastLock, Servos
<1>4. registers[<<s, "Torque_Enable">>] = Value(op)
  BY <1>3, WriteEffect DEF ArmInv, Written
<1>5. s # servo => registers[<<s, "Lock">>] = Value(op)
  BY <1>3, WriteEffect DEF ArmInv, Written
<1> QED
  BY <1>2, <1>4, <1>5, WriteEffect DEF Names

-----------------------------------------------------------------------------
(* The invariant                                                           *)

LEMMA CallStep ==
  ASSUME ArmInv, NEW o \in Operations, Call(o)
  PROVE  ArmInv'
<1>1. /\ op = "none" /\ UNCHANGED <<registers, torqueEnabled, calibration, clean>>
      /\ \A s \in Servos : Torqued(s)' <=> Torqued(s)
  BY DEF Call, host, Torqued
<1>2. CASE o \in Guarded /\ torqueEnabled
  <2>1. op' = "none" /\ servo' = 1 /\ line' = 1 /\ result' = "error" /\ lost' = lost
    BY <1>2 DEF Call, Return
  <2>2. 1 \in Servos
    BY So101Assumption DEF Servos
  <2>3. TypeOK'
    BY <1>1, <2>1, <2>2 DEF ArmInv, TypeOK
  <2> QED
    BY <1>1, <2>1, <2>3, Bodies
    DEF ArmInv, Written, Unwritten, FlagIsTruthWhenClean, Switching, Guarded
<1>3. CASE ~(o \in Guarded /\ torqueEnabled)
  <2>1. op' = o /\ servo' = 1 /\ line' = 1 /\ result' = "none" /\ lost' = FALSE
    BY <1>3 DEF Call
  <2>2. 1 \in Servos /\ FALSE \in BOOLEAN
    BY So101Assumption DEF Servos
  <2>3. lost' \in BOOLEAN
    BY <2>1, <2>2
  <2>4. TypeOK'
    BY <1>1, <2>1, <2>2, <2>3 DEF ArmInv, TypeOK
  <2>5. \A s \in Servos : ~Past(s)' /\ ~PastLock(s)'
    BY <2>1 DEF Past, PastLock, Servos
  <2>6. Written' /\ Unwritten'
    BY <1>1, <2>5 DEF Written, Unwritten, ArmInv, FlagIsTruthWhenClean
  <2>7. line' <= Len(Body(op'))
    BY <2>1, Bodies
  <2>8. (op \in Guarded)' => ~torqueEnabled'
    BY <1>1, <1>3, <2>1
  <2>9. FlagIsTruthWhenClean'
    BY <1>1, <1>3, <2>1, Bodies DEF ArmInv, FlagIsTruthWhenClean
  <2> QED
    BY <2>1, <2>4, <2>6, <2>7, <2>8, <2>9 DEF ArmInv
<1> QED
  BY <1>2, <1>3

LEMMA WriteStep ==
  ASSUME ArmInv, Write
  PROVE  ArmInv'
<1>1. /\ op # "none" /\ calibration' = calibration
      /\ clean' => clean /\ ~lost'
  BY WriteEffect
<1>2. TypeOK'
  BY WriteEffect, GoingOn DEF ArmInv, TypeOK
<1>3. op' # "none" => op' = op /\ torqueEnabled' = torqueEnabled /\ line' <= Len(Body(op))
  BY WriteEffect, GoingOn
<1>4. op' \in Guarded => op \in Guarded /\ ~torqueEnabled'
  BY <1>3, Bodies DEF ArmInv
<1>5. \A s \in Servos :
        ~lost' /\ op \in Guarded => registers'[<<s, "Torque_Enable">>] = registers[<<s, "Torque_Enable">>]
  BY WriteEffect, Access DEF Names
<1>6. ASSUME ~lost', op' \in Switching, NEW s \in Servos
      PROVE  /\ Past(s)' => registers'[<<s, "Torque_Enable">>] = Value(op)
             /\ PastLock(s)' => registers'[<<s, "Lock">>] = Value(op)
             /\ ~Past(s)' => /\ ~Past(s)
                               /\ registers'[<<s, "Torque_Enable">>]
                                    = registers[<<s, "Torque_Enable">>]
  <2>1. /\ op \in Switching /\ Len(Body(op)) = 2 /\ line \in 1..2
        /\ Body(op)[line] = IF line = 1 THEN "Torque_Enable" ELSE "Lock"
    BY <1>1, <1>3, <1>6, Access, Bodies
  <2>2. \/ servo' = servo /\ line = 1 /\ line' = 2
        \/ servo' = servo + 1 /\ line = 2 /\ line' = 1
    BY <1>6, <2>1, WriteEffect, GoingOn, Bodies
  <2>3. /\ Past(s) => registers[<<s, "Torque_Enable">>] = Value(op)
        /\ PastLock(s) => registers[<<s, "Lock">>] = Value(op)
    BY <1>6, <2>1, WriteEffect DEF ArmInv, Written
  <2>4. servo \in Nat /\ s \in Nat
    BY DEF ArmInv, TypeOK, Servos
  <2>5. /\ registers'[<<s, "Torque_Enable">>] = IF s = servo /\ line = 1 THEN Value(op)
                                                ELSE registers[<<s, "Torque_Enable">>]
        /\ registers'[<<s, "Lock">>] = IF s = servo /\ line = 2 THEN Value(op)
                                       ELSE registers[<<s, "Lock">>]
    <3>1. \A n \in Names : registers'[<<s, n>>] = IF s = servo /\ n = Body(op)[line]
                                                  THEN Value(op) ELSE registers[<<s, n>>]
      BY <1>6, WriteEffect
    <3>2. "Torque_Enable" \in Names /\ "Lock" \in Names
      BY DEF Names
    <3>3. (Body(op)[line] = "Torque_Enable" <=> line = 1) /\ (Body(op)[line] = "Lock" <=> line = 2)
      BY <2>1
    <3> QED
      BY <3>1, <3>2, <3>3
  <2> QED
    BY <2>2, <2>3, <2>4, <2>5 DEF Past, PastLock
<1>7. op' \in Switching => Value(op)' = Value(op) /\ op' = op
  BY <1>1, <1>3, Bodies DEF Value
<1>8. Written'
  BY <1>6, <1>7 DEF Written
<1>9. Unwritten'
  <2> SUFFICES ASSUME clean', op' \in Switching, NEW s \in Servos, ~Past(s)'
               PROVE  registers'[<<s, "Torque_Enable">>] = 1 <=> torqueEnabled'
    BY DEF Unwritten, Torqued
  <2>1. clean /\ ~lost' /\ op \in Switching /\ torqueEnabled' = torqueEnabled
    BY <1>1, <1>3, <1>7, Bodies
  <2>2. ~Past(s) /\ registers'[<<s, "Torque_Enable">>] = registers[<<s, "Torque_Enable">>]
    BY <1>6, <2>1
  <2> QED
    BY <2>1, <2>2 DEF ArmInv, Unwritten, Torqued
<1>10. FlagIsTruthWhenClean'
  <2>1. ASSUME clean', op' = "none", NEW s \in Servos
        PROVE  registers'[<<s, "Torque_Enable">>] = 1 <=> torqueEnabled'
    <3>1. clean /\ ~lost' /\ Completed(op)
      BY <1>1, <2>1, WriteEffect, GoingOn
    <3>2. CASE op \in Switching
      <4>1. registers'[<<s, "Torque_Enable">>] = Value(op)
        BY <2>1, <3>1, <3>2, AllSwitched
      <4> QED
        BY <3>1, <3>2, <4>1, Values DEF Completed, Switching
    <3>3. CASE op \in Guarded
      <4>1. torqueEnabled' = torqueEnabled
        BY <3>1, <3>3 DEF Completed, Guarded
      <4> QED
        BY <1>5, <3>1, <3>3, <4>1 DEF ArmInv, FlagIsTruthWhenClean, Torqued
    <3> QED
      BY <1>1, <3>2, <3>3, Bodies DEF ArmInv, TypeOK
  <2>2. ASSUME clean', op' \in Guarded, NEW s \in Servos
        PROVE  registers'[<<s, "Torque_Enable">>] # 1
    BY <1>1, <1>4, <1>5, <2>2 DEF ArmInv, FlagIsTruthWhenClean, Torqued
  <2> QED
    BY <2>1, <2>2 DEF FlagIsTruthWhenClean, Torqued
<1> QED
  BY <1>1, <1>2, <1>3, <1>4, <1>8, <1>9, <1>10 DEF ArmInv

LEMMA ReadStep ==
  ASSUME ArmInv, ReadPhase
  PROVE  ArmInv'
<1>1. /\ op = "configure" /\ UNCHANGED <<registers, calibration, lost, clean>>
      /\ \E steps \in {1, 2} : GoOn(steps)
  BY DEF ReadPhase, IsRead
<1>2. PICK steps \in {1, 2} : GoOn(steps)
  BY <1>1
<1>3. /\ op' # "none" => op' = op /\ line' <= Len(Body(op)) /\ torqueEnabled' = torqueEnabled
      /\ op' = "none" => torqueEnabled' = torqueEnabled
  BY <1>1, <1>2, GoingOn DEF Completed
<1>4. TypeOK'
  BY <1>1, <1>2, GoingOn DEF ArmInv, TypeOK
<1>5. ~torqueEnabled /\ torqueEnabled' = torqueEnabled
  BY <1>1, <1>3 DEF ArmInv, Guarded
<1>6. FlagIsTruthWhenClean'
  BY <1>1, <1>5 DEF ArmInv, FlagIsTruthWhenClean, Torqued, Guarded
<1> QED
  BY <1>1, <1>3, <1>4, <1>5, <1>6 DEF ArmInv, Written, Unwritten, Switching

(* Whatever leaves no operation running and torque as it was.              *)
LEMMA IdleStep ==
  ASSUME ArmInv, TypeOK', op' = "none", clean' => clean /\ op = "none" /\ ~lost',
         torqueEnabled' = torqueEnabled,
         \A s \in Servos : registers'[<<s, "Torque_Enable">>] = registers[<<s, "Torque_Enable">>]
  PROVE  ArmInv'
<1>1. Written' /\ Unwritten'
  BY DEF Written, Unwritten, Switching
<1>2. FlagIsTruthWhenClean'
  BY DEF ArmInv, FlagIsTruthWhenClean, Torqued, Guarded
<1> QED
  BY <1>1, <1>2 DEF ArmInv, Guarded

LEMMA FailStep ==
  ASSUME ArmInv, AccessFails
  PROVE  ArmInv'
<1>1. /\ op # "none" /\ clean' = FALSE /\ UNCHANGED <<torqueEnabled, calibration, lost>>
      /\ op' = "none" /\ servo' = 1 /\ line' = 1 /\ result' = "error"
      /\ UNCHANGED registers \/ Arrives
  BY DEF AccessFails, Return, host
<1>2. registers' \in [Servos \X Names -> Int]
  BY <1>1, ArrivesAt DEF ArmInv, TypeOK
<1>3. 1 \in Servos /\ FALSE \in BOOLEAN
  BY So101Assumption DEF Servos
<1>4. clean' \in BOOLEAN
  BY <1>1, <1>3
<1>5. TypeOK'
  BY <1>1, <1>2, <1>3, <1>4 DEF ArmInv, TypeOK
<1> QED
  BY <1>1, <1>5 DEF ArmInv, Written, Unwritten, FlagIsTruthWhenClean, Switching, Guarded

LEMMA InvalidStep ==
  ASSUME ArmInv, CalibrationInvalid
  PROVE  ArmInv'
<1>1. /\ op = "calibrate" /\ UNCHANGED <<registers, torqueEnabled, calibration, lost, clean>>
      /\ op' = "none" /\ servo' = 1 /\ line' = 1 /\ result' = "error"
  BY DEF CalibrationInvalid, Return, host
<1>2. TypeOK'
  BY <1>1, So101Assumption DEF ArmInv, TypeOK, Servos
<1>3. Written' /\ Unwritten'
  BY <1>1 DEF Written, Unwritten, Switching
<1>4. FlagIsTruthWhenClean'
  BY <1>1 DEF ArmInv, FlagIsTruthWhenClean, Torqued, Guarded
<1> QED
  BY <1>1, <1>2, <1>3, <1>4 DEF ArmInv, Guarded

LEMMA ExecuteStep == ASSUME ArmInv, Execute PROVE ArmInv'
BY InvalidStep, WriteStep, ReadStep, FailStep DEF Execute

(* A command of positions, by itself or in center, changes only goals, and *)
(* only where the process has switched the arm on.                         *)
LEMMA GoalsEffect ==
  ASSUME ArmInv, NEW position \in Int, SetPositionsTicks(position)
  PROVE  /\ op = "none" /\ op' = "none" /\ servo' = 1 /\ line' = 1
         /\ result' \in {"none", "ok", "error"}
         /\ UNCHANGED <<torqueEnabled, calibration, lost, clean>>
         /\ registers' \in [Servos \X Names -> Int]
         /\ registers' # registers => torqueEnabled
         /\ \A s \in Servos :
              registers'[<<s, "Torque_Enable">>] = registers[<<s, "Torque_Enable">>]
<1>1. /\ op = "none" /\ op' = "none" /\ servo' = 1 /\ line' = 1
      /\ result' \in {"none", "ok", "error"}
      /\ UNCHANGED <<torqueEnabled, calibration, lost, clean>>
      /\ UNCHANGED registers \/ (torqueEnabled /\ AllGoals(position))
  BY DEF SetPositionsTicks, Return, host
<1>2. registers \in [Servos \X Names -> Int]
  BY DEF ArmInv, TypeOK
<1>3. CASE AllGoals(position)
  <2>1. registers' = [x \in Servos \X Names |->
                        IF x[2] = "Goal_Position" THEN position ELSE registers[x]]
    BY <1>3 DEF AllGoals
  <2>2. registers' \in [Servos \X Names -> Int]
    BY <1>2, <2>1
  <2>3. ASSUME NEW s \in Servos
        PROVE registers'[<<s, "Torque_Enable">>] = registers[<<s, "Torque_Enable">>]
    <3>1. <<s, "Torque_Enable">> \in Servos \X Names /\ <<s, "Torque_Enable">>[2] # "Goal_Position"
      BY DEF Names
    <3> QED BY <2>1, <3>1
  <2> QED
    BY <1>1, <2>2, <2>3
<1>4. CASE UNCHANGED registers
  BY <1>1, <1>2, <1>4
<1> QED
  BY <1>1, <1>3, <1>4

LEMMA GoalsStep ==
  ASSUME ArmInv, NEW position \in Int, SetPositionsTicks(position)
  PROVE  ArmInv'
<1>1. TypeOK'
  BY GoalsEffect, So101Assumption DEF ArmInv, TypeOK, Servos
<1>2. clean' => clean /\ op = "none" /\ ~lost'
  BY GoalsEffect DEF ArmInv
<1> QED
  BY <1>1, <1>2, GoalsEffect, IdleStep

(* center is a command of positions, or is refused.                        *)
LEMMA CenterEffect ==
  ASSUME ArmInv, Center
  PROVE  \/ \E position \in Int : SetPositionsTicks(position)
         \/ op = "none" /\ Return("error") /\ UNCHANGED <<registers, host, lost, clean>>
<1>1. CASE ValidRange(calibration)
  <2>1. calibration.min \in Int /\ calibration.max \in Int
    BY So101Assumption DEF ArmInv, TypeOK, DefaultCalibration, MaxTick
  <2>2. PICK middle \in Int : middle = (calibration.min + calibration.max) \div 2
    BY <2>1
  <2>3. SetPositionsTicks(middle)
    BY <1>1, <2>2 DEF Center, SetPositionsTicks, AllGoals
  <2> QED
    BY <2>3
<1> QED
  BY <1>1 DEF Center

LEMMA CenterStep ==
  ASSUME ArmInv, Center
  PROVE  ArmInv'
<1>1. ASSUME op = "none", Return("error"), UNCHANGED <<registers, host, lost, clean>>
      PROVE  ArmInv'
  <2>1. TypeOK'
    BY <1>1, So101Assumption DEF ArmInv, TypeOK, Servos, Return, host
  <2>2. clean' => clean /\ op = "none" /\ ~lost'
    BY <1>1 DEF ArmInv
  <2> QED
    BY <1>1, <2>1, <2>2, IdleStep DEF Return, host
<1> QED
  BY <1>1, CenterEffect, GoalsStep

LEMMA SetCalibrationStep ==
  ASSUME ArmInv, NEW c \in Calibrations, SetCalibration(c)
  PROVE  ArmInv'
<1>1. /\ op = "none" /\ op' = "none" /\ servo' = 1 /\ line' = 1
      /\ result' \in {"ok", "error"} /\ calibration' \in {c, calibration}
      /\ UNCHANGED <<registers, torqueEnabled, lost, clean>>
  BY DEF SetCalibration, Return
<1>2. TypeOK'
  BY <1>1, So101Assumption DEF ArmInv, TypeOK, Servos
<1>3. clean' => clean /\ op = "none" /\ ~lost'
  BY <1>1 DEF ArmInv
<1> QED
  BY <1>1, <1>2, <1>3, IdleStep

LEMMA ReopenStep ==
  ASSUME ArmInv, Reopen
  PROVE  ArmInv'
<1>1. /\ torqueEnabled' = FALSE /\ calibration' = DefaultCalibration /\ lost' = FALSE
      /\ op' = "none" /\ servo' = 1 /\ line' = 1 /\ result' = "none"
      /\ clean' = (\A s \in Servos : ~Torqued(s)) /\ registers' = registers
  BY DEF Reopen, Return
<1>2. FALSE \in BOOLEAN /\ (\A s \in Servos : ~Torqued(s)) \in BOOLEAN
  OBVIOUS
<1>3. torqueEnabled' \in BOOLEAN /\ lost' \in BOOLEAN /\ clean' \in BOOLEAN
  BY <1>1, <1>2
<1>4. TypeOK'
  BY <1>1, <1>3, So101Assumption DEF ArmInv, TypeOK, Servos
<1>5. FlagIsTruthWhenClean'
  BY <1>1 DEF FlagIsTruthWhenClean, Torqued, Guarded
<1> QED
  BY <1>1, <1>4, <1>5 DEF ArmInv, Written, Unwritten, Switching, Guarded

LEMMA ArmStep ==
  ASSUME ArmInv, Next
  PROVE  ArmInv'
<1>1. \A p \in Positions : p \in Int
  BY So101Assumption
<1> QED
  BY <1>1, CallStep, ExecuteStep, GoalsStep, CenterStep, SetCalibrationStep, ReopenStep DEF Next

LEMMA ArmInit == ASSUME Init PROVE ArmInv
<1>1. PICK side \in {0, 1}, mode \in {0, 1} :
        registers = [x \in Servos \X Names |->
          CASE x[2] = "Phase"              -> side
            [] x[2] = "Operating_Mode"     -> mode
            [] x[2] = "Max_Position_Limit" -> MaxTick
            [] OTHER                       -> 0]
  BY DEF Init
<1>2. registers \in [Servos \X Names -> Int]
  BY <1>1 DEF MaxTick
<1>3. ASSUME NEW s \in Servos PROVE ~Torqued(s)
  <2>1. <<s, "Torque_Enable">> \in Servos \X Names
    BY DEF Names
  <2> QED
    BY <1>1, <2>1 DEF Torqued
<1>4. torqueEnabled \in BOOLEAN /\ lost \in BOOLEAN /\ clean \in BOOLEAN
  BY DEF Init
<1>5. TypeOK
  BY <1>2, <1>4, So101Assumption DEF Init, TypeOK, Servos
<1>6. FlagIsTruthWhenClean
  BY <1>3 DEF Init, FlagIsTruthWhenClean, Guarded
<1> QED
  BY <1>5, <1>6 DEF Init, ArmInv, Written, Unwritten, Switching, Guarded

-----------------------------------------------------------------------------
(* Commands                                                                *)

ResultTaken == result' = "none" /\ UNCHANGED <<registers, host, op, servo, line, lost, clean>>

(* What a step of a command is for the arm.                                *)
LEMMA CliForArm ==
  ASSUME [CliNext]_cliVars
  PROVE  Next \/ ResultTaken \/ UNCHANGED so101Vars
<1>1. CASE \E a \in Actions : Start(a)
  BY <1>1 DEF Start, Next
<1>2. CASE Perform
  <2>1. \/ Call("configure") \/ Call("enable") \/ Call("disable")
        \/ Center \/ \E p \in Positions : SetPositionsTicks(p)
    BY <1>2 DEF Perform
  <2>2. {"configure", "enable", "disable"} \subseteq Operations
    BY DEF Operations
  <2> QED
    BY <2>1, <2>2 DEF Next
<1>3. CASE CliExecute
  BY <1>3 DEF CliExecute, Next
<1>4. CASE Proceed
  BY <1>4 DEF Proceed, ResultTaken
<1>5. CASE Hold
  BY <1>5 DEF Hold
<1>6. CASE Kill
  BY <1>6 DEF Kill, Next
<1>7. CASE OpenLibrary
  BY <1>7 DEF OpenLibrary, Next
<1>8. CASE CallLibrary
  BY <1>8 DEF CallLibrary
<1>9. CASE UNCHANGED cliVars
  BY <1>9 DEF cliVars
<1> QED
  BY <1>1, <1>2, <1>3, <1>4, <1>5, <1>6, <1>7, <1>8, <1>9 DEF CliNext

LEMMA CliArmStep ==
  ASSUME ArmInv, [CliNext]_cliVars
  PROVE  ArmInv'
<1>1. CASE ResultTaken \/ UNCHANGED so101Vars
  <2>1. /\ UNCHANGED <<registers, torqueEnabled, calibration, op, servo, line, lost, clean>>
        /\ result' \in {"none", result}
    BY <1>1 DEF ResultTaken, so101Vars, host
  <2>2. TypeOK'
    BY <2>1 DEF ArmInv, TypeOK
  <2>3. Value(op)' = Value(op)
    BY <2>1 DEF Value
  <2>4. Written' /\ Unwritten'
    BY <2>1, <2>3 DEF ArmInv, Written, Unwritten, Past, PastLock, Torqued
  <2>5. FlagIsTruthWhenClean'
    BY <2>1 DEF ArmInv, FlagIsTruthWhenClean, Torqued
  <2> QED
    BY <2>1, <2>2, <2>4, <2>5 DEF ArmInv
<1> QED
  BY <1>1, ArmStep, CliForArm

LEMMA CliArmInvariant == CliSpec => []ArmInv
<1>1. CliInit => ArmInv
  BY ArmInit DEF CliInit
<1> QED
  BY <1>1, CliArmStep, PTL DEF CliSpec

(* Whatever commands, other programs and kills do to the arm, its          *)
(* registers, flag, loop and history keep their types.                     *)
THEOREM ArmTypeCorrect == CliSpec => []TypeOK
<1>1. ArmInv => TypeOK
  BY DEF ArmInv
<1> QED
  BY <1>1, CliArmInvariant, PTL

(* torque_enabled is the truth about every servo, and what it refuses runs *)
(* on none that holds, in a process that found the arm released and has    *)
(* met no failure; whatever earlier processes have left, and wherever they *)
(* were killed.                                                            *)
THEOREM FlagIsTruth == CliSpec => []FlagIsTruthWhenClean
<1>1. ArmInv => FlagIsTruthWhenClean
  BY DEF ArmInv
<1> QED
  BY <1>1, CliArmInvariant, PTL

(* enable_torque and disable_torque change the flag only when every servo  *)
(* has been switched, for any number of servos.                            *)
FlagMeant ==
  ~lost' =>
    /\ ~torqueEnabled /\ torqueEnabled' =>
         \A s \in Servos : registers'[<<s, "Torque_Enable">>] = 1
                           /\ registers'[<<s, "Lock">>] = 1
    /\ torqueEnabled /\ ~torqueEnabled' =>
         Reopen \/ \A s \in Servos : registers'[<<s, "Torque_Enable">>] = 0
                                      /\ registers'[<<s, "Lock">>] = 0

LEMMA FlagStep ==
  ASSUME ArmInv, [CliNext]_cliVars
  PROVE  FlagMeant
<1>1. CASE Write
  <2> SUFFICES ASSUME ~lost', torqueEnabled' # torqueEnabled PROVE FlagMeant
    BY DEF FlagMeant, ArmInv, TypeOK
  <2>1. op' = "none" /\ Completed(op) /\ op \in Operations
    BY <1>1, WriteEffect, GoingOn DEF ArmInv, TypeOK
  <2>2. \/ op = "enable" /\ torqueEnabled' = TRUE
        \/ op = "disable" /\ torqueEnabled' = FALSE
    BY <2>1 DEF Completed, Operations
  <2>3. \A s \in Servos : /\ registers'[<<s, "Torque_Enable">>] = Value(op)
                          /\ registers'[<<s, "Lock">>] = Value(op)
    BY <1>1, <2>1, <2>2, AllSwitched DEF Switching
  <2> QED
    BY <2>2, <2>3, Values DEF FlagMeant
<1>2. CASE ReadPhase
  <2>1. \E steps \in {1, 2} : GoOn(steps)
    BY <1>2 DEF ReadPhase
  <2>2. op = "configure" /\ op # "none"
    BY <1>2 DEF ReadPhase, IsRead
  <2>3. torqueEnabled' = torqueEnabled
    BY <2>1, <2>2, GoingOn DEF Completed
  <2> QED
    BY <2>3 DEF FlagMeant
<1>3. CASE Reopen
  BY <1>3 DEF FlagMeant, Reopen
<1>4. CASE torqueEnabled' = torqueEnabled
  BY <1>4 DEF FlagMeant
<1>5. Write \/ ReadPhase \/ Reopen \/ torqueEnabled' = torqueEnabled
  <2>1. CASE Next
    <3>1. (\E o \in Operations : Call(o)) => torqueEnabled' = torqueEnabled
      BY DEF Call, host
    <3>2. AccessFails \/ CalibrationInvalid => torqueEnabled' = torqueEnabled
      BY DEF AccessFails, CalibrationInvalid, host
    <3>3. (\E p \in Positions : SetPositionsTicks(p)) => torqueEnabled' = torqueEnabled
      BY DEF SetPositionsTicks, host
    <3>4. Center => torqueEnabled' = torqueEnabled
      BY DEF Center, SetPositionsTicks, host
    <3>5. (\E c \in Calibrations : SetCalibration(c)) => torqueEnabled' = torqueEnabled
      BY DEF SetCalibration
    <3> QED
      BY <2>1, <3>1, <3>2, <3>3, <3>4, <3>5 DEF Next, Execute
  <2> QED
    BY <2>1, CliForArm DEF ResultTaken, so101Vars, host
<1> QED
  BY <1>1, <1>2, <1>3, <1>4, <1>5

(* The flag says "all six joints": it becomes true only with every servo   *)
(* on and locked, false by disable_torque only with every servo off,       *)
(* unless a write of that very call was lost.                              *)
THEOREM FlagSpeaksOfAllServos == CliSpec => FlagMeansAllServos
<1>1. ArmInv /\ [CliNext]_cliVars => [FlagMeant]_so101Vars
  BY FlagStep
<1>2. CliSpec => [][FlagMeant]_so101Vars
  BY <1>1, CliArmInvariant, PTL DEF CliSpec
<1> QED
  BY <1>2 DEF FlagMeant, FlagMeansAllServos

-----------------------------------------------------------------------------
(* Goals                                                                   *)

GoalGuarded ==
  \A s \in Servos :
    registers'[<<s, "Goal_Position">>] # registers[<<s, "Goal_Position">>]
      => torqueEnabled /\ (clean => Torqued(s))

(* A write of an operation is never one of a goal.                         *)
LEMMA ArrivesKeepsGoals ==
  ASSUME ArmInv, op # "none", Arrives, NEW s \in Servos
  PROVE  registers'[<<s, "Goal_Position">>] = registers[<<s, "Goal_Position">>]
<1>1. Body(op)[line] # "Goal_Position"
  BY Access
<1>2. "Goal_Position" \in Names
  BY DEF Names
<1> QED
  BY <1>1, <1>2, ArrivesAt

LEMMA GoalStep ==
  ASSUME ArmInv, [CliNext]_cliVars
  PROVE  GoalGuarded
<1>1. CASE registers' = registers
  BY <1>1 DEF GoalGuarded
<1>2. CASE op # "none" /\ Arrives
  BY <1>2, ArrivesKeepsGoals DEF GoalGuarded
<1>3. ASSUME NEW position \in Int, SetPositionsTicks(position) PROVE GoalGuarded
  <2>1. op = "none" /\ (registers' # registers => torqueEnabled)
    BY <1>3, GoalsEffect
  <2> QED
    BY <1>1, <2>1 DEF GoalGuarded, ArmInv, FlagIsTruthWhenClean
<1>4. \/ registers' = registers
      \/ op # "none" /\ Arrives
      \/ \E position \in Int : SetPositionsTicks(position)
  <2>1. CASE Next
    <3>1. (\E o \in Operations : Call(o)) => registers' = registers
      BY DEF Call
    <3>2. CalibrationInvalid \/ ReadPhase \/ Reopen => registers' = registers
      BY DEF CalibrationInvalid, ReadPhase, Reopen
    <3>3. Write \/ AccessFails => registers' = registers \/ (op # "none" /\ Arrives)
      BY DEF Write, AccessFails
    <3>4. (\E p \in Positions : SetPositionsTicks(p)) => \E position \in Int : SetPositionsTicks(position)
      BY So101Assumption
    <3>5. Center => registers' = registers \/ \E position \in Int : SetPositionsTicks(position)
      BY CenterEffect
    <3>6. (\E c \in Calibrations : SetCalibration(c)) => registers' = registers
      BY DEF SetCalibration
    <3> QED
      BY <2>1, <3>1, <3>2, <3>3, <3>4, <3>5, <3>6 DEF Next, Execute
  <2> QED
    BY <2>1, CliForArm DEF ResultTaken, so101Vars
<1> QED
  BY <1>1, <1>2, <1>3, <1>4

(* Goals are written only by a process that has itself enabled torque, and *)
(* without failures only to servos that hold.                              *)
THEOREM GoalsNeedTorque == CliSpec => NoGoalBeforeTorque
<1>1. ArmInv /\ [CliNext]_cliVars => [GoalGuarded]_so101Vars
  BY GoalStep
<1>2. CliSpec => [][GoalGuarded]_so101Vars
  BY <1>1, CliArmInvariant, PTL DEF CliSpec
<1> QED
  BY <1>2 DEF GoalGuarded, NoGoalBeforeTorque

-----------------------------------------------------------------------------
(* Success                                                                 *)

Free == \A s \in Servos : ~Torqued(s)

(* A command that releases calls nothing but disable_torque, which has     *)
(* written every servo when it returns ok.                                 *)
CliInv ==
  /\ ArmInv
  /\ stage = "release" => op \in {"none", "disable"}
  /\ stage = "release" /\ op = "none" /\ result = "ok" /\ ~lost => Free
  /\ stage = "hold" => op = "none" /\ result = "none"
  /\ SuccessMeansReleased

LEMMA ExecuteRelease ==
  ASSUME CliInv, Execute, op = "disable"
  PROVE  /\ op' \in {"none", "disable"}
         /\ op' = "none" /\ result' = "ok" /\ ~lost' => Free'
<1>1. CASE Write
  <2>1. op' \in {"none", "disable"}
    BY <1>1, WriteEffect, GoingOn DEF CliInv
  <2>2. ASSUME op' = "none", ~lost', NEW s \in Servos PROVE ~Torqued(s)'
    <3>1. registers'[<<s, "Torque_Enable">>] = 0
      BY <1>1, <2>2, AllSwitched, Values DEF CliInv, Switching
    <3> QED
      BY <3>1 DEF Torqued
  <2> QED
    BY <2>1, <2>2 DEF Free
<1>2. CASE AccessFails
  BY <1>2 DEF AccessFails, Return
<1>3. ~CalibrationInvalid /\ ~ReadPhase
  BY DEF CalibrationInvalid, ReadPhase, IsRead
<1> QED
  BY <1>1, <1>2, <1>3 DEF Execute

LEMMA ExecuteRuns == Execute => op # "none"
BY DEF Execute, CalibrationInvalid, Write, ReadPhase, AccessFails

LEMMA CliStep ==
  ASSUME CliInv, [CliNext]_cliVars
  PROVE  CliInv'
<1> USE DEF Stages
<1>1. ArmInv'
  BY CliArmStep DEF CliInv
<1>2. ASSUME NEW a \in Actions, Start(a) PROVE CliInv'
  BY <1>1, <1>2 DEF Start, Reopen, Return, CliInv, SuccessMeansReleased
<1>3. CASE Perform
  <2>1. /\ stage \in {"configure", "enable", "move", "release"} /\ stage' = stage
        /\ stage = "release" => Call("disable")
    BY <1>3 DEF Perform
  <2>2. Call("disable") => op' = "disable"
    BY DEF Call, Guarded
  <2> QED
    BY <1>1, <2>1, <2>2 DEF CliInv, SuccessMeansReleased
<1>4. CASE CliExecute
  <2>1. Execute /\ stage \in Stages /\ stage' = stage /\ op # "none"
    BY <1>4, ExecuteRuns DEF CliExecute
  <2>2. stage # "hold" /\ (stage = "release" => op = "disable")
    BY <2>1 DEF CliInv
  <2>3. stage = "release" => /\ op' \in {"none", "disable"}
                             /\ op' = "none" /\ result' = "ok" /\ ~lost' => Free'
    BY <2>1, <2>2, ExecuteRelease
  <2> QED
    BY <1>1, <2>1, <2>2, <2>3 DEF CliInv, SuccessMeansReleased
<1>5. CASE Proceed
  <2>1. /\ op' = "none" /\ result' = "none" /\ registers' = registers /\ lost' = lost
        /\ failed' = (failed \/ result = "error")
        /\ stage' = IF result = "ok" THEN AfterSuccess ELSE AfterError
        /\ result \in {"ok", "error"} /\ op = "none" /\ stage \in Stages
    BY <1>5 DEF Proceed, CliInv, ArmInv, TypeOK
  <2>2. ASSUME stage' = "exited", ~failed', ~lost' PROVE Free'
    <3>1. result = "ok" /\ AfterSuccess = "exited"
      BY <2>1, <2>2
    <3>2. stage = "release"
      BY <2>1, <3>1 DEF AfterSuccess, CliInv
    <3> QED
      BY <2>1, <2>2, <3>1, <3>2 DEF CliInv, Free, Torqued
  <2> QED
    BY <1>1, <2>1, <2>2 DEF CliInv, SuccessMeansReleased, Free
<1>6. CASE Hold
  <2>1. stage = "hold" /\ stage' = "release" /\ UNCHANGED <<op, result>>
    BY <1>6 DEF Hold, so101Vars
  <2> QED
    BY <1>1, <2>1 DEF CliInv, SuccessMeansReleased
<1>7. CASE Kill
  <2>1. stage' = "exited" /\ failed' = TRUE
    BY <1>7 DEF Kill
  <2> QED
    BY <1>1, <2>1 DEF CliInv, SuccessMeansReleased
<1>8. CASE OpenLibrary \/ CallLibrary
  <2>1. stage' = "library"
    BY <1>8 DEF OpenLibrary, CallLibrary
  <2> QED
    BY <1>1, <2>1 DEF CliInv, SuccessMeansReleased
<1>9. CASE UNCHANGED cliVars
  BY <1>1, <1>9 DEF cliVars, so101Vars, CliInv, SuccessMeansReleased, Free, Torqued
<1> QED
  BY <1>2, <1>3, <1>4, <1>5, <1>6, <1>7, <1>8, <1>9 DEF CliNext

(* A command that has called disable_torque and exits without an error has *)
(* released every servo, in whatever state it found the arm, unless a      *)
(* write of that call was lost.                                            *)
THEOREM SuccessReleases == CliSpec => []SuccessMeansReleased
<1>1. CliInit => CliInv
  BY ArmInit DEF CliInit, CliInv, SuccessMeansReleased
<1>2. CliInv => SuccessMeansReleased
  BY DEF CliInv
<1> QED
  BY <1>1, <1>2, CliStep, PTL DEF CliSpec

=============================================================================
