----------------------------- MODULE DAggerEvents -----------------------------
(***************************************************************************)
(* The hand-off between the threads of a DAgger session, rerobot-core      *)
(* rollout/dagger.rs: input devices request transitions, the main loop     *)
(* consumes them, and both may overwrite the phase or reset the session.   *)
(*                                                                         *)
(* Phase and pending request are behind one lock, so each method is a      *)
(* step, except reset, which clears `upload_requested` after it has given  *)
(* the lock back.  A recovered lock keeps what was written, so poisoning   *)
(* it changes nothing.  Operators named ...Slip are not the program.       *)
(***************************************************************************)
CONSTANTS
  Threads,  \* any of them may call any method
  Nothing   \* no pending request

ASSUME DAggerAssumption == Nothing \notin {"pause_resume", "correction", "upload"}

VARIABLES
  phase,            \* state.phase
  pending,          \* state.pending
  stopRecording,    \* flag
  uploadRequested,  \* flag
  resetting,        \* threads in reset, between the lock and the flag
  requestedIn,      \* history: the phase in which `pending` was requested
  overwritten       \* history: set_phase was called since then

state == <<phase, pending>>
flags == <<stopRecording, uploadRequested>>
history == <<requestedIn, overwritten>>
daggerVars == <<state, flags, resetting, history>>

Phases == {"autonomous", "paused", "correcting"}
Events == {"pause_resume", "correction", "upload"} \* the last is no transition

(* _DAGGER_TRANSITIONS: the phase an event leads to from a phase.          *)
Table == [autonomous |-> [pause_resume |-> "paused"],
          paused     |-> [pause_resume |-> "autonomous", correction |-> "correcting"],
          correcting |-> [correction |-> "paused"]]

IsTransition(p, e) == e \in DOMAIN Table[p]

DAggerTypeOK ==
  /\ phase \in Phases
  /\ pending \in Events \cup {Nothing}
  /\ stopRecording \in BOOLEAN
  /\ uploadRequested \in BOOLEAN
  /\ resetting \subseteq Threads
  /\ requestedIn \in Phases
  /\ overwritten \in BOOLEAN

DAggerInit ==
  /\ phase = "autonomous"
  /\ pending = Nothing
  /\ stopRecording = FALSE
  /\ uploadRequested = FALSE
  /\ resetting = {}
  /\ requestedIn = "autonomous"
  /\ overwritten = FALSE

RequestTransitionSlip(e) == \* stored without a look at the phase
  /\ pending' = e
  /\ requestedIn' = phase
  /\ overwritten' = FALSE
  /\ UNCHANGED <<phase, flags, resetting>>

(* An event that leads nowhere from here leaves the pending request.       *)
RequestTransition(e) ==
  /\ IF IsTransition(phase, e)
     THEN pending' = e /\ requestedIn' = phase /\ overwritten' = FALSE
     ELSE UNCHANGED <<pending, history>>
  /\ UNCHANGED <<phase, flags, resetting>>

ConsumeTransitionSlip == \* the request stays in its slot
  /\ pending # Nothing
  /\ phase' = IF IsTransition(phase, pending) THEN Table[phase][pending] ELSE phase
  /\ UNCHANGED <<pending, flags, resetting, history>>

(* The slot is emptied whether or not the request still is a transition.   *)
ConsumeTransition ==
  /\ pending # Nothing
  /\ phase' = IF IsTransition(phase, pending) THEN Table[phase][pending] ELSE phase
  /\ pending' = Nothing
  /\ UNCHANGED <<flags, resetting, history>>

(* set_phase leaves the pending request as it is.                          *)
SetPhase(p) ==
  /\ phase' = p
  /\ overwritten' = TRUE
  /\ UNCHANGED <<pending, flags, resetting, requestedIn>>

ResetStateSlip(t) == \* the request outlives the session
  /\ t \notin resetting
  /\ phase' = "autonomous"
  /\ resetting' = resetting \cup {t}
  /\ UNCHANGED <<pending, flags, history>>

ResetState(t) ==
  /\ t \notin resetting
  /\ phase' = "autonomous"
  /\ pending' = Nothing
  /\ resetting' = resetting \cup {t}
  /\ UNCHANGED <<flags, history>>

ResetUpload(t) ==
  /\ t \in resetting
  /\ uploadRequested' = FALSE
  /\ resetting' = resetting \ {t}
  /\ UNCHANGED <<state, stopRecording, history>>

(* The flags are public: ESC sets one, the upload key and the loop that    *)
(* uploads set and clear the other.                                        *)
Stop ==
  /\ stopRecording' = TRUE
  /\ UNCHANGED <<state, uploadRequested, resetting, history>>

SetUpload(requested) ==
  /\ uploadRequested' = requested
  /\ UNCHANGED <<state, stopRecording, resetting, history>>

DAggerNext ==
  \/ \E e \in Events : RequestTransition(e)
  \/ ConsumeTransition
  \/ \E p \in Phases : SetPhase(p)
  \/ \E t \in Threads : ResetState(t) \/ ResetUpload(t)
  \/ Stop
  \/ \E requested \in BOOLEAN : SetUpload(requested)

DAggerSpec == DAggerInit /\ [][DAggerNext]_daggerVars

-----------------------------------------------------------------------------
(* A pending request means what it meant when it was made: unless          *)
(* set_phase has been called since, the phase is the one it was checked    *)
(* against, and it still leads somewhere from there.  request_transition,  *)
(* consume_transition and reset keep the two together, in any order of any *)
(* number of threads.                                                      *)
PendingMeansWhatItMeant ==
  pending # Nothing =>
    /\ IsTransition(requestedIn, pending)
    /\ ~overwritten => phase = requestedIn

(* A request that no set_phase has overtaken moves the phase to where it   *)
(* was asked to go, and is gone then: the main loop applies no request     *)
(* twice, and none to a phase it was not meant for.                        *)
AppliedOnceAsAsked ==
  [][ pending # Nothing /\ phase' # phase /\ ~overwritten' /\ resetting' = resetting
      => pending' = Nothing /\ phase' = Table[requestedIn][pending] ]_daggerVars

==============================================================================
