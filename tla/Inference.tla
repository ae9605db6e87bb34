------------------------------ MODULE Inference ------------------------------
(***************************************************************************)
(* Which predictions the actions of a deployed policy are made of:         *)
(* rerobot-train deploy.rs, InferenceSession and its TemporalEnsembler.    *)
(*                                                                         *)
(* The policy answers an observation with a chunk of future actions.  A    *)
(* session either uses up the first few of a chunk before it asks again,   *)
(* or asks at every observation and averages all predictions it has for    *)
(* the current one.  rollout() walks through the dataset; a caller may     *)
(* also ask for single observations, in any order.                         *)
(*                                                                         *)
(* Abstracted: a prediction is the observation it was made at and its      *)
(* place in the chunk, an average the sequence of the predictions it       *)
(* weighs, oldest first.  Operators named ...Slip are not the program.     *)
(***************************************************************************)
EXTENDS Integers, Sequences

CONSTANTS
  NumFrames,
  Episode,   \* frame -> episode
  Configs,   \* [temporal, chunk, steps]: temporal_ensemble_coeff is set,
             \* chunk_size, n_action_steps
  Absent

Frames == 0 .. NumFrames - 1
Predictions == [query : Nat, offset : Nat]

ASSUME InferenceAssumption ==
  /\ NumFrames \in Nat
  /\ Episode \in [Frames -> Nat]
  /\ Configs \subseteq [temporal : BOOLEAN, chunk : Nat \ {0}, steps : Nat \ {0}]
  /\ \A c \in Configs : c.steps <= c.chunk /\ (c.temporal => c.steps = 1)
  /\ Absent \notin Nat
  /\ Absent \notin [first : Nat, next : Nat]
  /\ \A c \in Configs : Absent \notin [1..c.chunk - 1 -> Seq(Predictions)]

VARIABLES
  config,
  policy,  \* [queue, history, counts]: queued_actions, ensembled_actions,
           \* ensembled_actions_count
  rollout, \* the rollout being run: [start, next, end, episode], or Absent
  action,  \* the last action returned, and when: [frame, start, sources,
           \* stretch], or Absent
  stretch, \* history: the frames asked for since the last reset, or Absent
  aligned  \* history: they were consecutive and no call failed among them

inferenceVars == <<config, policy, rollout, action, stretch, aligned>>

C == config.chunk

Prediction(f, i) == [query |-> f, offset |-> i - 1]
TypeOK ==
  /\ config \in Configs
  /\ policy.queue \in Seq(Predictions)
  /\ policy.history \in [1..C - 1 -> Seq(Predictions)] \cup {Absent}
  /\ policy.counts \in Seq(Nat)
  /\ rollout = Absent \/ /\ rollout.start \in Frames
                         /\ rollout.next \in rollout.start..rollout.end - 1
                         /\ rollout.end \in 1..NumFrames
                         /\ rollout.episode \in Nat \cup {Absent}
  /\ action = Absent \/ /\ action.frame \in Frames
                        /\ action.start \in Frames \cup {Absent}
                        /\ action.stretch \in Frames \cup {Absent}
                        /\ action.sources \in Seq(Predictions)
  /\ stretch \in [first : Frames, next : 1..NumFrames] \cup {Absent}
  /\ aligned \in BOOLEAN

(***************************************************************************)
(* The policy's memory                                                     *)
(***************************************************************************)
Fresh == [queue |-> <<>>, history |-> Absent, counts |-> <<>>]

RefillSlip(f) == [i \in 1..C |-> Prediction(f, i)] \* the whole chunk

(* predict_action_steps                                                    *)
Refill(f) == [i \in 1..config.steps |-> Prediction(f, i)]

(* TemporalEnsembler::update before it takes the first action away.  Its   *)
(* refusals of a history of another length, or a count out of range, are   *)
(* left out: EnsemblerAccepts.                                             *)
Blended(p, f) ==
  [i \in 1..C |-> IF p.history # Absent /\ i < C
                  THEN Append(p.history[i], Prediction(f, i))
                  ELSE <<Prediction(f, i)>>]

BlendedCountsSlip(p) == \* counts the predictions before the last
  [i \in 1..C |-> IF p.history # Absent /\ i < C
                  THEN IF p.counts[i] < C THEN p.counts[i] + 1 ELSE C
                  ELSE 0]

BlendedCounts(p) ==
  [i \in 1..C |-> IF p.history # Absent /\ i < C
                  THEN IF p.counts[i] < C THEN p.counts[i] + 1 ELSE C
                  ELSE 1]

WithoutFirst(s) == [i \in 1..C - 1 |-> s[i + 1]]

Queue(p, f) == IF p.queue = <<>> THEN Refill(f) ELSE p.queue

(* What select_action_normalized makes the action of, and leaves behind.   *)
Sources(p, f) == IF config.temporal THEN Blended(p, f)[1] ELSE <<Head(Queue(p, f))>>

After(p, f) ==
  IF config.temporal
  THEN [queue   |-> p.queue,
        history |-> WithoutFirst(Blended(p, f)),
        counts  |-> WithoutFirst(BlendedCounts(p))]
  ELSE [queue   |-> Tail(Queue(p, f)),
        history |-> p.history,
        counts  |-> p.counts]

(***************************************************************************)
(* Calls                                                                   *)
(***************************************************************************)
Init ==
  /\ config \in Configs
  /\ policy = Fresh
  /\ rollout = Absent
  /\ action = Absent
  /\ stretch = Absent
  /\ aligned = TRUE

(* reset()                                                                 *)
Reset ==
  /\ rollout = Absent
  /\ policy' = Fresh
  /\ stretch' = Absent
  /\ aligned' = TRUE
  /\ UNCHANGED <<config, rollout, action>>

Extended(s, f) == [first |-> IF s = Absent THEN f ELSE s.first, next |-> f + 1]

(* Frame f is asked for while the memory is p: an action is returned, or   *)
(* one that is not finite is taken and refused.                            *)
Selected(p, f, s, a, start) ==
  /\ policy' = After(p, f)
  /\ stretch' = Extended(s, f)
  /\ aligned' = (a /\ (s = Absent \/ f = s.next))
  /\ \/ action' = [frame |-> f, start |-> start, sources |-> Sources(p, f),
                   stretch |-> IF aligned' THEN stretch'.first ELSE Absent]
     \/ action' = Absent

(* The observation cannot be read, or the prediction is not finite: the    *)
(* memory does not move on.                                                *)
Refused(p, s) ==
  /\ policy' = p
  /\ stretch' = s
  /\ aligned' = (s = Absent)
  /\ action' = Absent

(* select_action, select_action_on_batch                                   *)
SelectAction(f) ==
  /\ rollout = Absent
  /\ Selected(policy, f, stretch, aligned, Absent) \/ Refused(policy, stretch)
  /\ UNCHANGED <<config, rollout>>

(* rollout(): `start_index`, and `end` after the last.                     *)
StartRollout(start, end) ==
  /\ rollout = Absent
  /\ start < end
  /\ rollout' = [start |-> start, next |-> start, end |-> end, episode |-> Absent]
  /\ policy' = Fresh
  /\ stretch' = Absent
  /\ aligned' = TRUE
  /\ UNCHANGED <<config, action>>

EpisodeChangesSlip == rollout.episode = Absent \* compared with nothing

(* should_reset_for_episode_change                                         *)
EpisodeChanges ==
  rollout.episode # Absent /\ rollout.episode # Episode[rollout.next]

RolloutStep ==
  /\ rollout # Absent
  /\ LET f == rollout.next
         p == IF EpisodeChanges THEN Fresh ELSE policy
         s == IF EpisodeChanges THEN Absent ELSE stretch
         a == EpisodeChanges \/ aligned
     IN \/ /\ Selected(p, f, s, a, rollout.start)
           /\ rollout' = IF action' = Absent \/ f + 1 = rollout.end
                         THEN Absent
                         ELSE [start |-> rollout.start, next |-> f + 1,
                               end |-> rollout.end, episode |-> Episode[f]]
        \/ Refused(p, s) /\ rollout' = Absent
  /\ UNCHANGED config

Next ==
  \/ Reset
  \/ \E f \in Frames : SelectAction(f)
  \/ \E start \in Frames, end \in 1..NumFrames : StartRollout(start, end)
  \/ RolloutStep

Spec == Init /\ [][Next]_inferenceVars

-----------------------------------------------------------------------------
(***************************************************************************)
(* Properties                                                              *)
(***************************************************************************)

(* The predictions for frame f made at frames up to `last`, of those since *)
(* `first` whose chunk reaches it, oldest first.                           *)
Window(first, f, last) ==
  LET oldest == IF f - first < C THEN first ELSE f - C + 1
  IN [i \in 1 .. last - oldest + 1 |->
        [query |-> oldest + i - 1, offset |-> f - oldest - i + 1]]

(* What an action for frame f is made of when the session was last reset   *)
(* before frame `first` and has seen every frame since: all predictions    *)
(* for it, or the one of the last query, made every n_action_steps frames. *)
Expected(first, f) ==
  IF config.temporal
  THEN Window(first, f, f)
  ELSE LET age == (f - first) % config.steps
       IN <<[query |-> f - age, offset |-> age]>>

(* The episode of frame f begins at `first` in a rollout from `start`.     *)
BeginsAt(first, start, f) ==
  /\ first \in start..f
  /\ \A g \in first..f : Episode[g] = Episode[f]
  /\ first > start => Episode[first - 1] # Episode[f]

EpisodeStart(start, f) == CHOOSE first \in start..f : BeginsAt(first, start, f)

(* An action of a rollout is made of the predictions for its own frame     *)
(* made in its own episode and this rollout, all of them and no others,    *)
(* whatever was called or has failed before.                               *)
RolloutActionsExact ==
  action # Absent /\ action.start # Absent =>
    action.sources = Expected(EpisodeStart(action.start, action.frame), action.frame)

(* The same for a caller that asks for frames one by one: after a reset,   *)
(* as long as the frames are consecutive and no call fails, each action is *)
(* made of all the predictions for its frame, also where a value that was  *)
(* not finite was refused in between.                                      *)
SelectedActionsExact ==
  action # Absent /\ action.stretch # Absent =>
    action.sources = Expected(action.stretch, action.frame)

(* The averages and their counts stay in step, and a count never exceeds   *)
(* the predictions a chunk can make for a frame, in any sequence of calls: *)
(* update never meets a history it refuses, nor reads a weight past the    *)
(* end of its table.                                                       *)
EnsemblerAccepts ==
  policy.history # Absent =>
    /\ DOMAIN policy.counts = 1..C - 1
    /\ \A i \in 1..C - 1 : policy.counts[i] = Len(policy.history[i])
                           /\ policy.counts[i] \in 1..C - i

==============================================================================
