---------------------------- MODULE TrainingProofs ----------------------------
(* Proofs about Training, for every dataset, configuration and number of   *)
(* failures and resumes.                                                   *)
EXTENDS Training, TLAPS, SequenceTheorems

(* What each value of pc says of the session.                              *)
Phase ==
  /\ pc = "draw" => Len(batch) < config.batch_size
  /\ pc = "update" => Len(batch) = config.batch_size
  /\ pc \in {"draw", "update"} => step < config.steps
  /\ pc \notin {"draw", "update"} => batch = <<>>
  /\ pc \in {"save", "unmark", "mark"} =>
       step \in StepRange /\ step <= config.steps /\ ShouldSave(config, step)
  /\ resumeStep <= step
  /\ finite

(* The inductive invariant: an offset is always inside its epoch.          *)
Inv ==
  /\ TypeOK
  /\ Phase
  /\ StateCoherent
  /\ NoPoisonedCheckpoint
  /\ sampler.start < NumFrames

-------------------------------------------------------------------------------
(* Arithmetic of the sampler                                               *)

(* A batch size has at least one batch per epoch, and all batches but the  *)
(* last lie wholly inside the epoch.                                       *)
LEMMA BatchesBound ==
  ASSUME NEW b \in Nat \ {0}
  PROVE  /\ BatchesPerEpoch(b) \in Nat \ {0}
         /\ (BatchesPerEpoch(b) - 1) * b < NumFrames
<1> DEFINE q == (NumFrames + b - 1) \div b
<1>1. NumFrames \in Nat \ {0} BY TrainingAssumption
<1>2. q \in Nat /\ q * b <= NumFrames + b - 1
  BY <1>1, SMTT(30)
<1>3. CASE q < 1
  <2>1. BatchesPerEpoch(b) = 1 BY <1>3 DEF BatchesPerEpoch
  <2> QED BY <2>1, <1>1
<1>4. CASE q >= 1
  <2>1. BatchesPerEpoch(b) = q BY <1>4, <1>2 DEF BatchesPerEpoch
  <2>2. (q - 1) * b = q * b - b BY <1>2, SMTT(30)
  <2> HIDE DEF q
  <2> QED BY <2>1, <2>2, <1>1, <1>2, <1>4
<1> QED BY <1>2, <1>3, <1>4

(* Scaling preserves an order.                                             *)
LEMMA ProductMonotone ==
  ASSUME NEW a \in Nat, NEW c \in Nat, a <= c, NEW b \in Nat
  PROVE  a * b <= c * b
<1>1. c * b = a * b + (c - a) * b BY SMTT(30)
<1>2. (c - a) * b \in Nat BY SMTT(30)
<1>3. a * b \in Nat OBVIOUS
<1> QED BY <1>1, <1>2, <1>3

(* A recomputed offset leaves at least one frame of its epoch.             *)
LEMMA OffsetInside ==
  ASSUME NEW s \in Nat, NEW b \in Nat \ {0}
  PROVE  /\ ComputeSamplerState(s, b) \in [epoch : Nat, start : 0..NumFrames]
         /\ ComputeSamplerState(s, b).start < NumFrames
<1> DEFINE k == BatchesPerEpoch(b)
           r == s % k
<1>1. k \in Nat \ {0} /\ (k - 1) * b < NumFrames BY BatchesBound
<1> HIDE DEF k
<1>2. r \in 0..k - 1 /\ s \div k \in Nat BY <1>1
<1> HIDE DEF r
<1>3. r * b <= (k - 1) * b
  BY <1>1, <1>2, ProductMonotone
<1>4. r * b \in Nat /\ (k - 1) * b \in Nat BY <1>1, <1>2
<1>5. r * b < NumFrames BY <1>1, <1>3, <1>4, TrainingAssumption
<1>6. LesserOf(r * b, NumFrames) = r * b
  BY <1>4, <1>5, TrainingAssumption DEF LesserOf
<1>7. ComputeSamplerState(s, b) = [epoch |-> s \div k, start |-> r * b]
  BY <1>6 DEF ComputeSamplerState, k, r
<1> QED BY <1>2, <1>4, <1>5, <1>7, TrainingAssumption

-------------------------------------------------------------------------------
(* The invariant is inductive                                              *)

(* The initial states satisfy the invariant.                               *)
LEMMA InitInv == Init => Inv
<1> SUFFICES ASSUME Init PROVE Inv OBVIOUS
<1> USE TrainingAssumption
<1>1. TypeOK
  <2>1. saved \in [StepRange -> Checkpoints \cup {Absent}] BY DEF Init
  <2>2. pc \in Ended \cup Running BY DEF Init, Ended
  <2>3. /\ sampler \in [epoch : Nat, start : 0..NumFrames]
        /\ queue \in [epoch : Nat, next : 0..NumFrames]
    BY DEF Init, ExhaustedQueue
  <2>4. batch \in Seq(Samples) /\ model \in Seq(Samples)
    BY EmptySeq DEF Init
  <2>5. outputDir \in BOOLEAN /\ finite \in BOOLEAN BY DEF Init
  <2> QED BY <2>1, <2>2, <2>3, <2>4, <2>5 DEF Init, TypeOK
<1>2. Phase
  <2>1. config \in Configs /\ batch = <<>> /\ pc = "down" BY DEF Init
  <2>2. resumeStep = 0 /\ step = 0 /\ finite BY DEF Init
  <2> QED BY <2>1, <2>2 DEF Phase
<1>3. StateCoherent /\ NoPoisonedCheckpoint
  BY DEF Init, StateCoherent, NoPoisonedCheckpoint
<1> QED BY <1>1, <1>2, <1>3 DEF Init, Inv

(* A step without a session afterwards keeps the invariant.                *)
LEMMA NoSessionInv ==
  ASSUME Inv, NoSession, saved' = saved, last' = last, outputDir' \in BOOLEAN,
         pc' \in Ended \/ pc' = "draw", config' \in Configs,
         runs' \in 0..MaxRuns
  PROVE  Inv'
<1> USE TrainingAssumption
<1>1. TypeOK'
  BY DEF Inv, TypeOK, NoSession, ExhaustedQueue, Running
<1>2. Phase'
  <2>1. config'.batch_size \in Nat \ {0} /\ config'.steps \in Nat \ {0}
    OBVIOUS
  <2>2. resumeStep' = 0 /\ step' = 0 /\ finite' /\ batch' = <<>>
    BY DEF NoSession
  <2>3. pc' \in {"failed", "down", "done", "draw"} BY DEF Ended
  <2>4. Len(batch') = 0 BY <2>2
  <2> QED BY <2>1, <2>2, <2>3, <2>4 DEF Phase
<1>3. StateCoherent' /\ NoPoisonedCheckpoint'
  BY DEF Inv, NoSession, StateCoherent, NoPoisonedCheckpoint
<1> QED BY <1>1, <1>2, <1>3 DEF NoSession, Inv

(* Whatever ends a run keeps the invariant.                                *)
LEMMA EndInv ==
  ASSUME Inv, NEW how \in Ended, End(how), saved' = saved, last' = last,
         outputDir' \in BOOLEAN
  PROVE  Inv'
<1>1. NoSession /\ pc' = how /\ config' = config /\ runs' = runs
  BY DEF End
<1>2. config \in Configs /\ runs \in 0..MaxRuns BY DEF Inv, TypeOK
<1> QED BY <1>1, <1>2, NoSessionInv

(* A fresh run, and a resumed one.                                         *)
LEMMA StartInv ==
  ASSUME Inv, NEW c \in Configs, StartFresh(c)
  PROVE  Inv'
<1>1. runs' \in 0..MaxRuns
  BY TrainingAssumption DEF Inv, TypeOK, StartFresh
<1>2. outputDir' \in BOOLEAN
  BY DEF Inv, TypeOK, StartFresh, disk
<1> QED BY <1>1, <1>2, NoSessionInv DEF StartFresh, disk

LEMMA ResumeInv ==
  ASSUME Inv, NEW c \in Configs, NEW s \in StepRange, Resume(c, s)
  PROVE  Inv'
<1> USE TrainingAssumption
<1>1. saved[s] \in Checkpoints /\ s \in Nat \ {0} /\ s <= MaxStep
  BY DEF Inv, TypeOK, Resume, StepRange
<1>2. saved[s].step = s /\ saved[s].updates = s /\ saved[s].draws = s /\ saved[s].finite
  BY DEF Inv, Resume, StateCoherent, NoPoisonedCheckpoint
<1>3. saved[s].batch_size \in Nat \ {0} /\ saved[s].model \in Seq(Samples)
  BY <1>1 DEF Checkpoints
<1>4. /\ sampler' \in [epoch : Nat, start : 0..NumFrames]
      /\ sampler'.start < NumFrames
  BY <1>1, <1>2, <1>3, OffsetInside DEF Resume
<1>5. /\ saved' = saved /\ last' = last /\ outputDir' = outputDir
      /\ batch' = <<>> /\ queue' = ExhaustedQueue /\ config' = c
      /\ step' = s /\ resumeStep' = s /\ updates' = s /\ draws' = s
      /\ finite' = TRUE /\ model' = saved[s].model
      /\ runs' = runs + 1 /\ runs < MaxRuns
      /\ pc' = IF s < c.steps THEN "draw" ELSE "done"
  BY <1>2 DEF Resume, disk, Inv, TypeOK
<1>6. TypeOK'
  BY <1>1, <1>3, <1>4, <1>5 DEF Inv, TypeOK, ExhaustedQueue, Ended, Running
<1>7. Phase'
  BY <1>1, <1>5 DEF Phase
<1>8. StateCoherent' /\ NoPoisonedCheckpoint'
  BY <1>5 DEF Inv, StateCoherent, NoPoisonedCheckpoint
<1> QED BY <1>4, <1>6, <1>7, <1>8 DEF Inv

(* One frame is drawn: there is one, since an offset is inside its epoch.  *)
LEMMA NextFrameInv ==
  ASSUME Inv, NextFrame
  PROVE  /\ Inv'
         /\ batch' = Append(batch,
              IF IsExhausted(queue)
              THEN [epoch |-> sampler.epoch, position |-> sampler.start]
              ELSE [epoch |-> queue.epoch, position |-> queue.next])
         /\ queue' = IF IsExhausted(queue)
                     THEN [epoch |-> sampler.epoch, next |-> sampler.start + 1]
                     ELSE [epoch |-> queue.epoch, next |-> queue.next + 1]
         /\ sampler' = IF IsExhausted(queue)
                       THEN [epoch |-> sampler.epoch + 1, start |-> 0]
                       ELSE sampler
         /\ pc = "draw" /\ pc' \in {"draw", "update"}
         /\ UNCHANGED <<saved, last, outputDir, config, resumeStep, step,
                        model, finite, updates, draws, runs>>
<1> USE TrainingAssumption
<1> DEFINE q == IF IsExhausted(queue) THEN EpochTail(sampler) ELSE queue
           frame == [epoch |-> q.epoch, position |-> q.next]
<1>1. /\ q \in [epoch : Nat, next : 0..NumFrames - 1]
      /\ q.epoch = IF IsExhausted(queue) THEN sampler.epoch ELSE queue.epoch
      /\ q.next = IF IsExhausted(queue) THEN sampler.start ELSE queue.next
  BY DEF Inv, TypeOK, IsExhausted, EpochTail, LesserOf
<1>2. ~IsExhausted(q) BY <1>1 DEF IsExhausted
<1>3. /\ queue' = [q EXCEPT !.next = @ + 1]
      /\ sampler' = IF IsExhausted(queue) THEN AfterEpoch(sampler) ELSE sampler
      /\ batch' = Append(batch, frame)
      /\ pc = "draw"
      /\ pc' = IF Len(batch) + 1 = config.batch_size THEN "update" ELSE "draw"
      /\ UNCHANGED <<saved, last, outputDir, config, resumeStep, step,
                     model, finite, updates, draws, runs>>
  BY <1>2 DEF NextFrame, disk
<1>4. queue' = [epoch |-> q.epoch, next |-> q.next + 1]
  BY <1>1, <1>3
<1>5. frame \in Samples BY <1>1 DEF Samples
<1> HIDE DEF q, frame
<1>6. batch' \in Seq(Samples) /\ Len(batch') = Len(batch) + 1
  BY <1>3, <1>5 DEF Inv, TypeOK
<1>7. queue' \in [epoch : Nat, next : 0..NumFrames]
  BY <1>1, <1>4
<1>8. /\ sampler' \in [epoch : Nat, start : 0..NumFrames]
      /\ sampler'.start < NumFrames
  BY <1>3, SMTT(30) DEF Inv, TypeOK, AfterEpoch
<1>9. TypeOK'
  BY <1>3, <1>6, <1>7, <1>8 DEF Inv, TypeOK, Running
<1>10. Phase'
  <2>1. Len(batch) < config.batch_size /\ Len(batch) \in Nat
    BY <1>3 DEF Inv, TypeOK, Phase
  <2>2. config.batch_size \in Nat BY DEF Inv, TypeOK
  <2>3. step < config.steps /\ resumeStep <= step /\ finite
    BY <1>3 DEF Inv, Phase
  <2> QED BY <1>3, <1>6, <2>1, <2>2, <2>3 DEF Phase
<1>11. StateCoherent' /\ NoPoisonedCheckpoint'
  BY <1>3 DEF Inv, StateCoherent, NoPoisonedCheckpoint
<1>12. Inv' BY <1>8, <1>9, <1>10, <1>11 DEF Inv
<1>13. q.epoch = (IF IsExhausted(queue) THEN sampler.epoch ELSE queue.epoch)
  BY <1>1
<1> QED BY <1>1, <1>3, <1>4, <1>12 DEF frame, AfterEpoch

(* An optimization step.                                                   *)
LEMMA TrainedInv ==
  ASSUME Inv, pc = "update", Trained(TRUE), UNCHANGED disk
  PROVE  Inv'
<1> USE TrainingAssumption
<1>1. /\ step' = step + 1 /\ updates' = updates + 1 /\ draws' = draws + 1
      /\ model' = model \o batch /\ batch' = <<>> /\ finite' = TRUE
      /\ saved' = saved /\ last' = last /\ outputDir' = outputDir
      /\ config' = config /\ resumeStep' = resumeStep /\ sampler' = sampler
      /\ queue' = queue /\ runs' = runs
      /\ pc' = IF ShouldSave(config, step + 1) THEN "save" ELSE AfterStep(step + 1)
  BY DEF Trained, disk
<1>2. /\ step < config.steps /\ config.steps \in 1..MaxStep
      /\ config.batch_size \in Nat \ {0}
      /\ step \in 0..MaxStep /\ resumeStep \in 0..MaxStep /\ resumeStep <= step
  BY DEF Inv, TypeOK, Phase
<1>3. /\ pc' \in {"save", "draw", "done"}
      /\ pc' = "save" => ShouldSave(config, step + 1)
      /\ pc' = "draw" => step + 1 < config.steps
  BY <1>1, <1>2 DEF AfterStep
<1>4. model \o batch \in Seq(Samples)
  BY DEF Inv, TypeOK
<1>5. TypeOK'
  BY <1>1, <1>2, <1>3, <1>4 DEF Inv, TypeOK, Ended, Running
<1>6. Phase'
  <2>1. Len(batch') = 0 BY <1>1
  <2>2. step' \in StepRange /\ step' <= config'.steps
    BY <1>1, <1>2 DEF StepRange
  <2>3. pc' = "save" => ShouldSave(config', step')
    BY <1>1, <1>3
  <2> QED BY <1>1, <1>2, <1>3, <2>1, <2>2, <2>3 DEF Phase
<1>7. StateCoherent' /\ NoPoisonedCheckpoint'
  BY <1>1, <1>2 DEF Inv, TypeOK, StateCoherent, NoPoisonedCheckpoint
<1> QED BY <1>1, <1>5, <1>6, <1>7 DEF Inv

(* A checkpoint is published.                                              *)
LEMMA SaveInv ==
  ASSUME Inv, Save
  PROVE  Inv'
<1> USE TrainingAssumption
<1> DEFINE cp == CheckpointNow
<1>1. /\ cp.step = step /\ cp.updates = updates /\ cp.draws = draws
      /\ cp.finite = finite
  BY DEF CheckpointNow
<1>2. step \in StepRange /\ finite /\ updates = step /\ draws = step
  BY DEF Inv, Phase, StateCoherent, Save
<1>3. cp \in Checkpoints
  <2>1. config.batch_size \in Nat \ {0} BY DEF Inv, TypeOK
  <2> QED BY <1>2, <2>1 DEF Inv, TypeOK, CheckpointNow, Checkpoints
<1> HIDE DEF cp
<1>4. /\ saved' = [saved EXCEPT ![step] = cp] /\ pc = "save" /\ pc' = "unmark"
      /\ outputDir' = TRUE /\ last' = last /\ session' = session /\ runs' = runs
  BY DEF Save, cp
<1>5. \A s \in StepRange : saved'[s] = IF s = step THEN cp ELSE saved[s]
  BY <1>4 DEF Inv, TypeOK
<1>6. saved' \in [StepRange -> Checkpoints \cup {Absent}]
  BY <1>3, <1>4, <1>2 DEF Inv, TypeOK
<1>7. TypeOK'
  BY <1>4, <1>6 DEF Inv, TypeOK, session, Running
<1>8. Phase'
  BY <1>4 DEF Inv, Phase, session
<1>9. StateCoherent' /\ NoPoisonedCheckpoint'
  <2>1. updates' = step' /\ draws' = step'
    BY <1>2, <1>4 DEF session
  <2>2. ASSUME NEW s \in StepRange, saved'[s] # Absent
        PROVE  /\ saved'[s].step = s /\ saved'[s].updates = s
               /\ saved'[s].draws = s /\ saved'[s].finite
    <3>1. CASE s = step
      BY <1>1, <1>2, <1>5, <3>1
    <3>2. CASE s # step
      <4>1. saved'[s] = saved[s] BY <1>5, <3>2
      <4> QED BY <2>2, <4>1 DEF Inv, StateCoherent, NoPoisonedCheckpoint
    <3> QED BY <3>1, <3>2
  <2> QED BY <2>1, <2>2 DEF StateCoherent, NoPoisonedCheckpoint
<1> QED BY <1>4, <1>7, <1>8, <1>9 DEF Inv, session

(* The marker is removed, and created anew.                                *)
LEMMA MarkerInv ==
  ASSUME Inv, Unmark \/ Mark
  PROVE  Inv'
<1> USE TrainingAssumption
<1>1. CASE Unmark
  <2>1. TypeOK' BY <1>1 DEF Unmark, Inv, TypeOK, session, Running
  <2>2. Phase' BY <1>1 DEF Unmark, Inv, Phase, session
  <2>3. StateCoherent' /\ NoPoisonedCheckpoint'
    BY <1>1 DEF Unmark, Inv, StateCoherent, NoPoisonedCheckpoint, session
  <2> QED BY <1>1, <2>1, <2>2, <2>3 DEF Inv, Unmark, session
<1>2. CASE Mark
  <2>1. step \in StepRange /\ pc = "mark" BY <1>2 DEF Inv, Phase, Mark
  <2>2. config.batch_size \in Nat \ {0} /\ config.steps \in Nat
        /\ step \in Nat /\ batch = <<>>
    BY <2>1 DEF Inv, TypeOK, Phase, StepRange
  <2>3. /\ pc' \in {"draw", "done"} /\ last' = step
        /\ pc' = "draw" => step < config.steps
    BY <1>2, <2>2 DEF Mark, AfterStep
  <2>4. saved' = saved /\ outputDir' = outputDir /\ session' = session /\ runs' = runs
    BY <1>2 DEF Mark
  <2>5. TypeOK'
    BY <2>1, <2>3, <2>4 DEF Inv, TypeOK, session, Running, Ended
  <2>6. Phase'
    <3>1. Len(batch') = 0 BY <2>2, <2>4 DEF session
    <3> QED BY <2>2, <2>3, <2>4, <3>1 DEF Inv, Phase, session
  <2>7. StateCoherent' /\ NoPoisonedCheckpoint'
    BY <2>4 DEF Inv, StateCoherent, NoPoisonedCheckpoint, session
  <2> QED BY <2>4, <2>5, <2>6, <2>7 DEF Inv, session
<1> QED BY <1>1, <1>2

(* Every step of the system keeps the invariant.                           *)
LEMMA NextInv == Inv /\ [Next]_trainVars => Inv'
<1> SUFFICES ASSUME Inv, [Next]_trainVars PROVE Inv' OBVIOUS
<1>1. outputDir \in BOOLEAN BY DEF Inv, TypeOK
<1>2. ASSUME NEW c \in Configs, StartFresh(c) PROVE Inv'
  BY <1>2, StartInv
<1>3. ASSUME NEW c \in Configs, NEW s \in StepRange, Resume(c, s) PROVE Inv'
  BY <1>3, ResumeInv
<1>4. CASE NextFrame BY <1>4, NextFrameInv
<1>5. CASE StepFails
  BY <1>1, <1>5, EndInv DEF StepFails, disk, Ended
<1>6. ASSUME NEW good \in BOOLEAN, Update(good) PROVE Inv'
  <2>1. CASE good
    BY <1>6, <2>1, TrainedInv DEF Update
  <2>2. CASE ~good
    BY <1>1, <1>6, <2>2, EndInv DEF Update, disk, Ended
  <2> QED BY <2>1, <2>2
<1>7. CASE Save BY <1>7, SaveInv
<1>8. CASE SaveFails BY <1>1, <1>8, EndInv DEF SaveFails, Ended
<1>9. CASE Unmark \/ Mark BY <1>9, MarkerInv
<1>10. CASE MarkFails BY <1>1, <1>10, EndInv DEF MarkFails, disk, Ended
<1>11. CASE Crash
  <2>1. outputDir' \in BOOLEAN BY <1>1, <1>11 DEF Crash
  <2> QED BY <1>11, <2>1, EndInv DEF Crash, Ended
<1>12. CASE UNCHANGED trainVars
  BY <1>12 DEF trainVars, disk, session, Inv, TypeOK, Phase, StateCoherent,
            NoPoisonedCheckpoint
<1> QED BY <1>2, <1>3, <1>4, <1>5, <1>6, <1>7, <1>8, <1>9, <1>10, <1>11, <1>12
     DEF Next

(* The invariant holds throughout.                                         *)
LEMMA TrainingInvariant == Spec => []Inv
<1> QED BY InitInv, NextInv, PTL DEF Spec

(* Type correctness of the training loop and everything it saves.          *)
THEOREM TrainingTypeCorrect == Spec => []TypeOK
<1>1. Inv => TypeOK BY DEF Inv
<1> QED BY <1>1, TrainingInvariant, PTL

(* What `restore` reads back always belongs together: the step number, the *)
(* optimizer's moments and the generator.                                  *)
THEOREM CheckpointsCoherent == Spec => []StateCoherent
<1>1. Inv => StateCoherent BY DEF Inv
<1> QED BY <1>1, TrainingInvariant, PTL

(* Weights that are not finite are never saved.                            *)
THEOREM CheckpointsFinite == Spec => []NoPoisonedCheckpoint
<1>1. Inv => NoPoisonedCheckpoint BY DEF Inv
<1> QED BY <1>1, TrainingInvariant, PTL

(* `next_batch`'s "the sampler yielded an empty epoch" is unreachable, for *)
(* every dataset size and every batch size, changed at a resume or not.    *)
THEOREM EpochNeverEmpty == Spec => []NeverStarved
<1>1. Inv => NeverStarved BY DEF Inv, NeverStarved
<1> QED BY <1>1, TrainingInvariant, PTL

-------------------------------------------------------------------------------
(* Exact resumption, when one batch size divides the epoch                 *)

(* Every epoch is K batches of B frames, whatever configuration is used.   *)
EvenBatches(B, K) ==
  /\ NumFrames = K * B
  /\ \A c \in Configs : c.batch_size = B

(* The place in the uninterrupted run of the next frame to be drawn.       *)
Positioned ==
  IF IsExhausted(queue)
  THEN sampler.epoch * NumFrames + sampler.start = Len(model) + Len(batch)
  ELSE /\ sampler.epoch = queue.epoch + 1 /\ sampler.start = 0
       /\ queue.epoch * NumFrames + queue.next = Len(model) + Len(batch)

(* What is saved, and what the session has read, is a prefix of that run.  *)
Prefix(m, s, B) == Len(m) = s * B /\ InOrder(m, 0)

SampleInv(B) ==
  /\ \A s \in StepRange : saved[s] # Absent =>
       saved[s].batch_size = B /\ Prefix(saved[s].model, s, B)
  /\ Prefix(model, step, B)
  /\ InOrder(batch, Len(model))
  /\ Positioned

(* compute_sampler_state inverts the division into batches.                *)
LEMMA SamplerStateExact ==
  ASSUME NEW B \in Nat \ {0}, NEW K \in Nat \ {0}, EvenBatches(B, K),
         NEW s \in Nat
  PROVE  ComputeSamplerState(s, B).epoch * NumFrames
           + ComputeSamplerState(s, B).start = s * B
<1> DEFINE q == (NumFrames + B - 1) \div B
           e == s \div K
           r == s % K
<1>1. NumFrames = K * B /\ NumFrames \in Nat \ {0}
  BY TrainingAssumption DEF EvenBatches
<1>2. q \in Nat /\ q * B <= NumFrames + B - 1 /\ NumFrames + B - 1 < q * B + B
  BY <1>1, SMTT(30)
<1>3. q = K
  <2>1. q * B \in Nat /\ K * B \in Nat /\ (q + 1) * B = q * B + B /\ (K + 1) * B = K * B + B
    BY <1>2
  <2> HIDE DEF q
  <2>2. q < K => (q + 1) * B <= K * B
    BY <1>2, ProductMonotone
  <2>3. K < q => (K + 1) * B <= q * B
    BY <1>2, ProductMonotone
  <2> QED BY <1>1, <1>2, <2>1, <2>2, <2>3
<1> HIDE DEF q
<1>4. BatchesPerEpoch(B) = K
  BY <1>3 DEF BatchesPerEpoch, q
<1>5. e \in Nat /\ r \in 0..K - 1 /\ s = e * K + r
  BY SMTT(30)
<1> HIDE DEF e, r
<1>6. r * B < NumFrames
  <2>1. r * B <= (K - 1) * B BY <1>5, ProductMonotone
  <2>2. (K - 1) * B = K * B - B /\ K * B \in Nat /\ r * B \in Nat
    BY <1>5, SMTT(30)
  <2> QED BY <1>1, <2>1, <2>2
<1>7. ComputeSamplerState(s, B) = [epoch |-> e, start |-> r * B]
  <2>1. LesserOf(r * B, NumFrames) = r * B BY <1>6 DEF LesserOf
  <2> QED BY <1>4, <2>1 DEF ComputeSamplerState, e, r
<1>8. e * (K * B) + r * B = (e * K + r) * B
  BY <1>5, SMTT(30)
<1> QED BY <1>1, <1>5, <1>7, <1>8

(* Without a session nothing has been trained on.                          *)
LEMMA NoSessionSample ==
  ASSUME NEW B \in Nat \ {0}, SampleInv(B), NoSession, saved' = saved
  PROVE  SampleInv(B)'
<1>1. /\ sampler' = [epoch |-> 0, start |-> 0] /\ queue' = ExhaustedQueue
      /\ batch' = <<>> /\ model' = <<>> /\ step' = 0
  BY DEF NoSession
<1>2. Len(<<>>) = 0 OBVIOUS
<1>3. 0 * B = 0 /\ 0 * NumFrames + 0 = 0 BY TrainingAssumption
<1>4. Positioned'
  BY <1>1, <1>2, <1>3 DEF Positioned, ExhaustedQueue, IsExhausted
<1>5. Prefix(model, step, B)' /\ InOrder(batch, Len(model))'
  BY <1>1, <1>2, <1>3 DEF Prefix, InOrder
<1> QED BY <1>4, <1>5 DEF SampleInv

(* A resumed session continues at the place its checkpoint had reached.    *)
LEMMA ResumeSample ==
  ASSUME NEW B \in Nat \ {0}, NEW K \in Nat \ {0}, EvenBatches(B, K),
         Inv, SampleInv(B), NEW c \in Configs, NEW s \in StepRange, Resume(c, s)
  PROVE  SampleInv(B)'
<1>1. saved[s] # Absent /\ saved[s].step = s /\ s \in Nat
  BY TrainingAssumption DEF Resume, Inv, StateCoherent, StepRange
<1>2. saved[s].batch_size = B /\ Prefix(saved[s].model, s, B)
  BY <1>1 DEF SampleInv
<1>3. /\ sampler' = ComputeSamplerState(s, B) /\ queue' = ExhaustedQueue
      /\ batch' = <<>> /\ model' = saved[s].model /\ step' = s /\ saved' = saved
  BY <1>1, <1>2 DEF Resume, disk
<1>4. Len(batch') = 0 BY <1>3
<1>5. Len(model') = s * B BY <1>2, <1>3 DEF Prefix
<1>6. s * B \in Nat BY <1>1
<1>7. sampler'.epoch * NumFrames + sampler'.start = s * B
  BY <1>1, <1>3, SamplerStateExact
<1>8. Positioned'
  BY <1>3, <1>4, <1>5, <1>6, <1>7 DEF Positioned, ExhaustedQueue, IsExhausted
<1>9. InOrder(batch, Len(model))' BY <1>3, <1>4 DEF InOrder
<1> QED BY <1>2, <1>3, <1>8, <1>9 DEF SampleInv

(* The frame drawn is the one whose turn it is.                            *)
LEMMA NextFrameSample ==
  ASSUME NEW B \in Nat \ {0}, Inv, SampleInv(B), NextFrame
  PROVE  SampleInv(B)'
<1> DEFINE e == IF IsExhausted(queue) THEN sampler.epoch ELSE queue.epoch
           p == IF IsExhausted(queue) THEN sampler.start ELSE queue.next
           frame == [epoch |-> e, position |-> p]
           at == Len(model) + Len(batch)
<1>1. /\ batch' = Append(batch, frame)
      /\ queue' = [epoch |-> e, next |-> p + 1]
      /\ saved' = saved /\ model' = model /\ step' = step
      /\ sampler' = IF IsExhausted(queue)
                    THEN [epoch |-> sampler.epoch + 1, start |-> 0] ELSE sampler
  BY NextFrameInv
<1>2. /\ sampler.epoch \in Nat /\ sampler.start \in 0..NumFrames
      /\ sampler.start < NumFrames
      /\ queue.epoch \in Nat /\ queue.next \in 0..NumFrames
      /\ NumFrames \in Nat \ {0}
  BY TrainingAssumption DEF Inv, TypeOK
<1>3. e \in Nat /\ p \in 0..NumFrames - 1
  BY <1>2 DEF IsExhausted
<1>4. e * NumFrames + p = at
  BY DEF SampleInv, Positioned
<1>5. sampler'.epoch = e + 1 /\ sampler'.start = 0
  BY <1>1 DEF SampleInv, Positioned
<1>6. frame.epoch = e /\ frame.position = p OBVIOUS
<1>7. batch \in Seq(Samples) /\ Len(batch) \in Nat /\ Len(model) \in Nat
  BY DEF Inv, TypeOK
<1> HIDE DEF e, p, frame
<1>8. /\ Len(batch') = Len(batch) + 1
      /\ \A i \in 1..Len(batch) : batch'[i] = batch[i]
      /\ batch'[Len(batch) + 1] = frame
  BY <1>1, <1>7, AppendProperties
<1>9. InOrder(batch, Len(model))'
  <2> SUFFICES ASSUME NEW i \in 1..Len(batch')
               PROVE  batch'[i].epoch * NumFrames + batch'[i].position = Len(model) + i - 1
    BY <1>1 DEF InOrder
  <2>1. CASE i \in 1..Len(batch)
    BY <1>8, <2>1 DEF SampleInv, InOrder
  <2>2. CASE i = Len(batch) + 1
    BY <1>4, <1>6, <1>7, <1>8, <2>2
  <2> QED BY <1>7, <1>8, <2>1, <2>2
<1>10. Positioned'
  <2>1. Len(model') + Len(batch') = at + 1 BY <1>1, <1>7, <1>8
  <2>2. queue'.epoch = e /\ queue'.next = p + 1 BY <1>1
  <2>3. e * NumFrames \in Nat /\ (e + 1) * NumFrames = e * NumFrames + NumFrames
    BY <1>2, <1>3, SMTT(30)
  <2>4. at \in Nat BY <1>7
  <2> HIDE DEF at
  <2>5. CASE p + 1 = NumFrames
    <3>1. (e + 1) * NumFrames + 0 = at + 1 BY <1>2, <1>3, <1>4, <2>3, <2>4, <2>5
    <3> QED BY <1>5, <2>1, <2>2, <2>5, <3>1 DEF Positioned, IsExhausted
  <2>6. CASE p + 1 # NumFrames
    <3>1. e * NumFrames + (p + 1) = at + 1 BY <1>2, <1>3, <1>4, <2>3, <2>4
    <3> QED BY <1>5, <2>1, <2>2, <2>6, <3>1 DEF Positioned, IsExhausted
  <2> QED BY <2>5, <2>6
<1> QED BY <1>1, <1>9, <1>10 DEF SampleInv

(* A full batch extends what the weights have been trained on.             *)
LEMMA TrainedSample ==
  ASSUME NEW B \in Nat \ {0}, NEW K \in Nat \ {0}, EvenBatches(B, K),
         Inv, SampleInv(B), pc = "update", Trained(TRUE), saved' = saved
  PROVE  SampleInv(B)'
<1>1. /\ step' = step + 1 /\ model' = model \o batch /\ batch' = <<>>
      /\ sampler' = sampler /\ queue' = queue
  BY DEF Trained
<1>2. Len(batch) = B
  BY DEF Inv, TypeOK, Phase, EvenBatches
<1>3. /\ model \in Seq(Samples) /\ batch \in Seq(Samples)
      /\ Len(model) \in Nat /\ Len(batch) \in Nat /\ step \in Nat
  BY TrainingAssumption DEF Inv, TypeOK
<1>4. /\ Len(model') = Len(model) + Len(batch)
      /\ \A i \in 1..Len(model') :
           model'[i] = IF i <= Len(model) THEN model[i] ELSE batch[i - Len(model)]
  BY <1>1, <1>3, ConcatProperties
<1>5. InOrder(model', 0)
  <2> SUFFICES ASSUME NEW i \in 1..Len(model')
               PROVE  model'[i].epoch * NumFrames + model'[i].position = 0 + i - 1
    BY DEF InOrder
  <2>1. CASE i <= Len(model)
    <3>1. i \in 1..Len(model) BY <2>1, <1>3
    <3> QED BY <1>4, <2>1, <3>1 DEF SampleInv, Prefix, InOrder
  <2>2. CASE ~(i <= Len(model))
    <3>1. i - Len(model) \in 1..Len(batch) BY <1>3, <1>4, <2>2
    <3>2. model'[i] = batch[i - Len(model)] BY <1>4, <2>2
    <3>3. batch[i - Len(model)].epoch * NumFrames + batch[i - Len(model)].position
            = Len(model) + (i - Len(model)) - 1
      BY <3>1 DEF SampleInv, InOrder
    <3>4. Len(model) + (i - Len(model)) - 1 = 0 + i - 1 BY <1>3, <1>4
    <3> QED BY <3>2, <3>3, <3>4
  <2> QED BY <2>1, <2>2
<1>6. Len(model') = step' * B
  <2>1. (step + 1) * B = step * B + B BY <1>3, SMTT(30)
  <2> QED BY <1>1, <1>2, <1>4, <2>1 DEF SampleInv, Prefix
<1>7. Len(batch') = 0 BY <1>1
<1>8. Positioned'
  <2>1. Len(model') + Len(batch') = Len(model) + Len(batch) BY <1>3, <1>4, <1>7
  <2> QED BY <1>1, <2>1 DEF SampleInv, Positioned
<1>9. InOrder(batch, Len(model))' BY <1>7 DEF InOrder
<1> QED BY <1>5, <1>6, <1>8, <1>9 DEF SampleInv, Prefix

(* Publishing changes no session, and copies the weights it has.           *)
LEMMA SaveSample ==
  ASSUME NEW B \in Nat \ {0}, NEW K \in Nat \ {0}, EvenBatches(B, K),
         Inv, SampleInv(B), Save
  PROVE  SampleInv(B)'
<1> DEFINE cp == CheckpointNow
<1>1. cp.batch_size = B /\ cp.model = model
  BY DEF CheckpointNow, Inv, TypeOK, EvenBatches
<1> HIDE DEF cp
<1>2. /\ \A s \in StepRange : saved'[s] = IF s = step THEN cp ELSE saved[s]
      /\ session' = session
  BY DEF Save, Inv, TypeOK, cp
<1>3. ASSUME NEW s \in StepRange, saved'[s] # Absent
      PROVE  saved'[s].batch_size = B /\ Prefix(saved'[s].model, s, B)
  <2>1. CASE s = step BY <1>1, <1>2, <2>1 DEF SampleInv
  <2>2. CASE s # step
    <3>1. saved'[s] = saved[s] BY <1>2, <2>2
    <3> QED BY <1>3, <3>1 DEF SampleInv
  <2> QED BY <2>1, <2>2
<1>4. /\ model' = model /\ step' = step /\ batch' = batch /\ queue' = queue
      /\ sampler' = sampler
  BY <1>2 DEF session
<1> QED BY <1>3, <1>4 DEF SampleInv, Positioned

(* Every step keeps the sample positions exact.                            *)
LEMMA NextSample ==
  ASSUME NEW B \in Nat \ {0}, NEW K \in Nat \ {0}, EvenBatches(B, K)
  PROVE  Inv /\ SampleInv(B) /\ [Next]_trainVars => SampleInv(B)'
<1> SUFFICES ASSUME Inv, SampleInv(B), [Next]_trainVars PROVE SampleInv(B)'
  OBVIOUS
<1>1. ASSUME NEW c \in Configs, StartFresh(c) PROVE SampleInv(B)'
  BY <1>1, NoSessionSample DEF StartFresh, disk
<1>2. ASSUME NEW c \in Configs, NEW s \in StepRange, Resume(c, s)
      PROVE  SampleInv(B)'
  BY <1>2, ResumeSample
<1>3. CASE NextFrame BY <1>3, NextFrameSample
<1>4. CASE StepFails BY <1>4, NoSessionSample DEF StepFails, End, disk
<1>5. ASSUME NEW good \in BOOLEAN, Update(good) PROVE SampleInv(B)'
  <2>1. CASE good BY <1>5, <2>1, TrainedSample DEF Update, disk
  <2>2. CASE ~good BY <1>5, <2>2, NoSessionSample DEF Update, End, disk
  <2> QED BY <2>1, <2>2
<1>6. CASE Save BY <1>6, SaveSample
<1>7. CASE SaveFails BY <1>7, NoSessionSample DEF SaveFails, End
<1>8. CASE Unmark \/ Mark \/ UNCHANGED trainVars
  <2>1. /\ saved' = saved /\ model' = model /\ step' = step /\ batch' = batch
        /\ queue' = queue /\ sampler' = sampler
    BY <1>8 DEF Unmark, Mark, trainVars, disk, session
  <2> QED BY <2>1 DEF SampleInv, Positioned
<1>9. CASE MarkFails BY <1>9, NoSessionSample DEF MarkFails, End, disk
<1>10. CASE Crash BY <1>10, NoSessionSample DEF Crash, End
<1> QED BY <1>1, <1>2, <1>3, <1>4, <1>5, <1>6, <1>7, <1>8, <1>9, <1>10 DEF Next

(* When one batch size is used throughout and divides the number of        *)
(* frames, then through any number of failures, kills and resumes, from    *)
(* the newest checkpoint or an older one, the weights are trained on       *)
(* exactly the frames of an uninterrupted run: `restore` and               *)
(* `compute_sampler_state` skip none and repeat none.                      *)
THEOREM ResumeIsSampleExact ==
  ASSUME NEW B \in Nat \ {0}, NEW K \in Nat \ {0}, EvenBatches(B, K)
  PROVE  Spec => []SampleExact
<1>1. Init => SampleInv(B)
  <2> SUFFICES ASSUME Init PROVE SampleInv(B) OBVIOUS
  <2>1. Len(<<>>) = 0 OBVIOUS
  <2>2. 0 * B = 0 /\ 0 * NumFrames + 0 = 0 BY TrainingAssumption
  <2>3. Positioned
    BY <2>1, <2>2 DEF Init, Positioned, ExhaustedQueue, IsExhausted
  <2>4. Prefix(model, step, B) /\ InOrder(batch, Len(model))
    BY <2>1, <2>2 DEF Init, Prefix, InOrder
  <2> QED BY <2>3, <2>4 DEF Init, SampleInv
<1>2. Inv /\ SampleInv(B) /\ [Next]_trainVars => SampleInv(B)'
  BY NextSample
<1>3. SampleInv(B) => SampleExact
  BY DEF SampleInv, Prefix, SampleExact
<1> QED BY <1>1, <1>2, <1>3, TrainingInvariant, PTL DEF Spec

-------------------------------------------------------------------------------
(* What a run leaves behind                                                *)

Active == Running \cup {"done"}
Passed == IF pc = "save" THEN step - 1 ELSE step
IsDue(s) == s \in resumeStep + 1..Passed /\ ShouldSave(config, s)

KeptInv ==
  /\ ~outputDir => \A s \in StepRange : saved[s] = Absent
  /\ pc \in Active => (resumeStep \in StepRange => saved[resumeStep] # Absent)
  /\ pc \in Active => (resumeStep = 0 =>
       \A s \in StepRange : s > Passed => saved[s] = Absent)
  /\ pc \in {"save", "unmark", "mark"} => step > resumeStep
  /\ pc \in Active => \A s \in StepRange : IsDue(s) => saved[s] # Absent
  /\ pc \in Active \ {"unmark", "mark"} => \A s \in StepRange :
       IsDue(s) /\ (\A t \in StepRange : IsDue(t) => t <= s) => last = s

(* A run that ends leaves the disk as it is.                               *)
LEMMA EndKept ==
  ASSUME KeptInv, pc' \in {"down", "failed"}, saved' = saved,
         outputDir => outputDir'
  PROVE  KeptInv'
BY DEF KeptInv, Active, Running

(* A step that changes neither the disk nor what is due.                   *)
LEMMA SameDue ==
  ASSUME KeptInv, UNCHANGED disk, pc \in Active \ {"unmark", "mark"},
         pc' \in Active \ {"unmark", "mark"},
         resumeStep' = resumeStep, Passed' >= Passed,
         Passed \in Int, Passed' \in Int,
         pc' = "save" => step' > resumeStep',
         \A s \in StepRange : IsDue(s)' <=> IsDue(s)
  PROVE  KeptInv'
<1>1. saved' = saved /\ last' = last /\ outputDir' = outputDir BY DEF disk
<1>2. resumeStep' = 0 =>
       \A s \in StepRange : s > Passed' => saved'[s] = Absent
  BY <1>1, TrainingAssumption DEF KeptInv, StepRange
<1>3. \A s \in StepRange : IsDue(s)' => saved'[s] # Absent
  BY <1>1 DEF KeptInv
<1>4. \A s \in StepRange :
        IsDue(s)' /\ (\A t \in StepRange : IsDue(t)' => t <= s) => last' = s
  BY <1>1 DEF KeptInv
<1> HIDE DEF IsDue, Passed
<1> QED BY <1>1, <1>2, <1>3, <1>4 DEF KeptInv

(* Every step keeps it.                                                    *)
LEMMA NextKept == Inv /\ KeptInv /\ [Next]_trainVars => KeptInv'
<1> SUFFICES ASSUME Inv, KeptInv, [Next]_trainVars PROVE KeptInv' OBVIOUS
<1> USE TrainingAssumption
<1>1. ASSUME NEW c \in Configs, StartFresh(c) PROVE KeptInv'
  <2>1. /\ saved' = saved /\ outputDir' = outputDir /\ ~outputDir
        /\ step' = 0 /\ resumeStep' = 0 /\ pc' = "draw"
    BY <1>1 DEF StartFresh, NoSession, disk
  <2>2. \A s \in StepRange : ~IsDue(s)'
    BY <2>1 DEF IsDue, Passed, StepRange
  <2> QED BY <2>1, <2>2 DEF KeptInv, StepRange
<1>2. ASSUME NEW c \in Configs, NEW s \in StepRange, Resume(c, s) PROVE KeptInv'
  <2>1. saved[s].step = s /\ saved[s] # Absent BY <1>2 DEF Inv, StateCoherent, Resume
  <2>2. /\ saved' = saved /\ outputDir' = outputDir
        /\ step' = s /\ resumeStep' = s /\ pc' \in {"draw", "done"}
    BY <1>2, <2>1 DEF Resume, disk
  <2>3. \A t \in StepRange : ~IsDue(t)'
    BY <2>2 DEF IsDue, Passed, StepRange
  <2> QED BY <2>1, <2>2, <2>3 DEF KeptInv, StepRange
<1>3. CASE NextFrame
  <2>1. /\ UNCHANGED <<saved, last, outputDir, config, resumeStep, step>>
        /\ pc = "draw" /\ pc' \in {"draw", "update"}
    BY <1>3, NextFrameInv
  <2>2. Passed' = Passed /\ Passed \in Int
    BY <2>1 DEF Passed, Inv, TypeOK
  <2>3. \A s \in StepRange : IsDue(s)' <=> IsDue(s) BY <2>1, <2>2 DEF IsDue
  <2> QED BY <2>1, <2>2, <2>3, SameDue DEF disk, Active, Running
<1>4. CASE StepFails BY <1>4, EndKept DEF StepFails, End, disk
<1>5. ASSUME NEW good \in BOOLEAN, Update(good) PROVE KeptInv'
  <2>1. CASE ~good BY <1>5, <2>1, EndKept DEF Update, End, disk
  <2>2. CASE good
    <3>1. /\ pc = "update" /\ step' = step + 1 /\ config' = config
          /\ resumeStep' = resumeStep /\ UNCHANGED disk
          /\ pc' = IF ShouldSave(config, step + 1) THEN "save" ELSE AfterStep(step + 1)
      BY <1>5, <2>2 DEF Update, Trained
    <3>2. step \in Nat /\ resumeStep \in Nat /\ resumeStep <= step
      BY DEF Inv, TypeOK, Phase
    <3>3. pc' \in {"save", "draw", "done"} BY <3>1 DEF AfterStep
    <3>4. Passed = step /\ Passed' \in {step, step + 1}
      BY <3>1, <3>2 DEF Passed
    <3>5. Passed' = step + 1 => ~ShouldSave(config, step + 1)
      BY <3>1, <3>2 DEF Passed
    <3>6. \A s \in StepRange : IsDue(s)' <=> IsDue(s)
      BY <3>1, <3>2, <3>4, <3>5 DEF IsDue, StepRange
    <3> QED BY <3>1, <3>2, <3>3, <3>4, <3>6, SameDue DEF Active, Running
  <2> QED BY <2>1, <2>2
<1>6. CASE Save
  <2>1. /\ pc = "save" /\ pc' = "unmark" /\ outputDir' = TRUE
        /\ resumeStep' = resumeStep /\ step' = step /\ config' = config
        /\ saved' = [saved EXCEPT ![step] = CheckpointNow]
    BY <1>6 DEF Save, session
  <2>2. /\ step \in StepRange /\ step \in Nat /\ resumeStep \in Nat
        /\ step > resumeStep
    BY <2>1 DEF Inv, TypeOK, Phase, KeptInv
  <2>3. CheckpointNow \in Checkpoints
    <3>1. finite /\ config.batch_size \in Nat \ {0} BY DEF Inv, TypeOK, Phase
    <3> QED BY <2>2, <3>1 DEF Inv, TypeOK, CheckpointNow, Checkpoints
  <2>4. CheckpointNow # Absent BY <2>3
  <2> HIDE DEF CheckpointNow
  <2>5. \A s \in StepRange : saved'[s] = IF s = step THEN CheckpointNow ELSE saved[s]
    BY <2>1 DEF Inv, TypeOK
  <2>6. Passed = step - 1 /\ Passed' = step BY <2>1 DEF Passed
  <2>7. \A s \in StepRange : IsDue(s)' => s = step \/ IsDue(s)
    BY <2>1, <2>2, <2>6 DEF IsDue, StepRange
  <2>8. \A s \in StepRange : IsDue(s)' => saved'[s] # Absent
    BY <2>1, <2>4, <2>5, <2>7 DEF KeptInv, Active, Running
  <2>9. resumeStep' \in StepRange => saved'[resumeStep'] # Absent
    BY <2>1, <2>2, <2>5 DEF KeptInv, Active, Running
  <2>10. resumeStep' = 0 => \A s \in StepRange : s > Passed' => saved'[s] = Absent
    BY <2>1, <2>2, <2>5, <2>6 DEF KeptInv, Active, Running, StepRange
  <2>11. step' > resumeStep' BY <2>1, <2>2
  <2> QED BY <2>1, <2>8, <2>9, <2>10, <2>11 DEF KeptInv
<1>7. CASE SaveFails
  <2>1. outputDir' = outputDir \/ outputDir' = TRUE BY <1>7 DEF SaveFails
  <2>2. outputDir => outputDir'
    <3>1. CASE outputDir' = outputDir BY <3>1
    <3>2. CASE outputDir' = TRUE BY <3>2
    <3> QED BY <2>1, <3>1, <3>2
  <2> QED BY <1>7, <2>2, EndKept DEF SaveFails, End
<1>8. CASE Unmark
  <2>1. /\ pc = "unmark" /\ pc' = "mark" /\ saved' = saved /\ outputDir' = outputDir
        /\ resumeStep' = resumeStep /\ step' = step /\ config' = config
    BY <1>8 DEF Unmark, session
  <2>2. Passed' = Passed BY <2>1 DEF Passed
  <2>3. \A s \in StepRange : IsDue(s)' <=> IsDue(s) BY <2>1, <2>2 DEF IsDue
  <2> HIDE DEF Passed, IsDue
  <2> QED BY <2>1, <2>2, <2>3 DEF KeptInv, Active, Running
<1>9. CASE Mark
  <2>1. /\ pc = "mark" /\ pc' \in {"draw", "done"} /\ saved' = saved
        /\ outputDir' = outputDir /\ last' = step
        /\ resumeStep' = resumeStep /\ step' = step /\ config' = config
    BY <1>9 DEF Mark, session, AfterStep
  <2>2. step \in StepRange /\ step > resumeStep /\ ShouldSave(config, step)
        /\ resumeStep \in Nat
    BY <2>1 DEF Inv, TypeOK, Phase, KeptInv
  <2>3. Passed' = step /\ Passed = step BY <2>1 DEF Passed
  <2>4. \A s \in StepRange : IsDue(s)' <=> IsDue(s) BY <2>1, <2>3 DEF IsDue
  <2>5. IsDue(step)' BY <2>1, <2>2, <2>3 DEF IsDue, StepRange
  <2>6. \A s \in StepRange :
          IsDue(s)' /\ (\A t \in StepRange : IsDue(t)' => t <= s) => last' = s
    <3> SUFFICES ASSUME NEW s \in StepRange, IsDue(s)', step <= s PROVE step = s
      BY <2>1, <2>2, <2>5
    <3> QED BY <2>2, <2>3 DEF IsDue, StepRange
  <2> HIDE DEF Passed, IsDue
  <2>7. Passed' = Passed BY <2>3
  <2> QED BY <2>1, <2>4, <2>6, <2>7 DEF KeptInv, Active, Running
<1>10. CASE MarkFails BY <1>10, EndKept DEF MarkFails, End, disk
<1>11. CASE Crash
  <2>1. outputDir => outputDir' BY <1>11 DEF Crash
  <2> QED BY <1>11, <2>1, EndKept DEF Crash, End
<1>12. CASE UNCHANGED trainVars
  <2>1. /\ pc' = pc /\ saved' = saved /\ outputDir' = outputDir /\ last' = last
        /\ resumeStep' = resumeStep /\ step' = step /\ config' = config
    BY <1>12 DEF trainVars, disk, session
  <2>2. Passed' = Passed BY <2>1 DEF Passed
  <2>3. \A s \in StepRange : IsDue(s)' <=> IsDue(s) BY <2>1, <2>2 DEF IsDue
  <2> HIDE DEF Passed, IsDue
  <2> QED BY <2>1, <2>2, <2>3 DEF KeptInv
<1> QED BY <1>1, <1>2, <1>3, <1>4, <1>5, <1>6, <1>7, <1>8, <1>9, <1>10, <1>11, <1>12
     DEF Next

(* It holds throughout.                                                    *)
LEMMA KeptInvariant == Spec => [](Inv /\ KeptInv)
<1>1. Init => KeptInv
  <2> SUFFICES ASSUME Init PROVE KeptInv OBVIOUS
  <2>1. pc = "down" /\ \A s \in StepRange : saved[s] = Absent BY DEF Init
  <2> QED BY <2>1 DEF KeptInv, Active, Running
<1> QED BY <1>1, InitInv, NextInv, NextKept, PTL DEF Spec

(* A running process has published every checkpoint that was due since it  *)
(* started, and `last` names the newest, whatever happened to earlier runs.*)
THEOREM ProgressIsKept == Spec => []ProgressKept
<1>1. Inv /\ KeptInv => ProgressKept
  <2> SUFFICES ASSUME Inv, KeptInv PROVE ProgressKept OBVIOUS
  <2> DEFINE passed == IF pc = "save" THEN step - 1 ELSE step
             due == {s \in resumeStep + 1..passed : ShouldSave(config, s)}
  <2>1. step \in 0..MaxStep /\ resumeStep \in 0..MaxStep /\ MaxStep \in Nat
    BY TrainingAssumption DEF Inv, TypeOK
  <2>2. \A s : s \in due <=> s \in StepRange /\ IsDue(s)
    BY <2>1 DEF IsDue, Passed, StepRange
  <2> HIDE DEF due
  <2>3. pc \in {"draw", "update", "save", "done"} =>
          /\ \A s \in due : saved[s] # Absent
          /\ \A s \in due : (\A t \in due : t <= s) => last = s
    BY <2>2 DEF KeptInv, Active, Running
  <2> QED BY <2>3 DEF ProgressKept, due
<1> QED BY <1>1, KeptInvariant, PTL

(* A run that reaches its last step leaves it saved and marked.            *)
THEOREM FinishedIsSaved == Spec => []FinishedMeansSaved
<1>1. Inv /\ KeptInv => FinishedMeansSaved
  <2> SUFFICES ASSUME Inv, KeptInv, pc = "done", config.save_checkpoint,
                      step = config.steps
               PROVE  saved[step] # Absent /\ (step > resumeStep => last = step)
    BY DEF FinishedMeansSaved
  <2>1. step \in StepRange /\ resumeStep \in Nat /\ resumeStep <= step
    BY TrainingAssumption DEF Inv, TypeOK, Phase, StepRange
  <2>2. CASE step = resumeStep
    BY <2>1, <2>2 DEF KeptInv, Active, StepRange
  <2>3. CASE step > resumeStep
    <3>1. IsDue(step)
      BY <2>1, <2>3 DEF IsDue, Passed, ShouldSave, StepRange
    <3>2. \A t \in StepRange : IsDue(t) => t <= step
      BY <2>1 DEF IsDue, Passed, StepRange
    <3> QED BY <2>1, <3>1, <3>2 DEF KeptInv, Active
  <2> QED BY <2>1, <2>2, <2>3 DEF StepRange
<1> QED BY <1>1, KeptInvariant, PTL

(* A run that was started afresh never finds a checkpoint in its way.      *)
THEOREM FreshIsNeverRefused == Spec => []FreshNeverRefused
<1>1. Inv /\ KeptInv => FreshNeverRefused
  <2> SUFFICES ASSUME Inv, KeptInv, pc = "save", saved[step] # Absent
               PROVE  resumeStep > 0
    BY DEF FreshNeverRefused
  <2>1. step \in StepRange /\ step \in Nat /\ resumeStep \in Nat
    BY TrainingAssumption DEF Inv, TypeOK, Phase, StepRange
  <2>2. step > Passed BY <2>1 DEF Passed
  <2> QED BY <2>1, <2>2 DEF KeptInv, Active, Running
<1> QED BY <1>1, KeptInvariant, PTL

==============================================================================
