------------------------------ MODULE RingBuffer ------------------------------
(***************************************************************************)
(* RolloutRingBuffer of rerobot-core ring_buffer.rs: the newest frames of  *)
(* a rollout, bounded by a number of frames and by an estimate of their    *)
(* bytes.  The estimate takes no notice of frames that the frame bound     *)
(* drops, so that it drifts from what is buffered.                         *)
(*                                                                         *)
(* Abstracted: a frame is its place among the frames appended since the    *)
(* last drain, and what its values cost.  Operators named ...Slip are not  *)
(* the program.                                                            *)
(***************************************************************************)
EXTENDS Integers, FiniteSetsExt, Sequences, SequencesExt, Sums

CONSTANTS
  Capacities, \* [frames, bytes]: max_frames and max_bytes of a buffer
  Costs,      \* what the values of a frame may cost
  MaxAppends  \* bound: frames appended between two drains

ASSUME RingBufferAssumption ==
  /\ Capacities \subseteq [frames : Nat, bytes : Int]
  /\ Costs \subseteq Nat
  /\ MaxAppends \in Nat

VARIABLES
  capacity,
  ring,       \* oldest first: [number, cost]
  currentBytes,
  appended,     \* history: frames appended since the last drain or clear
  dropped       \* history: what the frames dropped by the frame bound cost

ringVars == <<capacity, ring, currentBytes, appended, dropped>>

(* estimate_frame_bytes                                                    *)
Estimate(frame) == IF frame.cost = 0 THEN 1 ELSE frame.cost

Frame == [number : 1..MaxAppends, cost : Costs]

BufferTypeOK ==
  /\ capacity \in Capacities
  /\ ring \in Seq(Frame)
  /\ currentBytes \in Nat
  /\ appended \in 0..MaxAppends
  /\ dropped \in Nat

BufferInit ==
  /\ capacity \in Capacities
  /\ ring = <<>>
  /\ currentBytes = 0
  /\ appended = 0
  /\ dropped = 0

BytesOf(frames) == SumOf([i \in DOMAIN frames |-> Estimate(frames[i])])

OverCap(bytes, frame) == bytes + Estimate(frame) > capacity.bytes

(* saturating_sub                                                          *)
Minus(a, b) == IF a > b THEN a - b ELSE 0

BytesWithout(n) == Minus(currentBytes, BytesOf(SubSeq(ring, 1, n)))

(* How many of the oldest frames go, for the estimate to leave room.       *)
Evicted(frame) ==
  Min({n \in 0..Len(ring) : n = Len(ring) \/ ~OverCap(BytesWithout(n), frame)})

(* deque(maxlen): at capacity the oldest goes, at zero everything.         *)
Pushed(frames, frame) ==
  IF capacity.frames = 0 THEN frames
  ELSE Append(IF Len(frames) = capacity.frames THEN Tail(frames) ELSE frames, frame)

DroppedBy(frames, frame) ==
  IF capacity.frames = 0 THEN Estimate(frame)
  ELSE IF Len(frames) = capacity.frames THEN Estimate(Head(frames)) ELSE 0

AppendFrame(cost) ==
  /\ appended < MaxAppends
  /\ LET frame == [number |-> appended + 1, cost |-> cost]
         kept  == SubSeq(ring, Evicted(frame) + 1, Len(ring))
     IN /\ ring' = Pushed(kept, frame)
        /\ currentBytes' = BytesWithout(Evicted(frame)) + Estimate(frame)
        /\ dropped' = dropped + DroppedBy(kept, frame)
  /\ appended' = appended + 1
  /\ UNCHANGED capacity

DrainSlip == \* the estimate is kept
  /\ ring' = <<>>
  /\ appended' = 0
  /\ dropped' = 0
  /\ UNCHANGED <<capacity, currentBytes>>

(* drain, clear                                                            *)
Drain ==
  /\ ring' = <<>>
  /\ currentBytes' = 0
  /\ appended' = 0
  /\ dropped' = 0
  /\ UNCHANGED capacity

BufferNext == (\E cost \in Costs : AppendFrame(cost)) \/ Drain

BufferSpec == BufferInit /\ [][BufferNext]_ringVars

-----------------------------------------------------------------------------
(* However long a rollout runs, both bounds hold, the second unless a      *)
(* single frame exceeds it, and the estimate of a buffer that holds any    *)
(* frames exceeds its bound by no more than the newest one: the dropped    *)
(* frames it never forgets stay within the bound.                          *)
DriftBounded ==
  /\ Len(ring) <= capacity.frames
  /\ Len(ring) > 1 => currentBytes <= capacity.bytes
  /\ capacity.frames > 0 =>
       /\ dropped <= Max({capacity.bytes, 0})
       /\ ring # <<>> => currentBytes <= Max({capacity.bytes, 0}) + Estimate(Last(ring))

==============================================================================
