--------------------------- MODULE InferenceProofs ---------------------------
(***************************************************************************)
(* Proofs about Inference, for any dataset, any division of it into        *)
(* episodes, any chunk size and number of action steps: what every action  *)
(* is made of.                                                             *)
(*                                                                         *)
(* The invariant says what the memory holds between two calls: the window  *)
(* of predictions of every future frame the last chunk reaches, or what is *)
(* left of the last chunk, relative to the first frame since the last      *)
(* reset; and, in a rollout, that this first frame is where the episode    *)
(* begins.                                                                 *)
(***************************************************************************)
EXTENDS Inference, SequenceTheorems, TLAPS

(* Arithmetic of the queue: the place of a below the next multiple b of s. *)
LEMMA ModBelow ==
  ASSUME NEW a \in Nat, NEW s \in Nat \ {0}, NEW b \in Nat, a < b, b < a + s, b % s = 0
  PROVE  a % s = s - (b - a)
<1> DEFINE r == b - a
<1>0. r \in Nat /\ 0 < r /\ r < s /\ a + r = b
  OBVIOUS
<1> HIDE DEF r
<1> DEFINE k == b \div s
<1>1. k \in Int /\ b = s * k
  BY SMTT(30)
<1> DEFINE q == a \div s
<1>2. q \in Int /\ a % s \in 0..s - 1 /\ a = s * q + (a % s)
  BY SMTT(30)
<1> DEFINE m == a % s
<1> HIDE DEF k, q, m
<1>3. s * (k - q) = r + m
  <2>1. m \in 0..s - 1 /\ a = s * q + m BY <1>2 DEF m
  <2> QED BY <1>0, <1>1, <1>2, <2>1, SMTT(30)
<1>4. m \in 0..s - 1
  BY <1>2 DEF m
<1>5. k - q = 1
  <2>1. s * (k - q) > 0 BY <1>0, <1>3, <1>4
  <2>2. s * (k - q) < 2 * s BY <1>0, <1>3, <1>4
  <2>3. k - q > 0 BY <2>1, <1>1, <1>2, SMTT(30)
  <2>4. k - q < 2 BY <2>2, <1>1, <1>2, SMTT(30)
  <2> QED BY <2>3, <2>4, <1>1, <1>2
<1>6. s = r + m
  BY <1>0, <1>3, <1>5, <1>1, <1>2
<1> QED
  BY <1>0, <1>6, <1>4 DEF m, r

LEMMA ModAgain ==
  ASSUME NEW a \in Nat, NEW s \in Nat \ {0}, a % s = 0
  PROVE  (a + s) % s = 0
<1> DEFINE k == a \div s
<1>1. k \in Int /\ a = s * k
  BY SMTT(30)
<1> DEFINE b == a + s
<1> DEFINE q == b \div s
<1> DEFINE m == b % s
<1>2. q \in Int /\ m \in 0..s - 1 /\ b = s * q + m
  BY SMTT(30)
<1> HIDE DEF k, q, m
<1>3. s * (k + 1 - q) = m
  BY <1>1, <1>2
<1>4. k + 1 - q = 0
  <2>1. ~(k + 1 - q >= 1) BY <1>1, <1>2, <1>3, SMTT(30)
  <2>2. ~(k + 1 - q <= -1) BY <1>1, <1>2, <1>3, SMTT(30)
  <2> QED BY <2>1, <2>2, <1>1, <1>2
<1>5. m = 0
  BY <1>3, <1>4, <1>1, <1>2
<1> QED
  BY <1>5 DEF m, b

(* A sequence without its first element.                                   *)
LEMMA TailIs ==
  ASSUME NEW S, NEW u \in Seq(S), Len(u) # 0
  PROVE  /\ Tail(u) \in Seq(S)
         /\ Len(Tail(u)) = Len(u) - 1
         /\ Tail(u) = [k \in 1 .. Len(u) - 1 |-> u[k + 1]]
<1>1. /\ Len(u) \in Nat /\ Tail(u) \in Seq(S) /\ Len(Tail(u)) = Len(u) - 1
      /\ DOMAIN Tail(u) = 1 .. Len(u) - 1
  OBVIOUS
<1>2. \A k \in 1 .. Len(u) - 1 : Tail(u)[k] = u[k + 1]
  OBVIOUS
<1> DEFINE t == [k \in 1 .. Len(u) - 1 |-> u[k + 1]]
<1>3. t \in Seq(S) /\ Len(t) = Len(u) - 1
  <2>1. \A k \in 1 .. Len(u) - 1 : u[k + 1] \in S
    BY <1>1
  <2> QED BY <1>1, <2>1
<1>4. \A k \in 1 .. Len(t) : t[k] = Tail(u)[k]
  BY <1>2, <1>3
<1>5. Tail(u) = t
  BY <1>1, <1>3, <1>4, SeqEqual
<1> QED
  BY <1>1, <1>5

-----------------------------------------------------------------------------
(***************************************************************************)
(* The memory                                                              *)
(***************************************************************************)
PolicyType(p) ==
  /\ p.queue \in Seq(Predictions)
  /\ p.history \in [1..C - 1 -> Seq(Predictions)] \cup {Absent}
  /\ p.counts \in Seq(Nat)

Accepts(p) ==
  p.history # Absent =>
    /\ DOMAIN p.counts = 1..C - 1
    /\ \A i \in 1..C - 1 : p.counts[i] = Len(p.history[i])
                           /\ p.counts[i] \in 1..C - i

Averages(p, first, next) ==
  p.history = [i \in 1..C - 1 |-> Window(first, next + i - 1, next - 1)]

Leftover(p, first, next) ==
  /\ Len(p.queue) < config.steps
  /\ (next - first + Len(p.queue)) % config.steps = 0
  /\ p.queue = [k \in 1..Len(p.queue) |->
                  [query  |-> next + Len(p.queue) - config.steps,
                   offset |-> config.steps - Len(p.queue) + k - 1]]

Memory(p, first, next) ==
  /\ config.temporal => Averages(p, first, next)
  /\ ~config.temporal => Leftover(p, first, next)

(* What the memory p is when the frames s were asked for since the last    *)
(* reset; a: in their order, and without a failure.                        *)
Sound(p, s, a) ==
  /\ PolicyType(p)
  /\ Accepts(p)
  /\ s \in [first : Frames, next : 1..NumFrames] \cup {Absent}
  /\ a \in BOOLEAN
  /\ s = Absent => p = Fresh
  /\ a /\ s # Absent => s.first < s.next /\ Memory(p, s.first, s.next)

LEMMA ConfigType ==
  ASSUME config \in Configs
  PROVE  /\ config.temporal \in BOOLEAN
         /\ C \in Nat \ {0}
         /\ config.steps \in 1..C
         /\ Absent \notin [1..C - 1 -> Seq(Predictions)]
  BY InferenceAssumption DEF C

(* A memory that was reset is sound, and one no call has touched.          *)
LEMMA FreshSound ==
  ASSUME NEW a \in BOOLEAN
  PROVE  Sound(Fresh, Absent, a)
  BY DEF Sound, Fresh, PolicyType, Accepts

(* One frame more in a window: the prediction for it made at frame g + 1.  *)
LEMMA WindowGrows ==
  ASSUME config \in Configs, NEW first \in Nat, NEW g \in Nat, NEW f \in Nat,
         first <= g, g < f, f - g <= C
  PROVE  /\ Window(first, f, g) \in Seq(Predictions)
         /\ Append(Window(first, f, g), [query |-> g + 1, offset |-> f - g - 1])
              = Window(first, f, g + 1)
<1> DEFINE oldest == IF f - first < C THEN first ELSE f - C + 1
<1>1. oldest \in Nat /\ oldest <= g + 1 /\ C \in Nat
  BY ConfigType
<1> DEFINE w(last) == [i \in 1 .. last - oldest + 1 |->
                        [query |-> oldest + i - 1, offset |-> f - oldest - i + 1]]
<1>2. \A last : Window(first, f, last) = w(last)
  BY DEF Window
<1> HIDE DEF oldest
<1>3. w(g) \in Seq(Predictions) /\ Len(w(g)) = g - oldest + 1
  <2>1. \A i \in 1 .. g - oldest + 1 :
          [query |-> oldest + i - 1, offset |-> f - oldest - i + 1] \in Predictions
    BY <1>1 DEF Predictions
  <2>2. g - oldest + 1 \in Nat
    BY <1>1
  <2> QED BY <2>1, <2>2
<1>4. Append(w(g), [query |-> g + 1, offset |-> f - g - 1]) = w(g + 1)
  <2> DEFINE e == [query |-> g + 1, offset |-> f - g - 1]
             n == g - oldest + 1
  <2>1. n \in Nat /\ w(g) = [i \in 1..n |-> w(g)[i]]
    BY <1>1
  <2>2. DOMAIN Append(w(g), e) = 1 .. n + 1
    BY <1>3, <2>1
  <2>3. ASSUME NEW i \in 1 .. n + 1 PROVE Append(w(g), e)[i] = w(g + 1)[i]
    <3>1. CASE i <= n
      BY <3>1, <1>1, <1>3, <2>1
    <3>2. CASE i = n + 1
      <4>1. Append(w(g), e)[i] = e BY <3>2, <1>3, <2>1
      <4>2. w(g + 1)[i] = [query |-> oldest + i - 1, offset |-> f - oldest - i + 1]
        BY <1>1, <2>1
      <4>3. oldest + i - 1 = g + 1 /\ f - oldest - i + 1 = f - g - 1
        BY <3>2, <1>1
      <4> HIDE DEF w, n
      <4> QED BY <4>1, <4>2, <4>3
    <3> QED BY <3>1, <3>2, <2>1
  <2>4. DOMAIN w(g + 1) = 1 .. n + 1
    BY <1>1
  <2>5. w(g + 1) = [i \in 1 .. n + 1 |-> w(g + 1)[i]]
    BY <2>4
  <2>6. Append(w(g), e) = [i \in 1 .. n + 1 |-> Append(w(g), e)[i]]
    BY <1>3, <2>1, <2>2
  <2> HIDE DEF w, n
  <2> QED BY <2>3, <2>5, <2>6
<1> QED
  BY <1>2, <1>3, <1>4

(* A window that begins with the query at its last frame.                  *)
LEMMA WindowBegins ==
  ASSUME config \in Configs, NEW first \in Nat, NEW g \in Nat, NEW f \in Nat,
         first <= g, g <= f, f - g < C, first = g \/ f - g = C - 1
  PROVE  <<[query |-> g, offset |-> f - g]>> = Window(first, f, g)
<1>1. C \in Nat
  BY ConfigType
<1> DEFINE oldest == IF f - first < C THEN first ELSE f - C + 1
<1>2. oldest = g
  BY <1>1
<1>3. Window(first, f, g) = [i \in 1..1 |-> [query |-> g + i - 1, offset |-> f - g - i + 1]]
  BY <1>1, <1>2 DEF Window
<1> QED
  BY <1>3

-----------------------------------------------------------------------------
(***************************************************************************)
(* One action selected                                                     *)
(***************************************************************************)
LEMMA AverageType ==
  ASSUME config \in Configs, config.temporal, NEW f \in Frames,
         NEW p, PolicyType(p), Accepts(p)
  PROVE  /\ PolicyType(After(p, f)) /\ Accepts(After(p, f))
         /\ Sources(p, f) \in Seq(Predictions)
<1> C \in Nat \ {0} /\ f \in Nat
  BY ConfigType, InferenceAssumption DEF Frames
<1> DEFINE b == Blended(p, f)
           c == BlendedCounts(p)
<1>1. \A i \in 1..C : Prediction(f, i) \in Predictions
  BY DEF Prediction, Predictions
<1>2. p.history # Absent => p.history \in [1..C - 1 -> Seq(Predictions)]
  BY DEF PolicyType
<1>3. ASSUME NEW i \in 1..C
      PROVE  b[i] \in Seq(Predictions) /\ c[i] = Len(b[i]) /\ c[i] \in 1 .. C - i + 1
  <2>1. CASE p.history # Absent /\ i < C
    <3>1. i \in 1..C - 1 /\ p.history[i] \in Seq(Predictions)
      BY <2>1, <1>2
    <3>2. p.counts[i] = Len(p.history[i]) /\ p.counts[i] \in 1..C - i
      BY <2>1, <3>1 DEF Accepts
    <3>3. b[i] = Append(p.history[i], Prediction(f, i))
      BY <2>1 DEF Blended
    <3>4. c[i] = p.counts[i] + 1
      BY <2>1, <3>1, <3>2 DEF BlendedCounts
    <3> QED BY <3>1, <3>2, <3>3, <3>4, <1>1
  <2>2. CASE ~(p.history # Absent /\ i < C)
    <3>1. b[i] = <<Prediction(f, i)>> /\ c[i] = 1
      BY <2>2 DEF Blended, BlendedCounts
    <3> QED BY <3>1, <1>1
  <2> QED BY <2>1, <2>2
<1> HIDE DEF b, c
<1> DEFINE q == After(p, f)
<1>4. /\ q.queue = p.queue
      /\ q.history = [i \in 1..C - 1 |-> b[i + 1]]
      /\ q.counts = [i \in 1..C - 1 |-> c[i + 1]]
  BY DEF After, WithoutFirst, b, c
<1>5. Sources(p, f) = b[1]
  BY DEF Sources, b
<1> HIDE DEF q
<1>6. \A i \in 1..C - 1 : i + 1 \in 1..C
  OBVIOUS
<1>7. q.history \in [1..C - 1 -> Seq(Predictions)]
  BY <1>3, <1>4, <1>6
<1>8. q.counts \in Seq(Nat)
  <2>1. \A i \in 1..C - 1 : c[i + 1] \in Nat BY <1>3, <1>6
  <2> QED BY <2>1, <1>4
<1>9. PolicyType(q)
  BY <1>4, <1>7, <1>8 DEF PolicyType
<1>10. Accepts(q)
  BY <1>3, <1>4, <1>6 DEF Accepts
<1>11. b[1] \in Seq(Predictions)
  BY <1>3
<1> QED
  BY <1>5, <1>9, <1>10, <1>11 DEF q

(* A queue that was just filled.                                           *)
LEMMA RefillIs ==
  ASSUME config \in Configs, NEW f \in Frames
  PROVE  /\ Refill(f) \in Seq(Predictions) /\ Len(Refill(f)) = config.steps
         /\ Refill(f) # <<>>
         /\ Head(Refill(f)) = [query |-> f, offset |-> 0]
         /\ Len(Tail(Refill(f))) = config.steps - 1
         /\ Tail(Refill(f)) = [k \in 1 .. config.steps - 1 |-> [query |-> f, offset |-> k]]
<1> f \in Nat /\ config.steps \in Nat \ {0}
  BY ConfigType, InferenceAssumption DEF Frames
<1> DEFINE s == config.steps
           u == Refill(f)
<1> HIDE DEF s
<1>1. s \in Nat \ {0} /\ u = [i \in 1..s |-> [query |-> f, offset |-> i - 1]]
  BY DEF Refill, Prediction, s
<1> HIDE DEF u
<1>2. \A i \in 1..s : [query |-> f, offset |-> i - 1] \in Predictions
  BY <1>1 DEF Predictions
<1>3. u \in Seq(Predictions) /\ Len(u) = s
  BY <1>1, <1>2
<1>4. u # <<>> /\ Head(u) = u[1]
  BY <1>1, <1>3
<1>5. u[1] = [query |-> f, offset |-> 0]
  BY <1>1
<1>6. Len(Tail(u)) = s - 1 /\ Tail(u) = [k \in 1 .. s - 1 |-> u[k + 1]]
  BY <1>1, <1>3, TailIs, ZenonT(60)
<1>7. \A k \in 1 .. s - 1 : u[k + 1] = [query |-> f, offset |-> k]
  BY <1>1
<1>8. Tail(u) = [k \in 1 .. s - 1 |-> [query |-> f, offset |-> k]]
  BY <1>6, <1>7
<1> QED
  BY <1>3, <1>4, <1>5, <1>6, <1>8 DEF u, s

LEMMA QueueType ==
  ASSUME config \in Configs, ~config.temporal, NEW f \in Frames,
         NEW p, PolicyType(p), Accepts(p)
  PROVE  /\ PolicyType(After(p, f)) /\ Accepts(After(p, f))
         /\ Sources(p, f) \in Seq(Predictions)
<1> /\ C \in Nat \ {0} /\ f \in Nat /\ config.steps \in 1..C
  BY ConfigType, InferenceAssumption DEF Frames
<1> DEFINE u == Queue(p, f)
<1>1. u \in Seq(Predictions) /\ u # <<>>
  BY RefillIs DEF Queue, PolicyType
<1>2. Head(u) \in Predictions /\ Tail(u) \in Seq(Predictions)
  BY <1>1
<1> HIDE DEF u
<1>3. After(p, f) = [queue |-> Tail(u), history |-> p.history, counts |-> p.counts]
  BY DEF After, u
<1>4. Sources(p, f) = <<Head(u)>>
  BY DEF Sources, u
<1> QED
  BY <1>2, <1>3, <1>4 DEF PolicyType, Accepts

(* The first frame since a reset.                                          *)
LEMMA FirstMemory ==
  ASSUME config \in Configs, NEW f \in Frames
  PROVE  /\ Memory(After(Fresh, f), f, f + 1)
         /\ Sources(Fresh, f) = Expected(f, f)
<1> /\ C \in Nat \ {0} /\ f \in Nat /\ config.steps \in 1..C
  BY ConfigType, InferenceAssumption DEF Frames
<1>1. CASE config.temporal
  <2> DEFINE b == Blended(Fresh, f)
  <2>1. ASSUME NEW i \in 1..C PROVE b[i] = Window(f, f + i - 1, f)
    <3>1. b[i] = <<[query |-> f, offset |-> i - 1]>>
      BY DEF Blended, Fresh, Prediction
    <3>2. f + i - 1 \in Nat /\ (f + i - 1) - f = i - 1 /\ i - 1 < C
      OBVIOUS
    <3>3. <<[query |-> f, offset |-> (f + i - 1) - f]>> = Window(f, f + i - 1, f)
      BY <3>2, WindowBegins
    <3> QED BY <3>1, <3>2, <3>3
  <2> HIDE DEF b
  <2>2. After(Fresh, f).history = [i \in 1..C - 1 |-> b[i + 1]]
    BY <1>1 DEF After, WithoutFirst, b
  <2>3. \A i \in 1..C - 1 : b[i + 1] = Window(f, (f + 1) + i - 1, (f + 1) - 1)
    <3>1. \A i \in 1..C - 1 : i + 1 \in 1..C /\ f + (i + 1) - 1 = (f + 1) + i - 1 /\ (f + 1) - 1 = f
      OBVIOUS
    <3> QED BY <2>1, <3>1
  <2>4. Averages(After(Fresh, f), f, f + 1)
    BY <2>2, <2>3 DEF Averages
  <2>5. Sources(Fresh, f) = Window(f, f, f)
    <3>1. Sources(Fresh, f) = b[1] BY <1>1 DEF Sources, b
    <3>2. 1 \in 1..C /\ f + 1 - 1 = f OBVIOUS
    <3> QED BY <3>1, <3>2, <2>1
  <2> QED BY <1>1, <2>4, <2>5 DEF Memory, Expected
<1>2. CASE ~config.temporal
  <2> DEFINE s == config.steps
             t == Tail(Refill(f))
  <2>1. After(Fresh, f).queue = t /\ Sources(Fresh, f) = <<Head(Refill(f))>>
    BY <1>2 DEF After, Sources, Queue, Fresh
  <2>4. Head(Refill(f)) = [query |-> f, offset |-> 0]
    BY RefillIs
  <2>5. Len(t) = s - 1 /\ t = [k \in 1..s - 1 |-> [query |-> f, offset |-> k]]
    BY RefillIs
  <2>6. (f + 1 - f + (s - 1)) % s = 0 /\ (f - f) % s = 0
    <3>1. f + 1 - f + (s - 1) = s /\ f - f = 0 OBVIOUS
    <3>2. 0 % s = 0 BY SMTT(30)
    <3>3. (0 + s) % s = 0 BY <3>2, ModAgain
    <3> QED BY <3>1, <3>2, <3>3
  <2>7. Leftover(After(Fresh, f), f, f + 1)
    <3>1. \A k \in 1..s - 1 : f + 1 + (s - 1) - s = f /\ s - (s - 1) + k - 1 = k
      OBVIOUS
    <3> HIDE DEF t
    <3>2. t = [k \in 1..s - 1 |-> [query  |-> f + 1 + (s - 1) - s,
                                   offset |-> s - (s - 1) + k - 1]]
      BY <3>1, <2>5
    <3>3. s - 1 < s /\ s - 1 = Len(t)
      BY <2>5
    <3> QED BY <2>1, <2>6, <3>2, <3>3 DEF Leftover
  <2>8. Sources(Fresh, f) = Expected(f, f)
    <3>1. Expected(f, f) = <<[query |-> f - 0, offset |-> 0]>>
      BY <1>2, <2>6 DEF Expected
    <3> QED BY <3>1, <2>1, <2>4
  <2> QED BY <1>2, <2>7, <2>8 DEF Memory
<1> QED
  BY <1>1, <1>2, ConfigType

(* Every further frame, in its order.                                      *)
LEMMA NextMemory ==
  ASSUME config \in Configs, NEW first \in Frames, NEW f \in Frames, first < f,
         NEW p, PolicyType(p), Memory(p, first, f)
  PROVE  /\ Memory(After(p, f), first, f + 1)
         /\ Sources(p, f) = Expected(first, f)
<1> /\ C \in Nat \ {0} /\ f \in Nat /\ first \in Nat /\ config.steps \in 1..C
  BY ConfigType, InferenceAssumption DEF Frames
<1>1. CASE config.temporal
  <2> DEFINE b == Blended(p, f)
  <2>0. Averages(p, first, f) /\ p.history # Absent
    <3>1. Averages(p, first, f) BY <1>1 DEF Memory
    <3> DEFINE h == [i \in 1..C - 1 |-> Window(first, f + i - 1, f - 1)]
    <3>2. \A i \in 1..C - 1 : Window(first, f + i - 1, f - 1) \in Seq(Predictions)
      <4> TAKE i \in 1..C - 1
      <4>1. f - 1 \in Nat /\ f + i - 1 \in Nat /\ first <= f - 1 /\ f - 1 < f + i - 1
            /\ (f + i - 1) - (f - 1) <= C
        OBVIOUS
      <4> QED BY <4>1, WindowGrows
    <3>3. h \in [1..C - 1 -> Seq(Predictions)] BY <3>2
    <3> QED BY <3>1, <3>3, ConfigType DEF Averages
  <2>1. ASSUME NEW i \in 1..C PROVE b[i] = Window(first, f + i - 1, f)
    <3>1. CASE i < C
      <4> DEFINE w == Window(first, f + i - 1, f - 1)
      <4>1. p.history[i] = w
        BY <2>0, <3>1 DEF Averages
      <4>2. b[i] = Append(p.history[i], [query |-> f, offset |-> i - 1])
        BY <2>0, <3>1 DEF Blended, Prediction
      <4> DEFINE g == f - 1
                 t == f + i - 1
      <4>3. g \in Nat /\ t \in Nat /\ first <= g /\ g < t /\ t - g <= C
            /\ g + 1 = f /\ t - g - 1 = i - 1
        BY <3>1
      <4> HIDE DEF g, t
      <4>4. Append(Window(first, t, g), [query |-> g + 1, offset |-> t - g - 1])
              = Window(first, t, g + 1)
        BY <4>3, WindowGrows
      <4>5. Append(Window(first, t, g), [query |-> f, offset |-> i - 1]) = Window(first, t, f)
        BY <4>3, <4>4
      <4> QED BY <4>1, <4>2, <4>5 DEF g, t
    <3>2. CASE i = C
      <4>1. b[i] = <<[query |-> f, offset |-> i - 1]>>
        BY <3>2 DEF Blended, Prediction
      <4> DEFINE t == f + i - 1
      <4>2. t \in Nat /\ f <= t /\ t - f = i - 1 /\ t - f < C /\ t - f = C - 1 /\ first <= f
        BY <3>2
      <4> HIDE DEF t
      <4>3. <<[query |-> f, offset |-> t - f]>> = Window(first, t, f)
        BY <4>2, WindowBegins
      <4>4. <<[query |-> f, offset |-> i - 1]>> = Window(first, t, f)
        BY <4>2, <4>3
      <4> QED BY <4>1, <4>4 DEF t
    <3> QED BY <3>1, <3>2
  <2> HIDE DEF b
  <2>2. After(p, f).history = [i \in 1..C - 1 |-> b[i + 1]]
    BY <1>1 DEF After, WithoutFirst, b
  <2>3. \A i \in 1..C - 1 : b[i + 1] = Window(first, (f + 1) + i - 1, (f + 1) - 1)
    <3>1. \A i \in 1..C - 1 : i + 1 \in 1..C /\ f + (i + 1) - 1 = (f + 1) + i - 1 /\ (f + 1) - 1 = f
      OBVIOUS
    <3> QED BY <2>1, <3>1
  <2>4. Averages(After(p, f), first, f + 1)
    BY <2>2, <2>3 DEF Averages
  <2>5. Sources(p, f) = Window(first, f, f)
    <3>1. Sources(p, f) = b[1] BY <1>1 DEF Sources, b
    <3>2. 1 \in 1..C /\ f + 1 - 1 = f OBVIOUS
    <3> QED BY <3>1, <3>2, <2>1
  <2> QED BY <1>1, <2>4, <2>5 DEF Memory, Expected
<1>2. CASE ~config.temporal /\ p.queue = <<>>
  <2>1. (f - first + 0) % config.steps = 0
    BY <1>2 DEF Memory, Leftover
  <2> DEFINE s == config.steps
             t == Tail(Refill(f))
  <2>2. After(p, f).queue = t /\ Sources(p, f) = <<Head(Refill(f))>>
    BY <1>2 DEF After, Sources, Queue
  <2>5. Head(Refill(f)) = [query |-> f, offset |-> 0]
    BY RefillIs
  <2>6. Len(t) = s - 1 /\ t = [k \in 1..s - 1 |-> [query |-> f, offset |-> k]]
    BY RefillIs
  <2>7. (f - first) % s = 0 /\ (f + 1 - first + (s - 1)) % s = 0
    <3>1. f + 1 - first + (s - 1) = (f - first) + s /\ f - first + 0 = f - first
          /\ f - first \in Nat
      OBVIOUS
    <3>2. (f - first) % s = 0 BY <2>1, <3>1
    <3>3. ((f - first) + s) % s = 0 BY <3>1, <3>2, ModAgain
    <3> QED BY <3>1, <3>2, <3>3
  <2>8. Leftover(After(p, f), first, f + 1)
    <3>1. \A k \in 1..s - 1 : f + 1 + (s - 1) - s = f /\ s - (s - 1) + k - 1 = k
      OBVIOUS
    <3> HIDE DEF t
    <3>2. t = [k \in 1..s - 1 |-> [query  |-> f + 1 + (s - 1) - s,
                                   offset |-> s - (s - 1) + k - 1]]
      BY <3>1, <2>6
    <3>3. s - 1 < s /\ s - 1 = Len(t) /\ (f + 1 - first + Len(t)) % s = 0
      BY <2>6, <2>7
    <3>4. t = [k \in 1..Len(t) |-> [query  |-> f + 1 + Len(t) - s,
                                    offset |-> s - Len(t) + k - 1]]
      BY <3>2, <3>3
    <3> QED BY <2>2, <3>3, <3>4 DEF Leftover
  <2>9. Sources(p, f) = Expected(first, f)
    <3>1. Expected(first, f) = <<[query |-> f - 0, offset |-> 0]>>
      BY <1>2, <2>7 DEF Expected
    <3> QED BY <3>1, <2>2, <2>5
  <2> QED BY <1>2, <2>8, <2>9 DEF Memory
<1>3. CASE ~config.temporal /\ p.queue # <<>>
  <2> DEFINE s == config.steps
             u == p.queue
             r == Len(u)
             t == Tail(u)
             e(k) == [query |-> f + r - s, offset |-> s - r + k - 1]
  <2>1. u \in Seq(Predictions) /\ r \in 1..s - 1 /\ u = [k \in 1..r |-> e(k)]
    <3>1. u \in Seq(Predictions) /\ r \in Nat /\ r # 0
      BY <1>3 DEF PolicyType
    <3>2. r < s /\ u = [k \in 1..r |-> e(k)]
      BY <1>3 DEF Memory, Leftover
    <3> QED BY <3>1, <3>2
  <2>2. (f - first + r) % s = 0
    BY <1>3 DEF Memory, Leftover
  <2>3. After(p, f).queue = t /\ Sources(p, f) = <<Head(u)>>
    BY <1>3 DEF After, Sources, Queue
  <2> HIDE DEF u
  <2>4. Head(u) = e(1)
    BY <2>1
  <2>5. Len(t) = r - 1 /\ t = [k \in 1..r - 1 |-> e(k + 1)]
    <3>1. Len(t) = r - 1 /\ t = [k \in 1..r - 1 |-> u[k + 1]]
      BY <2>1, TailIs
    <3>2. \A k \in 1..r - 1 : u[k + 1] = e(k + 1)
      BY <2>1
    <3> QED BY <3>1, <3>2
  <2>6. (f - first) % s = s - r
    <3>1. /\ f - first \in Nat /\ s \in Nat \ {0} /\ f - first + r \in Nat
          /\ f - first < f - first + r /\ f - first + r < f - first + s
          /\ s - (f - first + r - (f - first)) = s - r
      BY <2>1, SMTT(30)
    <3>3. (f - first) % s = s - ((f - first + r) - (f - first))
      BY <3>1, <2>2, ModBelow, Zenon
    <3>4. s - ((f - first + r) - (f - first)) = s - r
      BY <3>1
    <3> QED BY <3>3, <3>4
  <2>7. Sources(p, f) = Expected(first, f)
    <3>1. Expected(first, f) = <<[query |-> f - (s - r), offset |-> s - r]>>
      BY <1>3, <2>6 DEF Expected
    <3>2. e(1) = [query |-> f - (s - r), offset |-> s - r]
      BY <2>1
    <3> QED BY <3>1, <3>2, <2>3, <2>4
  <2>8. Leftover(After(p, f), first, f + 1)
    <3>1. \A k \in 1..r - 1 : e(k + 1) = [query  |-> (f + 1) + (r - 1) - s,
                                           offset |-> s - (r - 1) + k - 1]
      BY <2>1, SMTT(30)
    <3>2. (f + 1) - first + (r - 1) = f - first + r
      BY <2>1
    <3> HIDE DEF t, e
    <3>3. t = [k \in 1..r - 1 |-> [query  |-> (f + 1) + (r - 1) - s,
                                   offset |-> s - (r - 1) + k - 1]]
      BY <3>1, <2>5
    <3>4. r - 1 < s /\ r - 1 = Len(t) /\ ((f + 1) - first + Len(t)) % s = 0
      BY <2>1, <2>2, <2>5, <3>2
    <3>5. t = [k \in 1..Len(t) |-> [query  |-> (f + 1) + Len(t) - s,
                                    offset |-> s - Len(t) + k - 1]]
      BY <3>3, <3>4
    <3> QED BY <2>3, <3>4, <3>5 DEF Leftover
  <2> QED BY <1>3, <2>7, <2>8 DEF Memory
<1> QED
  BY <1>1, <1>2, <1>3, ConfigType

-----------------------------------------------------------------------------
(***************************************************************************)
(* The episodes of a rollout                                               *)
(***************************************************************************)
LEMMA EpisodeStartIs ==
  ASSUME NEW start \in Nat, NEW f \in Nat, NEW first, BeginsAt(first, start, f)
  PROVE  EpisodeStart(start, f) = first
<1> DEFINE x == EpisodeStart(start, f)
<1>1. x \in start..f /\ BeginsAt(x, start, f)
  BY DEF EpisodeStart, BeginsAt
<1> HIDE DEF x
<1>2. ~(x < first)
  <2> SUFFICES ASSUME x < first PROVE FALSE
    OBVIOUS
  <2>1. first > start /\ first - 1 \in x..f
    BY <1>1 DEF BeginsAt
  <2> QED BY <1>1, <2>1 DEF BeginsAt
<1>3. ~(first < x)
  <2> SUFFICES ASSUME first < x PROVE FALSE
    OBVIOUS
  <2>1. x > start /\ x - 1 \in first..f
    BY <1>1 DEF BeginsAt
  <2> QED BY <1>1, <2>1 DEF BeginsAt
<1>4. x = first
  BY <1>1, <1>2, <1>3 DEF BeginsAt
<1> QED
  BY <1>4 DEF x

-----------------------------------------------------------------------------
(***************************************************************************)
(* The steps                                                               *)
(***************************************************************************)
LEMMA SoundPrimed ==
  ASSUME config' = config, Sound(policy', stretch', aligned')
  PROVE  Sound(policy, stretch, aligned)'
  BY DEF Sound, PolicyType, Accepts, Memory, Averages, Leftover, Window, C, Fresh

ActionOK ==
  action # Absent =>
    /\ action.frame \in Frames
    /\ action.start \in Frames \cup {Absent}
    /\ action.stretch \in Frames \cup {Absent}
    /\ action.sources \in Seq(Predictions)
    /\ action.stretch # Absent => action.sources = Expected(action.stretch, action.frame)
    /\ action.start # Absent =>
         /\ action.stretch # Absent
         /\ BeginsAt(action.stretch, action.start, action.frame)

RolloutOK ==
  rollout # Absent =>
    /\ rollout.start \in Frames
    /\ rollout.end \in 1..NumFrames
    /\ rollout.next \in rollout.start..rollout.end - 1
    /\ rollout.episode \in Nat \cup {Absent}
    /\ aligned
    /\ rollout.episode = Absent => stretch = Absent /\ rollout.next = rollout.start
    /\ rollout.episode # Absent =>
         /\ rollout.start < rollout.next
         /\ rollout.episode = Episode[rollout.next - 1]
         /\ stretch # Absent /\ stretch.next = rollout.next
         /\ BeginsAt(stretch.first, rollout.start, rollout.next - 1)

Inv ==
  /\ config \in Configs
  /\ Sound(policy, stretch, aligned)
  /\ RolloutOK
  /\ ActionOK

LEMMA SelectedSound ==
  ASSUME config \in Configs, config' = config,
         NEW p, NEW f \in Frames, NEW s, NEW a, NEW start,
         Sound(p, s, a), Selected(p, f, s, a, start)
  PROVE  /\ Sound(policy, stretch, aligned)'
         /\ stretch' = Extended(s, f)
         /\ Sources(p, f) \in Seq(Predictions)
         /\ aligned' => Sources(p, f) = Expected(stretch'.first, f)
<1> f \in Nat /\ f + 1 \in 1..NumFrames
  BY InferenceAssumption DEF Frames
<1>0. /\ PolicyType(p) /\ Accepts(p) /\ a \in BOOLEAN
      /\ s \in [first : Frames, next : 1..NumFrames] \cup {Absent}
      /\ policy' = After(p, f) /\ stretch' = Extended(s, f)
  BY DEF Sound, Selected
<1>1. PolicyType(policy') /\ Accepts(policy') /\ Sources(p, f) \in Seq(Predictions)
  BY <1>0, AverageType, QueueType, ConfigType
<1>2. stretch' \in [first : Frames, next : 1..NumFrames] /\ stretch'.next = f + 1
      /\ (s = Absent => stretch'.first = f) /\ (s # Absent => stretch'.first = s.first)
  BY <1>0 DEF Extended
<1>3. aligned' \in BOOLEAN /\ (aligned' => a /\ (s = Absent \/ f = s.next))
  BY <1>0 DEF Selected
<1>4. stretch' # Absent
  BY <1>2, InferenceAssumption DEF Frames
<1>5. ASSUME aligned'
      PROVE  /\ stretch'.first < stretch'.next
             /\ Memory(policy', stretch'.first, stretch'.next)
             /\ Sources(p, f) = Expected(stretch'.first, f)
  <2>1. CASE s = Absent
    <3>1. p = Fresh BY <2>1 DEF Sound
    <3> QED BY <2>1, <3>1, <1>0, <1>2, FirstMemory
  <2>2. CASE s # Absent
    <3>1. a /\ s.next = f
      BY <1>3, <1>5, <2>2
    <3>2. s.first \in Frames /\ s.first < f /\ Memory(p, s.first, f)
      BY <3>1, <2>2, <1>0 DEF Sound
    <3>3. s.first \in Nat
      BY <3>2, InferenceAssumption DEF Frames
    <3> QED BY <2>2, <3>2, <3>3, <1>0, <1>2, NextMemory
  <2> QED BY <2>1, <2>2
<1>6. Sound(policy', stretch', aligned')
  BY <1>1, <1>2, <1>3, <1>4, <1>5 DEF Sound
<1> QED
  BY <1>0, <1>1, <1>5, <1>6, SoundPrimed

LEMMA RefusedSound ==
  ASSUME config' = config, NEW p, NEW s, NEW a, Sound(p, s, a), Refused(p, s)
  PROVE  Sound(policy, stretch, aligned)'
<1>1. policy' = p /\ stretch' = s /\ aligned' \in BOOLEAN /\ (aligned' => s = Absent)
  BY DEF Refused
<1>2. Sound(policy', stretch', aligned')
  BY <1>1 DEF Sound
<1> QED
  BY <1>2, SoundPrimed

(* What an action that was returned says, and what it is made of.          *)
LEMMA ReturnedOK ==
  ASSUME config \in Configs, config' = config,
         NEW p, NEW f \in Frames, NEW s, NEW a, NEW start \in Frames \cup {Absent},
         Sound(p, s, a), Selected(p, f, s, a, start),
         start # Absent => aligned' /\ BeginsAt(stretch'.first, start, f)
  PROVE  ActionOK'
<1>1. CASE action' = Absent
  BY <1>1 DEF ActionOK
<1>2. CASE action' = [frame |-> f, start |-> start, sources |-> Sources(p, f),
                      stretch |-> IF aligned' THEN stretch'.first ELSE Absent]
  <2>1. stretch'.first \in Frames
    BY DEF Selected, Extended, Sound
  <2>2. aligned' \in BOOLEAN
    BY DEF Selected, Sound
  <2>3. /\ Sources(p, f) \in Seq(Predictions)
        /\ aligned' => Sources(p, f) = Expected(stretch'.first, f)
    BY SelectedSound
  <2>4. stretch'.first # Absent
    BY <2>1, InferenceAssumption DEF Frames
  <2>5. CASE aligned'
    <3>1. /\ action'.frame = f /\ action'.start = start
          /\ action'.sources = Sources(p, f) /\ action'.stretch = stretch'.first
      BY <1>2, <2>5
    <3>2. action'.sources = Expected(action'.stretch, action'.frame)
      BY <2>3, <2>5, <3>1
    <3>3. (action.sources = Expected(action.stretch, action.frame))'
      BY <3>2 DEF Expected, Window, C
    <3>4. action'.start # Absent => action'.stretch # Absent
              /\ BeginsAt(action'.stretch, action'.start, action'.frame)
      BY <3>1, <2>4
    <3>5. (action.start # Absent => /\ action.stretch # Absent
                                    /\ BeginsAt(action.stretch, action.start, action.frame))'
      BY <3>4 DEF BeginsAt
    <3> QED BY <3>1, <3>3, <3>5, <2>1, <2>3 DEF ActionOK
  <2>6. CASE ~aligned'
    <3>1. /\ action'.frame = f /\ action'.start = start
          /\ action'.sources = Sources(p, f) /\ action'.stretch = Absent
      BY <1>2, <2>6
    <3> QED BY <3>1, <2>3, <2>6 DEF ActionOK
  <2> QED BY <2>2, <2>5, <2>6
<1> QED
  BY <1>1, <1>2 DEF Selected

LEMMA InitInv == Init => Inv
<1> SUFFICES ASSUME Init PROVE Inv
  OBVIOUS
<1>1. Sound(policy, stretch, aligned)
  BY FreshSound DEF Init
<1> QED
  BY <1>1 DEF Init, Inv, RolloutOK, ActionOK

LEMMA StepInv == Inv /\ [Next]_inferenceVars => Inv'
<1> SUFFICES ASSUME Inv, [Next]_inferenceVars PROVE Inv'
  OBVIOUS
<1> USE DEF Inv
<1>0. ASSUME UNCHANGED action, config' = config PROVE ActionOK'
  BY <1>0 DEF ActionOK, Expected, Window, C
<1>1. CASE Reset
  <2>1. config' = config /\ policy' = Fresh /\ stretch' = Absent /\ aligned' = TRUE
        /\ rollout' = Absent /\ UNCHANGED action
    BY <1>1 DEF Reset
  <2>2. Sound(policy', stretch', aligned')
    BY <2>1, FreshSound
  <2> QED BY <2>1, <2>2, <1>0, SoundPrimed DEF RolloutOK
<1>2. ASSUME NEW f \in Frames, SelectAction(f) PROVE Inv'
  <2>1. config' = config /\ rollout' = Absent
    BY <1>2 DEF SelectAction
  <2>2. RolloutOK'
    BY <2>1 DEF RolloutOK
  <2>3. CASE Selected(policy, f, stretch, aligned, Absent)
    <3>1. Sound(policy, stretch, aligned)'
      BY <2>1, <2>3, SelectedSound
    <3>2. ActionOK'
      BY <2>1, <2>3, ReturnedOK
    <3> QED BY <2>1, <2>2, <3>1, <3>2
  <2>4. CASE Refused(policy, stretch)
    <3>1. Sound(policy, stretch, aligned)'
      BY <2>1, <2>4, RefusedSound
    <3>2. ActionOK'
      BY <2>4 DEF Refused, ActionOK
    <3> QED BY <2>1, <2>2, <3>1, <3>2
  <2> QED BY <1>2, <2>3, <2>4 DEF SelectAction
<1>3. ASSUME NEW start \in Frames, NEW end \in 1..NumFrames, StartRollout(start, end)
      PROVE Inv'
  <2>1. /\ config' = config /\ policy' = Fresh /\ stretch' = Absent /\ aligned' = TRUE
        /\ UNCHANGED action /\ start < end
        /\ rollout' = [start |-> start, next |-> start, end |-> end, episode |-> Absent]
    BY <1>3 DEF StartRollout
  <2>2. Sound(policy', stretch', aligned')
    BY <2>1, FreshSound
  <2>3. start \in Nat /\ end \in Nat
    BY InferenceAssumption DEF Frames
  <2>4. RolloutOK'
    BY <2>1, <2>3 DEF RolloutOK
  <2> QED BY <2>1, <2>2, <2>4, <1>0, SoundPrimed
<1>4. CASE RolloutStep
  <2> DEFINE f == rollout.next
             p == IF EpisodeChanges THEN Fresh ELSE policy
             s == IF EpisodeChanges THEN Absent ELSE stretch
             a == EpisodeChanges \/ aligned
             start == rollout.start
  <2>1. rollout # Absent /\ config' = config
    BY <1>4 DEF RolloutStep
  <2>2. /\ start \in Frames /\ start \in Nat /\ f \in Nat /\ f + 1 \in Nat
        /\ rollout.end \in 1..NumFrames /\ f \in start..rollout.end - 1 /\ f \in Frames
        /\ Episode[f] \in Nat /\ aligned
    <3>1. start \in Frames /\ rollout.end \in 1..NumFrames /\ f \in start..rollout.end - 1 /\ aligned
      BY <2>1 DEF RolloutOK
    <3>2. start \in Nat /\ f \in Nat /\ f + 1 \in Nat /\ f \in Frames
      BY <3>1, InferenceAssumption, SMTT(30) DEF Frames
    <3>3. Episode[f] \in Nat
      BY <3>2, InferenceAssumption
    <3> QED BY <3>1, <3>2, <3>3
  <2>3. Sound(p, s, a) /\ a
    <3>1. CASE EpisodeChanges
      <4>1. p = Fresh /\ s = Absent /\ a = TRUE BY <3>1
      <4> QED BY <4>1, FreshSound
    <3>2. CASE ~EpisodeChanges
      <4>1. p = policy /\ s = stretch /\ a = TRUE /\ aligned = TRUE
        BY <3>2, <2>2 DEF Sound
      <4> QED BY <4>1
    <3> QED BY <3>1, <3>2
  <2>4. s # Absent => /\ s = stretch /\ s.next = f /\ BeginsAt(s.first, start, f - 1)
                      /\ start < f /\ Episode[f - 1] = Episode[f]
    BY <2>1 DEF RolloutOK, EpisodeChanges
  <2>5. s = Absent /\ start < f => Episode[f - 1] # Episode[f]
    <3>1. start < f => rollout.episode # Absent
      BY <2>1, <2>2 DEF RolloutOK
    <3>2. rollout.episode # Absent => stretch # Absent /\ rollout.episode = Episode[f - 1]
      BY <2>1 DEF RolloutOK
    <3>3. s = Absent /\ stretch # Absent => EpisodeChanges
      OBVIOUS
    <3> QED BY <3>1, <3>2, <3>3 DEF EpisodeChanges
  <2>6. s # Absent => s.first \in Nat
    BY <2>3, InferenceAssumption DEF Sound, Frames
  <2>7. BeginsAt(Extended(s, f).first, start, f)
    <3>1. CASE s = Absent
      <4>1. Extended(s, f).first = f BY <3>1 DEF Extended
      <4> QED BY <3>1, <4>1, <2>2, <2>5 DEF BeginsAt
    <3>2. CASE s # Absent
      <4>1. Extended(s, f).first = s.first BY <3>2 DEF Extended
      <4>2. \A g \in s.first..f : g \in s.first..f - 1 \/ g = f
        BY <3>2, <2>6, <2>2
      <4> QED BY <3>2, <4>1, <4>2, <2>2, <2>4, <2>6 DEF BeginsAt
    <3> QED BY <3>1, <3>2
  <2> HIDE DEF p, s, a
  <2>8. CASE /\ Selected(p, f, s, a, start)
             /\ rollout' = IF action' = Absent \/ f + 1 = rollout.end
                           THEN Absent
                           ELSE [start |-> start, next |-> f + 1,
                                 end |-> rollout.end, episode |-> Episode[f]]
    <3>1. Sound(policy, stretch, aligned)' /\ stretch' = Extended(s, f)
      BY <2>1, <2>2, <2>3, <2>8, SelectedSound
    <3>2. aligned'
      BY <2>3, <2>4, <2>8 DEF Selected
    <3>3. ActionOK'
      BY <2>1, <2>2, <2>3, <2>7, <2>8, <3>1, <3>2, ReturnedOK
    <3>4. CASE rollout' = Absent
      BY <3>1, <3>3, <3>4, <2>1 DEF RolloutOK
    <3>5. CASE rollout' = [start |-> start, next |-> f + 1,
                           end |-> rollout.end, episode |-> Episode[f]] /\ f + 1 # rollout.end
      <4>1. /\ rollout'.start = start /\ rollout'.next = f + 1
            /\ rollout'.end = rollout.end /\ rollout'.episode = Episode[f]
        BY <3>5
      <4>2. stretch'.next = f + 1 /\ stretch'.first = Extended(s, f).first
        BY <3>1 DEF Extended
      <4>3. stretch' # Absent
        <5>1. stretch'.first \in start..f
          BY <4>2, <2>7 DEF BeginsAt
        <5>2. stretch' = [first |-> stretch'.first, next |-> f + 1]
          BY <3>1, <4>2 DEF Extended
        <5>3. stretch' \in [first : Nat, next : Nat]
          BY <5>1, <5>2, <2>2
        <5> QED BY <5>3, InferenceAssumption
      <4>4. Episode[f] # Absent /\ (f + 1) - 1 = f /\ start < f + 1
            /\ f + 1 \in start..rollout.end - 1
        <5>1. Episode[f] # Absent BY <2>2, InferenceAssumption
        <5>2. rollout.end \in Nat BY <2>2, InferenceAssumption
        <5> QED BY <5>1, <5>2, <2>2, <3>5
      <4>5. RolloutOK'
        BY <4>1, <4>2, <4>3, <4>4, <2>2, <2>7, <3>2 DEF RolloutOK, BeginsAt
      <4> QED BY <4>5, <3>1, <3>3, <2>1
    <3> QED BY <2>8, <3>4, <3>5
  <2>9. CASE Refused(p, s) /\ rollout' = Absent
    <3>1. Sound(policy, stretch, aligned)'
      BY <2>1, <2>3, <2>9, RefusedSound
    <3>2. ActionOK' /\ RolloutOK'
      BY <2>9 DEF Refused, ActionOK, RolloutOK
    <3> QED BY <2>1, <3>1, <3>2
  <2> QED BY <1>4, <2>8, <2>9 DEF RolloutStep, p, s, a
<1>5. CASE UNCHANGED inferenceVars
  <2>1. /\ config' = config /\ policy' = policy /\ stretch' = stretch
        /\ aligned' = aligned /\ rollout' = rollout /\ UNCHANGED action
    BY <1>5 DEF inferenceVars
  <2>2. Sound(policy', stretch', aligned')
    BY <2>1
  <2>3. RolloutOK'
    BY <2>1 DEF RolloutOK, BeginsAt
  <2> QED BY <2>1, <2>2, <2>3, <1>0, SoundPrimed
<1> QED
  BY <1>1, <1>2, <1>3, <1>4, <1>5 DEF Next

-----------------------------------------------------------------------------
(***************************************************************************)
(* Theorems                                                                *)
(***************************************************************************)

(* The memory, the rollout and the returned action keep their types.       *)
THEOREM InferenceTypeCorrect == Spec => []TypeOK
<1>1. Inv => TypeOK
  BY DEF Inv, Sound, PolicyType, RolloutOK, ActionOK, TypeOK
<1> QED
  BY <1>1, InitInv, StepInv, PTL DEF Spec

(* TemporalEnsembler::update refuses nothing and reads its tables inside.  *)
THEOREM EnsemblerNeverRefuses == Spec => []EnsemblerAccepts
<1>1. Inv => EnsemblerAccepts
  BY DEF Inv, Sound, Accepts, EnsemblerAccepts
<1> QED
  BY <1>1, InitInv, StepInv, PTL DEF Spec

(* What the actions of a caller that goes from frame to frame are made of. *)
THEOREM SelectionsExact == Spec => []SelectedActionsExact
<1>1. Inv => SelectedActionsExact
  BY DEF Inv, ActionOK, SelectedActionsExact
<1> QED
  BY <1>1, InitInv, StepInv, PTL DEF Spec

(* What the actions of a rollout are made of, in every episode.            *)
THEOREM RolloutsExact == Spec => []RolloutActionsExact
<1>1. ASSUME Inv, action # Absent, action.start # Absent
      PROVE  action.sources = Expected(EpisodeStart(action.start, action.frame), action.frame)
  <2>1. /\ action.start \in Nat /\ action.frame \in Nat
        /\ BeginsAt(action.stretch, action.start, action.frame)
        /\ action.sources = Expected(action.stretch, action.frame)
    BY <1>1, InferenceAssumption DEF Inv, ActionOK, Frames
  <2>2. EpisodeStart(action.start, action.frame) = action.stretch
    BY <2>1, EpisodeStartIs
  <2> QED BY <2>1, <2>2
<1>2. Inv => RolloutActionsExact
  BY <1>1 DEF RolloutActionsExact
<1> QED
  BY <1>2, InitInv, StepInv, PTL DEF Spec

==============================================================================
