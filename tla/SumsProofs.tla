------------------------------ MODULE SumsProofs ------------------------------
(***************************************************************************)
(* Induction over the natural numbers, in a form without operator          *)
(* parameters, and with it what SumOf and Product are for every sequence   *)
(* of integers.                                                            *)
(***************************************************************************)
EXTENDS Sums, SequenceTheorems, WellFoundedInduction, TLAPS

(* A set of natural numbers has a least one.                               *)
LEMMA LeastExists ==
  ASSUME NEW S \in SUBSET Nat, S # {}
  PROVE  \E n \in S : \A m \in S : n <= m
<1>1. \A i, j \in Nat : i < j => <<i, j>> \in OpToRel(<, Nat)
  BY Zenon DEF OpToRel
<1>2. PICK n \in S : \A m \in S : ~(<<m, n>> \in OpToRel(<, Nat))
  BY NatLessThanWellFounded, WFMin
<1>3. \A m \in S : ~(m < n)
  BY <1>1, <1>2
<1> QED
  BY <1>3

(* A set of numbers that has zero, and the successor of each of its        *)
(* members, has all numbers: from the least one it would not have.         *)
LEMMA SetInduction ==
  ASSUME NEW S \in SUBSET Nat, 0 \in S, \A n \in S : n + 1 \in S
  PROVE  S = Nat
<1> SUFFICES ASSUME Nat \ S # {} PROVE FALSE
  OBVIOUS
<1>1. Nat \ S \in SUBSET Nat
  OBVIOUS
<1>2. PICK n \in Nat \ S : \A m \in Nat \ S : n <= m
  BY <1>1, LeastExists
<1>3. n # 0 /\ n \in Nat /\ n - 1 \in Nat /\ ~(n <= n - 1)
  BY <1>2
<1>4. n - 1 \in S
  BY <1>2, <1>3
<1>5. (n - 1) + 1 \in S
  BY <1>4
<1> QED
  BY <1>2, <1>3, <1>5

(* Step n takes a member of S to the next one; f is where they lead.       *)
IsRecursion(S, base, last, step) ==
  base \in S /\ last \in Nat /\ step \in [1..last -> [S -> S]]

Solves(f, S, base, last, step) ==
  /\ f \in [0..last -> S]
  /\ f[0] = base
  /\ \A n \in 1..last : f[n] = step[n][f[n - 1]]

(* Steps can be taken any number of times: what a recursive function is    *)
(* defined by has a solution.                                              *)
LEMMA RecursionExists ==
  ASSUME NEW S, NEW base, NEW last, NEW step, IsRecursion(S, base, last, step)
  PROVE  \E f : Solves(f, S, base, last, step)
<1>0. base \in S /\ last \in Nat /\ step \in [1..last -> [S -> S]]
  BY DEF IsRecursion
<1> DEFINE Upto(m, f) == /\ f \in [0..m -> S]
                         /\ f[0] = base
                         /\ \A n \in 1..m : f[n] = step[n][f[n - 1]]
           Taken == {m \in Nat : m <= last => \E f : Upto(m, f)}
<1>1. 0 \in Taken
  <2>1. Upto(0, [n \in 0..0 |-> base])
    BY <1>0
  <2> QED
    BY <2>1
<1>2. ASSUME NEW m \in Taken PROVE m + 1 \in Taken
  <2>1. m \in Nat /\ (m <= last => \E f : Upto(m, f))
    BY <1>2
  <2> SUFFICES ASSUME m + 1 <= last PROVE \E f : Upto(m + 1, f)
    <3> HIDE DEF Upto
    <3> QED
      BY <2>1
  <2>2. m <= last
    BY <1>0, <2>1
  <2>3. PICK f : Upto(m, f)
    <3> HIDE DEF Upto
    <3> QED
      BY <2>1, <2>2
  <2> DEFINE g == [n \in 0..(m + 1) |-> IF n = m + 1 THEN step[m + 1][f[m]] ELSE f[n]]
  <2>4. f[m] \in S /\ m + 1 \in 1..last
    BY <1>0, <2>1, <2>3
  <2>5. step[m + 1][f[m]] \in S
    BY <2>4, <1>0
  <2>6. g \in [0..(m + 1) -> S]
    <3>1. ASSUME NEW n \in 0..(m + 1) PROVE g[n] \in S
      <4>1. CASE n = m + 1
        BY <2>1, <2>5, <4>1
      <4>2. CASE n # m + 1
        <5>1. n \in 0..m
          BY <2>1, <4>2
        <5> QED
          BY <2>3, <4>2, <5>1
      <4> QED
        BY <4>1, <4>2
    <3> QED
      BY <3>1
  <2>7. g[0] = base
    BY <2>1, <2>3
  <2>8. ASSUME NEW n \in 1..(m + 1) PROVE g[n] = step[n][g[n - 1]]
    <3>1. n - 1 \in 0..m /\ n - 1 \in 0..(m + 1) /\ n \in 0..(m + 1)
      BY <2>1
    <3>2. g[n - 1] = f[n - 1]
      BY <2>1, <3>1
    <3>3. CASE n = m + 1
      <4>1. n - 1 = m /\ g[n] = step[m + 1][f[m]]
        BY <2>1, <3>1, <3>3
      <4> HIDE DEF g
      <4> QED
        BY <3>2, <3>3, <4>1
    <3>4. CASE n # m + 1
      <4>1. n \in 1..m /\ g[n] = f[n]
        BY <2>1, <3>1, <3>4
      <4> HIDE DEF g
      <4> QED
        BY <2>3, <3>2, <4>1
    <3> QED
      BY <3>3, <3>4
  <2>9. Upto(m + 1, g)
    <3> HIDE DEF g
    <3> QED
      BY <2>6, <2>7, <2>8
  <2> QED
    BY <2>9
<1>3. Taken \in SUBSET Nat
  OBVIOUS
<1>4. Taken = Nat
  <2> HIDE DEF Taken
  <2> QED
    BY <1>1, <1>2, <1>3, SetInduction
<1>5. last \in Taken
  BY <1>0, <1>4
<1>6. \E f : Upto(last, f)
  BY <1>0, <1>5
<1> QED
  BY <1>6 DEF Solves

-----------------------------------------------------------------------------
(* f[n] is the sum of the first n of the numbers.                          *)
PartialSums(numbers, f) ==
  /\ f \in [0..Len(numbers) -> Int]
  /\ f[0] = 0
  /\ \A n \in 1..Len(numbers) : f[n] = f[n - 1] + numbers[n]

LEMMA TotalsExist ==
  ASSUME NEW last \in Nat, NEW a \in [1..last -> Int]
  PROVE  \E f \in [0..last -> Int] :
           f[0] = 0 /\ \A n \in 1..last : f[n] = f[n - 1] + a[n]
<1> DEFINE step == [n \in 1..last |-> [x \in Int |-> x + a[n]]]
<1>1. step \in [1..last -> [Int -> Int]]
  OBVIOUS
<1>2. \A n \in 1..last, x \in Int : step[n][x] = x + a[n]
  OBVIOUS
<1> HIDE DEF step
<1>3. PICK S, zero : S = Int /\ zero = 0
  OBVIOUS
<1>4. IsRecursion(S, zero, last, step)
  BY <1>1, <1>3 DEF IsRecursion
<1>5. PICK f : Solves(f, S, zero, last, step)
  BY <1>4, RecursionExists
<1>6. /\ f \in [0..last -> Int] /\ f[0] = 0
      /\ \A n \in 1..last : f[n] = step[n][f[n - 1]]
  BY <1>3, <1>5 DEF Solves
<1>7. ASSUME NEW n \in 1..last PROVE f[n] = f[n - 1] + a[n]
  <2>1. n - 1 \in 0..last
    OBVIOUS
  <2>2. f[n - 1] \in Int
    BY <2>1, <1>6
  <2> QED
    BY <2>2, <1>2, <1>6
<1> QED
  BY <1>7, <1>6

LEMMA PartialSumsExist ==
  ASSUME NEW numbers \in Seq(Int)
  PROVE  \E f : PartialSums(numbers, f)
<1>1. Len(numbers) \in Nat /\ numbers \in [1..Len(numbers) -> Int]
  OBVIOUS
<1> QED
  BY <1>1, TotalsExist DEF PartialSums

(* They are unique, and SumOf is the last of them.                         *)
LEMMA SumIsLast ==
  ASSUME NEW numbers \in Seq(Int), NEW f, PartialSums(numbers, f)
  PROVE  SumOf(numbers) = f[Len(numbers)]
<1> DEFINE Step(h) == [n \in 0..Len(numbers) |->
                        IF n = 0 THEN 0 ELSE h[n - 1] + numbers[n]]
           F == CHOOSE h : h = Step(h)
<1>0. Len(numbers) \in Nat
  OBVIOUS
<1>1. SumOf(numbers) = F[Len(numbers)]
  BY DEF SumOf
<1>2. f = Step(f)
  <2>1. f = [n \in 0..Len(numbers) |-> f[n]]
    BY DEF PartialSums
  <2>2. ASSUME NEW n \in 0..Len(numbers) PROVE f[n] = Step(f)[n]
    <3>1. CASE n = 0
      BY <3>1 DEF PartialSums
    <3>2. CASE n # 0
      <4>1. n \in 1..Len(numbers)
        BY <3>2, <1>0
      <4> QED
        BY <3>2, <4>1 DEF PartialSums
    <3> QED
      BY <3>1, <3>2
  <2> QED
    BY <2>1, <2>2
<1>3. F = Step(F)
  <2>1. \E h : h = Step(h)
    BY <1>2
  <2> HIDE DEF Step
  <2> QED
    BY <2>1
<1> DEFINE S == {n \in Nat : n <= Len(numbers) => F[n] = f[n]}
<1>4. 0 \in S
  <2>1. F[0] = Step(F)[0]
    <3> HIDE DEF F, Step
    <3> QED
      BY <1>3
  <2>2. Step(F)[0] = 0
    <3> HIDE DEF F
    <3> QED
      BY <1>0
  <2> HIDE DEF F
  <2> QED
    BY <2>1, <2>2 DEF PartialSums
<1>5. ASSUME NEW n \in S PROVE n + 1 \in S
  <2> SUFFICES ASSUME n + 1 <= Len(numbers) PROVE F[n + 1] = f[n + 1]
    BY <1>5
  <2>1. n \in Nat /\ F[n] = f[n]
    BY <1>5, <1>0
  <2>2. n + 1 \in 0..Len(numbers) /\ n + 1 \in 1..Len(numbers) /\ n + 1 # 0 /\ (n + 1) - 1 = n
    BY <2>1, <1>0
  <2>3. F[n + 1] = Step(F)[n + 1]
    <3> HIDE DEF F, Step
    <3> QED
      BY <1>3
  <2>4. Step(F)[n + 1] = F[n] + numbers[n + 1]
    <3> HIDE DEF F
    <3> QED
      BY <2>2
  <2>5. f[n + 1] = f[n] + numbers[n + 1]
    BY <2>2 DEF PartialSums
  <2> QED
    BY <2>1, <2>3, <2>4, <2>5
<1>6. S \in SUBSET Nat
  OBVIOUS
<1>7. S = Nat
  <2> HIDE DEF S
  <2> QED
    BY <1>4, <1>5, <1>6, SetInduction
<1>8. Len(numbers) \in S
  BY <1>7, <1>0
<1> QED
  BY <1>0, <1>1, <1>8

LEMMA SumTyped ==
  ASSUME NEW numbers \in Seq(Int)
  PROVE  SumOf(numbers) \in Int
<1>1. PICK f : PartialSums(numbers, f)
  BY PartialSumsExist
<1>2. f[Len(numbers)] \in Int
  BY <1>1 DEF PartialSums
<1> QED
  BY <1>1, <1>2, SumIsLast

LEMMA SumEmpty == SumOf(<<>>) = 0
<1> DEFINE none == <<>>
<1>1. none \in Seq(Int) /\ Len(none) = 0
  OBVIOUS
<1> HIDE DEF none
<1>2. PICK f : PartialSums(none, f)
  BY <1>1, PartialSumsExist
<1>3. SumOf(none) = 0
  BY <1>1, <1>2, SumIsLast DEF PartialSums
<1> QED
  BY <1>3 DEF none

LEMMA SumOne ==
  ASSUME NEW x \in Int
  PROVE  SumOf(<<x>>) = x
<1> DEFINE one == <<x>>
<1>1. one \in Seq(Int) /\ Len(one) = 1 /\ one[1] = x
  OBVIOUS
<1> HIDE DEF one
<1>2. PICK f : PartialSums(one, f)
  BY <1>1, PartialSumsExist
<1>3. f[1] = f[0] + one[1] /\ f[0] = 0
  BY <1>1, <1>2 DEF PartialSums
<1>4. SumOf(one) = f[1]
  BY <1>1, <1>2, SumIsLast
<1>5. one[1] \in Int
  BY <1>1
<1>6. f[1] = x
  BY <1>1, <1>3, <1>5
<1> QED
  BY <1>4, <1>6 DEF one

(* The sum of two sequences, one after the other.                          *)
LEMMA SumConcat ==
  ASSUME NEW a \in Seq(Int), NEW b \in Seq(Int)
  PROVE  SumOf(a \o b) = SumOf(a) + SumOf(b)
<1>1. PICK f : PartialSums(a, f)
  BY PartialSumsExist
<1>2. PICK g : PartialSums(b, g)
  BY PartialSumsExist
<1> DEFINE m == Len(a)
           n == Len(b)
           both == a \o b
           h == [k \in 0..(m + n) |-> IF k <= m THEN f[k] ELSE f[m] + g[k - m]]
<1>3. m \in Nat /\ n \in Nat
  OBVIOUS
<1>4. /\ both \in Seq(Int) /\ Len(both) = m + n
      /\ \A k \in 1..(m + n) : both[k] = IF k <= m THEN a[k] ELSE b[k - m]
  BY ConcatProperties
<1>5. /\ f \in [0..m -> Int] /\ f[0] = 0 /\ \A k \in 1..m : f[k] = f[k - 1] + a[k]
      /\ g \in [0..n -> Int] /\ g[0] = 0 /\ \A k \in 1..n : g[k] = g[k - 1] + b[k]
  BY <1>1, <1>2 DEF PartialSums
<1> HIDE DEF m, n, both
<1>6. h \in [0..(m + n) -> Int]
  <2>1. ASSUME NEW k \in 0..(m + n) PROVE h[k] \in Int
    <3>1. CASE k <= m
      <4>1. k \in 0..m
        BY <3>1, <1>3
      <4> QED
        BY <3>1, <4>1, <1>5
    <3>2. CASE ~(k <= m)
      <4>1. k - m \in 0..n /\ m \in 0..m
        BY <3>2, <1>3
      <4>2. f[m] \in Int /\ g[k - m] \in Int
        BY <4>1, <1>5
      <4> QED
        BY <3>2, <4>2
    <3> QED
      BY <3>1, <3>2
  <2> QED
    BY <2>1
<1>7. h[0] = 0
  BY <1>3, <1>5
<1>8. ASSUME NEW k \in 1..(m + n) PROVE h[k] = h[k - 1] + both[k]
  <2>0. k \in 0..(m + n) /\ k - 1 \in 0..(m + n)
    BY <1>3
  <2>1. CASE k <= m
    <3>1. k \in 1..m /\ k - 1 <= m
      BY <2>1, <1>3
    <3> QED
      BY <2>0, <2>1, <3>1, <1>4, <1>5
  <2>2. CASE k = m + 1
    <3>1. 1 \in 1..n /\ k - m = 1 /\ ~(k <= m) /\ k - 1 <= m /\ k - 1 = m
      BY <2>2, <1>3
    <3>2. h[k] = f[m] + g[1] /\ h[k - 1] = f[m] /\ both[k] = b[1]
      BY <2>0, <3>1, <1>4
    <3>3. g[1] = b[1] /\ f[m] \in Int
      <4>1. g[1] = g[1 - 1] + b[1]
        BY <3>1, <1>5
      <4>2. b[1] \in Int
        BY <3>1 DEF n
      <4> QED
        BY <4>1, <4>2, <1>3, <1>5
    <3> QED
      BY <3>2, <3>3
  <2>3. CASE ~(k <= m) /\ k # m + 1
    <3>1. k - m \in 1..n /\ ~(k - 1 <= m) /\ (k - 1) - m = (k - m) - 1 /\ (k - m) - 1 \in 0..n
      BY <2>3, <1>3
    <3>2. h[k] = f[m] + g[k - m] /\ h[k - 1] = f[m] + g[(k - m) - 1] /\ both[k] = b[k - m]
      BY <2>0, <2>3, <3>1, <1>4
    <3>3. g[k - m] = g[(k - m) - 1] + b[k - m]
      BY <3>1, <1>5
    <3>4. f[m] \in Int /\ g[(k - m) - 1] \in Int /\ b[k - m] \in Int
      <4>1. f[m] \in Int /\ g[(k - m) - 1] \in Int
        BY <3>1, <1>3, <1>5
      <4>2. b[k - m] \in Int
        BY <3>1, <1>3 DEF n
      <4> QED
        BY <4>1, <4>2
    <3> QED
      BY <3>2, <3>3, <3>4
  <2> QED
    BY <2>1, <2>2, <2>3
<1>9. h[m + n] = f[m] + g[n]
  <2>1. CASE n = 0
    BY <2>1, <1>3, <1>5
  <2>2. CASE n # 0
    BY <2>2, <1>3, <1>5
  <2> QED
    BY <2>1, <2>2
<1>10. PartialSums(both, h)
  <2> HIDE DEF h
  <2> QED
    BY <1>4, <1>6, <1>7, <1>8 DEF PartialSums
<1>11. SumOf(both) = f[m] + g[n]
  <2> HIDE DEF h
  <2> QED
    BY <1>4, <1>9, <1>10, SumIsLast
<1>12. SumOf(a) = f[m] /\ SumOf(b) = g[n]
  BY <1>1, <1>2, SumIsLast DEF m, n
<1> QED
  BY <1>11, <1>12 DEF both

LEMMA SumAppend ==
  ASSUME NEW numbers \in Seq(Int), NEW x \in Int
  PROVE  SumOf(Append(numbers, x)) = SumOf(numbers) + x
<1>1. Append(numbers, x) = numbers \o <<x>> /\ <<x>> \in Seq(Int)
  OBVIOUS
<1> QED
  BY <1>1, SumConcat, SumOne

(* Cut in two.                                                             *)
LEMMA SumSplit ==
  ASSUME NEW numbers \in Seq(Int), NEW n \in 0..Len(numbers)
  PROVE  /\ SubSeq(numbers, 1, n) \in Seq(Int)
         /\ SubSeq(numbers, n + 1, Len(numbers)) \in Seq(Int)
         /\ SumOf(numbers) = SumOf(SubSeq(numbers, 1, n))
                                + SumOf(SubSeq(numbers, n + 1, Len(numbers)))
<1> DEFINE a == SubSeq(numbers, 1, n)
           b == SubSeq(numbers, n + 1, Len(numbers))
<1>1. a \in Seq(Int) /\ Len(a) = n /\ \A k \in 1..n : a[k] = numbers[k]
  OBVIOUS
<1>2. /\ b \in Seq(Int) /\ Len(b) = Len(numbers) - n
      /\ \A k \in 1..Len(numbers) - n : b[k] = numbers[n + k]
  OBVIOUS
<1> HIDE DEF a, b
<1>3. /\ a \o b \in Seq(Int) /\ Len(a \o b) = Len(numbers)
      /\ \A k \in 1..Len(numbers) : (a \o b)[k] = IF k <= n THEN a[k] ELSE b[k - n]
  BY <1>1, <1>2, ConcatProperties, SMTT(30)
<1>4. \A k \in 1..Len(numbers) : (a \o b)[k] = numbers[k]
  <2> TAKE k \in 1..Len(numbers)
  <2>1. CASE k <= n
    BY <2>1, <1>1, <1>3
  <2>2. CASE ~(k <= n)
    <3>1. k - n \in 1..Len(numbers) - n /\ n + (k - n) = k
      BY <2>2
    <3> QED
      BY <2>2, <3>1, <1>2, <1>3
  <2> QED
    BY <2>1, <2>2
<1>5. a \o b = numbers
  BY <1>3, <1>4, SeqEqual
<1>6. SumOf(a \o b) = SumOf(a) + SumOf(b)
  BY <1>1, <1>2, SumConcat
<1> QED
  BY <1>1, <1>2, <1>5, <1>6 DEF a, b

(* A sum of numbers that are one or more is their number or more.          *)
LEMMA SumOfPositive ==
  ASSUME NEW numbers \in Seq(Nat \ {0})
  PROVE  SumOf(numbers) \in Nat /\ SumOf(numbers) >= Len(numbers)
<1>1. numbers \in Seq(Int) /\ Len(numbers) \in Nat
  OBVIOUS
<1>2. PICK f : PartialSums(numbers, f)
  BY <1>1, PartialSumsExist
<1> DEFINE S == {n \in Nat : n <= Len(numbers) => f[n] >= n}
<1>3. 0 \in S
  BY <1>2 DEF PartialSums
<1>4. ASSUME NEW n \in S PROVE n + 1 \in S
  <2>1. n \in Nat /\ (n <= Len(numbers) => f[n] >= n)
    BY <1>4
  <2>2. ASSUME n + 1 <= Len(numbers) PROVE f[n + 1] >= n + 1
    <3>1. n + 1 \in 1..Len(numbers) /\ (n + 1) - 1 = n /\ n <= Len(numbers) /\ n \in 0..Len(numbers)
      BY <2>1, <2>2, <1>1
    <3>2. f[n + 1] = f[n] + numbers[n + 1] /\ f[n] \in Int
      BY <3>1, <1>2 DEF PartialSums
    <3>3. numbers[n + 1] \in Nat \ {0}
      BY <3>1
    <3> QED
      BY <2>1, <3>1, <3>2, <3>3
  <2> QED
    BY <2>1, <2>2
<1>5. S \in SUBSET Nat
  OBVIOUS
<1>6. S = Nat
  <2> HIDE DEF S
  <2> QED
    BY <1>3, <1>4, <1>5, SetInduction
<1>7. f[Len(numbers)] >= Len(numbers) /\ f[Len(numbers)] \in Int
  BY <1>1, <1>2, <1>6 DEF PartialSums
<1> QED
  BY <1>1, <1>2, <1>7, SumIsLast

(* The sums of the first k of some numbers, for every k at once.           *)
LEMMA PrefixSums ==
  ASSUME NEW n \in Nat, NEW a \in [1..n -> Int]
  PROVE  \E f \in [0..n -> Int] :
           /\ f[0] = 0
           /\ \A k \in 1..n : f[k] = f[k - 1] + a[k]
           /\ \A k \in 0..n : SumOf([j \in 1..k |-> a[j]]) = f[k]
<1>1. PICK f \in [0..n -> Int] : f[0] = 0 /\ \A k \in 1..n : f[k] = f[k - 1] + a[k]
  BY TotalsExist
<1>2. ASSUME NEW k \in 0..n PROVE SumOf([j \in 1..k |-> a[j]]) = f[k]
  <2> DEFINE numbers == [j \in 1..k |-> a[j]]
             g == [j \in 0..k |-> f[j]]
  <2>0. k \in Nat /\ \A j \in 1..k : j \in 1..n /\ a[j] \in Int
    OBVIOUS
  <2>1. numbers \in Seq(Int) /\ Len(numbers) = k /\ \A j \in 1..k : numbers[j] = a[j]
    BY <2>0
  <2>2. g \in [0..k -> Int] /\ \A j \in 0..k : g[j] = f[j]
    OBVIOUS
  <2> HIDE DEF numbers, g
  <2>3. ASSUME NEW j \in 1..k PROVE g[j] = g[j - 1] + numbers[j]
    <3>1. j \in 0..k /\ j - 1 \in 0..k /\ j \in 1..n
      OBVIOUS
    <3> QED
      BY <3>1, <2>1, <2>2, <1>1
  <2>4. g[0] = 0 /\ g[k] = f[k]
    BY <1>1, <2>0, <2>2
  <2>5. PartialSums(numbers, g)
    BY <2>1, <2>2, <2>3, <2>4 DEF PartialSums
  <2>6. SumOf(numbers) = g[k]
    BY <2>1, <2>5, SumIsLast
  <2> QED
    BY <2>4, <2>6 DEF numbers
<1> QED
  BY <1>1, <1>2

LEMMA SumsGrow ==
  ASSUME NEW n \in Nat, NEW f \in [0..n -> Int], \A k \in 1..n : f[k - 1] < f[k]
  PROVE  \A i, j \in 0..n : i <= j => f[i] <= f[j]
<1> DEFINE S == {d \in Nat : \A i \in 0..n : i + d <= n => f[i] <= f[i + d]}
<1>1. 0 \in S
  <2>1. ASSUME NEW i \in 0..n PROVE f[i] <= f[i + 0]
    <3>1. i + 0 = i /\ f[i] \in Int
      OBVIOUS
    <3> QED
      BY <3>1
  <2> QED
    BY <2>1
<1>2. ASSUME NEW d \in S PROVE d + 1 \in S
  <2>1. d \in Nat
    BY <1>2
  <2>2. ASSUME NEW i \in 0..n, i + (d + 1) <= n PROVE f[i] <= f[i + (d + 1)]
    <3> DEFINE k == i + (d + 1)
    <3>1. k \in 1..n /\ k - 1 = i + d /\ i + d <= n /\ k - 1 \in 0..n /\ k \in 0..n
      BY <2>1, <2>2
    <3>2. f[i] <= f[k - 1]
      BY <3>1, <1>2
    <3> HIDE DEF k
    <3>3. f[k - 1] < f[k] /\ f[i] \in Int /\ f[k] \in Int /\ f[k - 1] \in Int
      BY <3>1
    <3>4. f[i] <= f[k]
      BY <3>2, <3>3
    <3> QED
      BY <3>4 DEF k
  <2> QED
    BY <2>1, <2>2
<1>3. S \in SUBSET Nat
  OBVIOUS
<1>4. S = Nat
  <2> HIDE DEF S
  <2> QED
    BY <1>1, <1>2, <1>3, SetInduction
<1>5. ASSUME NEW i \in 0..n, NEW j \in 0..n, i <= j PROVE f[i] <= f[j]
  <2>1. j - i \in Nat /\ i + (j - i) = j /\ j <= n
    BY <1>5
  <2>2. j - i \in S
    BY <2>1, <1>4
  <2>3. i + (j - i) <= n => f[i] <= f[i + (j - i)]
    BY <2>2
  <2> QED
    BY <2>1, <2>3
<1> QED
  BY <1>5

(* Where the sums grow, one of them is the first beyond a number.          *)
LEMMA FirstBeyond ==
  ASSUME NEW n \in Nat, NEW f \in [0..n -> Int], \A k \in 1..n : f[k - 1] < f[k],
         NEW p \in Int, f[0] <= p, p < f[n]
  PROVE  \E e \in 1..n : /\ f[e - 1] <= p /\ p < f[e]
                         /\ \A i \in 1..n : p < f[i] => e <= i
<1> DEFINE S == {i \in 1..n : p < f[i]}
<1>1. f[0] \in Int /\ n # 0
  OBVIOUS
<1>2. n \in S
  BY <1>1
<1>3. S \in SUBSET Nat
  OBVIOUS
<1>4. PICK e \in S : \A m \in S : e <= m
  <2> HIDE DEF S
  <2> QED
    BY <1>2, <1>3, LeastExists
<1>5. e \in 1..n /\ p < f[e]
  BY <1>4
<1>6. f[e - 1] <= p
  <2>1. CASE e = 1
    BY <2>1
  <2>2. CASE e # 1
    <3>1. e - 1 \in 1..n /\ ~(e <= e - 1)
      BY <2>2, <1>5
    <3>2. e - 1 \notin S
      <4> HIDE DEF S
      <4> QED
        BY <3>1, <1>4
    <3>3. ~(p < f[e - 1]) /\ e - 1 \in 0..n
      BY <3>1, <3>2
    <3>4. f[e - 1] \in Int
      BY <3>3
    <3> QED
      BY <3>3, <3>4
  <2> QED
    BY <2>1, <2>2
<1> QED
  BY <1>4, <1>5, <1>6

-----------------------------------------------------------------------------
(* Products                                                                *)

(* The products of the first numbers of a sequence.                        *)
PartialProducts(numbers, f) ==
  /\ f \in [0..Len(numbers) -> Int]
  /\ f[0] = 1
  /\ \A n \in 1..Len(numbers) : f[n] = f[n - 1] * numbers[n]

LEMMA FactorsExist ==
  ASSUME NEW last \in Nat, NEW a \in [1..last -> Int]
  PROVE  \E f \in [0..last -> Int] :
           f[0] = 1 /\ \A n \in 1..last : f[n] = f[n - 1] * a[n]
<1> DEFINE step == [n \in 1..last |-> [x \in Int |-> x * a[n]]]
<1>1. step \in [1..last -> [Int -> Int]]
  OBVIOUS
<1>2. \A n \in 1..last, x \in Int : step[n][x] = x * a[n]
  OBVIOUS
<1> HIDE DEF step
<1>3. PICK S, one : S = Int /\ one = 1
  OBVIOUS
<1>4. IsRecursion(S, one, last, step)
  BY <1>1, <1>3 DEF IsRecursion
<1>5. PICK f : Solves(f, S, one, last, step)
  BY <1>4, RecursionExists
<1>6. /\ f \in [0..last -> Int] /\ f[0] = 1
      /\ \A n \in 1..last : f[n] = step[n][f[n - 1]]
  BY <1>3, <1>5 DEF Solves
<1>7. ASSUME NEW n \in 1..last PROVE f[n] = f[n - 1] * a[n]
  <2>1. n - 1 \in 0..last
    OBVIOUS
  <2>2. f[n - 1] \in Int
    BY <2>1, <1>6
  <2> QED
    BY <2>2, <1>2, <1>6
<1> QED
  BY <1>7, <1>6

LEMMA PartialProductsExist ==
  ASSUME NEW numbers \in Seq(Int)
  PROVE  \E f : PartialProducts(numbers, f)
<1>1. Len(numbers) \in Nat /\ numbers \in [1..Len(numbers) -> Int]
  OBVIOUS
<1> QED
  BY <1>1, FactorsExist DEF PartialProducts

(* They are unique, and Product is the last of them.                       *)
LEMMA ProductIsLast ==
  ASSUME NEW numbers \in Seq(Int), NEW f, PartialProducts(numbers, f)
  PROVE  Product(numbers) = f[Len(numbers)]
<1> DEFINE Step(h) == [n \in 0..Len(numbers) |->
                        IF n = 0 THEN 1 ELSE h[n - 1] * numbers[n]]
           F == CHOOSE h : h = Step(h)
<1>0. Len(numbers) \in Nat
  OBVIOUS
<1>1. Product(numbers) = F[Len(numbers)]
  BY DEF Product
<1>2. f = Step(f)
  <2>1. f = [n \in 0..Len(numbers) |-> f[n]]
    BY DEF PartialProducts
  <2>2. ASSUME NEW n \in 0..Len(numbers) PROVE f[n] = Step(f)[n]
    <3>1. CASE n = 0
      BY <3>1 DEF PartialProducts
    <3>2. CASE n # 0
      <4>1. n \in 1..Len(numbers)
        BY <3>2, <1>0
      <4> QED
        BY <3>2, <4>1 DEF PartialProducts
    <3> QED
      BY <3>1, <3>2
  <2> QED
    BY <2>1, <2>2
<1>3. F = Step(F)
  <2>1. \E h : h = Step(h)
    BY <1>2
  <2> HIDE DEF Step
  <2> QED
    BY <2>1
<1> DEFINE S == {n \in Nat : n <= Len(numbers) => F[n] = f[n]}
<1>4. 0 \in S
  <2>1. F[0] = Step(F)[0]
    <3> HIDE DEF F, Step
    <3> QED
      BY <1>3
  <2>2. Step(F)[0] = 1
    <3> HIDE DEF F
    <3> QED
      BY <1>0
  <2> HIDE DEF F
  <2> QED
    BY <2>1, <2>2 DEF PartialProducts
<1>5. ASSUME NEW n \in S PROVE n + 1 \in S
  <2> SUFFICES ASSUME n + 1 <= Len(numbers) PROVE F[n + 1] = f[n + 1]
    BY <1>5
  <2>1. n \in Nat /\ F[n] = f[n]
    BY <1>5, <1>0
  <2>2. n + 1 \in 0..Len(numbers) /\ n + 1 \in 1..Len(numbers) /\ n + 1 # 0 /\ (n + 1) - 1 = n
    BY <2>1, <1>0
  <2>3. F[n + 1] = Step(F)[n + 1]
    <3> HIDE DEF F, Step
    <3> QED
      BY <1>3
  <2>4. Step(F)[n + 1] = F[n] * numbers[n + 1]
    <3> HIDE DEF F
    <3> QED
      BY <2>2
  <2>5. f[n + 1] = f[n] * numbers[n + 1]
    BY <2>2 DEF PartialProducts
  <2> QED
    BY <2>1, <2>3, <2>4, <2>5
<1>6. S \in SUBSET Nat
  OBVIOUS
<1>7. S = Nat
  <2> HIDE DEF S
  <2> QED
    BY <1>4, <1>5, <1>6, SetInduction
<1>8. Len(numbers) \in S
  BY <1>7, <1>0
<1> QED
  BY <1>0, <1>1, <1>8

LEMMA ProductOfTwo ==
  ASSUME NEW a \in Int, NEW b \in Int
  PROVE  Product(<<a, b>>) = a * b
<1> DEFINE two == <<a, b>>
<1>1. two \in Seq(Int) /\ Len(two) = 2 /\ two[1] = a /\ two[2] = b
  OBVIOUS
<1> HIDE DEF two
<1>2. PICK f : PartialProducts(two, f)
  BY <1>1, PartialProductsExist
<1>3. f[0] = 1 /\ f[1] = f[0] * two[1] /\ f[2] = f[1] * two[2]
  BY <1>1, <1>2 DEF PartialProducts
<1>4. f[1] = a
  BY <1>1, <1>3
<1>5. Product(two) = f[2]
  BY <1>1, <1>2, ProductIsLast
<1> QED
  BY <1>1, <1>3, <1>4, <1>5 DEF two

LEMMA ProductPositive ==
  ASSUME NEW numbers \in Seq(Int), \A i \in 1..Len(numbers) : numbers[i] >= 1
  PROVE  Product(numbers) \in Int /\ Product(numbers) >= 1
<1>0. Len(numbers) \in Nat /\ \A i \in 1..Len(numbers) : numbers[i] \in Int
  OBVIOUS
<1>1. PICK f : PartialProducts(numbers, f)
  BY PartialProductsExist
<1>2. /\ f \in [0..Len(numbers) -> Int] /\ f[0] = 1
      /\ \A n \in 1..Len(numbers) : f[n] = f[n - 1] * numbers[n]
  BY <1>1 DEF PartialProducts
<1> DEFINE S == {n \in Nat : n <= Len(numbers) => f[n] >= 1}
<1>3. 0 \in S
  BY <1>2
<1>4. ASSUME NEW n \in S PROVE n + 1 \in S
  <2> SUFFICES ASSUME n + 1 <= Len(numbers) PROVE f[n + 1] >= 1
    BY <1>4
  <2>1. n \in Nat /\ n <= Len(numbers) /\ n \in 0..Len(numbers)
    BY <1>0, <1>4
  <2>2. f[n] >= 1 /\ f[n] \in Int
    <3>1. f[n] \in Int
      BY <1>2, <2>1
    <3>2. f[n] >= 1
      BY <1>4, <2>1
    <3> QED
      BY <3>1, <3>2
  <2>3. n + 1 \in 1..Len(numbers) /\ (n + 1) - 1 = n
    BY <1>0, <2>1
  <2>4. f[n + 1] = f[n] * numbers[n + 1]
    BY <1>2, <2>3
  <2>5. numbers[n + 1] \in Int /\ numbers[n + 1] >= 1
    BY <1>0, <2>3
  <2>6. ASSUME NEW a \in Nat, NEW b \in Nat, a >= 1, b >= 1 PROVE a * b >= 1
    <3>1. PICK c \in Nat : c = a - 1
      BY <2>6
    <3>2. a = 1 + c
      BY <3>1
    <3>3. a * b = b + c * b
      BY <3>2
    <3>4. c * b \in Nat
      OBVIOUS
    <3> QED
      BY <2>6, <3>3, <3>4
  <2>7. f[n] \in Nat /\ numbers[n + 1] \in Nat
    BY <2>2, <2>5
  <2> QED
    BY <2>2, <2>4, <2>5, <2>6, <2>7
<1>5. S = Nat
  <2> HIDE DEF S
  <2>1. S \in SUBSET Nat
    BY DEF S
  <2> QED
    BY <1>3, <1>4, <2>1, SetInduction
<1>6. f[Len(numbers)] >= 1 /\ f[Len(numbers)] \in Int
  BY <1>0, <1>2, <1>5
<1> QED
  BY <1>1, <1>6, ProductIsLast

==============================================================================
