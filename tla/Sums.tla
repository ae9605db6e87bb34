--------------------------------- MODULE Sums ---------------------------------
(* The sum and the product of a sequence of numbers, as recursive          *)
(* functions: what they are for every sequence can be proved of them       *)
(* (SumsProofs).                                                           *)
EXTENDS Integers, Sequences

SumOf(numbers) ==
  LET sum[n \in 0..Len(numbers)] == IF n = 0 THEN 0 ELSE sum[n - 1] + numbers[n]
  IN sum[Len(numbers)]

Product(numbers) ==
  LET product[n \in 0..Len(numbers)] == IF n = 0 THEN 1 ELSE product[n - 1] * numbers[n]
  IN product[Len(numbers)]

==============================================================================
