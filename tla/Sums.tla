-------------------------------- MODULE Sums --------------------------------
(***************************************************************************)
(* The total of a set's amounts, counted in units: one pair for each unit  *)
(* of each element.  It is the sum that the folds of the community modules *)
(* compute, in a form whose laws are laws of cardinality (SumLemmas).      *)
(***************************************************************************)
EXTENDS Integers, FiniteSets

UnitsOf(S, amount) == UNION {{x} \X (1 .. amount[x]) : x \in S}

SumOf(S, amount) == Cardinality(UnitsOf(S, amount))

\* The total of amounts that may be negative.
BalanceOf(S, amount) ==
  SumOf(S, [x \in S |-> IF amount[x] > 0 THEN amount[x] ELSE 0])
    - SumOf(S, [x \in S |-> IF amount[x] < 0 THEN -amount[x] ELSE 0])
=============================================================================
