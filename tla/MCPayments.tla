----------------------------- MODULE MCPayments -----------------------------
(***************************************************************************)
(* Small instances of Payments for TLC: one intent of amount 3 with three  *)
(* refund requests, and two intents that one reconciliation run handles    *)
(* together.                                                               *)
(***************************************************************************)
EXTENDS PaymentsRefinement

CONSTANTS i1, i2, r1, r2, r3

\* Three requests that fit only in some combinations: 1 + 2 fills the amount.
MCRefundOf == [r \in Refunds |-> i1]
MCRefundAmount == [r \in Refunds |-> IF r = r1 THEN 2 ELSE 1]
=============================================================================
