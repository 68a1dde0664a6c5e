-------------------------- MODULE MCSupportRefunds --------------------------
(***************************************************************************)
(* A small instance of SupportRefunds: one intent of amount 3, with two    *)
(* support requests and a direct one that fit only in some combinations.   *)
(***************************************************************************)
EXTENDS SupportRefunds

CONSTANTS i1, r1, r2, r3

MCRefundOf == [r \in Refunds |-> i1]
MCRefundAmount == [r \in Refunds |-> IF r = r1 THEN 2 ELSE 1]
=============================================================================
