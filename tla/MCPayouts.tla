----------------------------- MODULE MCPayouts ------------------------------
(***************************************************************************)
(* Small instances of Payouts: a payout that meets no overlapping runs and *)
(* no error page, and one that meets both.                                 *)
(***************************************************************************)
EXTENDS Payouts

CONSTANTS p1, p2, w1, w2
=============================================================================
