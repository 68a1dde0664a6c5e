-------------------------- MODULE MCOutboxDelivery --------------------------
(***************************************************************************)
(* A small instance of OutboxDelivery: two workers and two events, one of  *)
(* which may be in a batch that outlasts its lease.                        *)
(***************************************************************************)
EXTENDS OutboxDelivery

CONSTANTS m1, m2, w1, w2
=============================================================================
