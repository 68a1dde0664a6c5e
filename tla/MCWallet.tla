------------------------------ MODULE MCWallet ------------------------------
(***************************************************************************)
(* A small instance of Wallet: two withdrawals, a transfer and a deposit   *)
(* on a1, which holds enough for one of them; the transfer pays a2.  The   *)
(* deposit is one whose gateway states amounts, or one that does not.      *)
(***************************************************************************)
EXTENDS Wallet

CONSTANTS a1, a2, d1, d2, w1, w2, t1, k1, k2, c1

MCOwner == [o \in Ops |-> a1]
MCPayee == [t \in Transfers |-> a2]
MCSize == [o \in Ops |-> 1]
MCOpening == [a \in Accounts |-> IF a = a1 THEN 1 ELSE 0]

OneDeposit == \E d \in Deposits : \A k \in Calls : order[d][k] = "none"
=============================================================================
