------------------------------- MODULE MCFund -------------------------------
(***************************************************************************)
(* A small instance of Fund: a campaign that two wallet investments, one   *)
(* of them with a key that the client also uses elsewhere, and two paid    *)
(* ones, one requested once or twice, more than fill, and a loan of its    *)
(* pool.  The callback of one payment may be lost for good.                *)
(***************************************************************************)
EXTENDS Fund

CONSTANTS c1, w1, w2, o1, o2, k1, k2, n1, l1, r1, r2

MCGoal == [c \in Campaigns |-> 3]
MCInto == [k \in WalletKeys \union OrderKeys |-> c1]
MCSize == [k \in WalletKeys \union OrderKeys |-> IF k = w1 THEN 2 ELSE 1]
MCUnreachable == {<<o2, n1>>}
MCPoolOf == [l \in Loans |-> c1]
MCTerms == [l \in Loans |-> {<<1, 2>>, <<2, 2>>}]
MCRepaymentOf == [r \in RepayKeys |-> l1]
=============================================================================
