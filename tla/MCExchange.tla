----------------------------- MODULE MCExchange -----------------------------
(***************************************************************************)
(* Small instances of Exchange: two clients, francs and euros, a rate that *)
(* leaves remainders, is inverted and rounded, and changes once.           *)
(***************************************************************************)
EXTENDS Exchange

CONSTANTS x1, e1, x2, r1, r2, r3, r4, k1, k3, k4

MCMinor == [c \in {"XOF", "EUR"} |-> IF c = "EUR" THEN 100 ELSE 1]
MCCurrency == [a \in {x1, e1, x2} |-> IF a = e1 THEN "EUR" ELSE "XOF"]
MCOpening == [a \in {x1, e1, x2} |-> IF a = e1 THEN 2 ELSE 40]

\* The first is sent again, another draws on the same account, the last comes the
\* other way.
MCSource == [r \in {r1, r2, r3, r4} |-> IF r = r4 THEN e1 ELSE x1]
MCTarget == [r \in {r1, r2, r3, r4} |-> IF r = r4 THEN x2 ELSE e1]
MCAmount == [r \in {r1, r2, r3, r4} |-> IF r = r4 THEN 3 ELSE 25]
MCKey == [r \in {r1, r2, r3, r4} |-> IF r = r4 THEN k4 ELSE IF r = r3 THEN k3 ELSE k1]

MCQuotations ==
  [q \in 1..2 |-> [base |-> "EUR", quote |-> "XOF", rate |-> IF q = 1 THEN 6559570 ELSE 5000000]]
=============================================================================
