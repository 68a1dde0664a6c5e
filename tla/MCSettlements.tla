--------------------------- MODULE MCSettlements ---------------------------
(***************************************************************************)
(* Small instances of Settlements: one payment that two settlements can    *)
(* exhaust and two refunds give back, another of the same service, and a   *)
(* payout over the same rail.                                              *)
(***************************************************************************)
EXTENDS Settlements, TLC

CONSTANTS p1, p2, o1, r1, r2, s1, s2, e1, e2, e3, f1, f2

Order(action, id, key, intent, amount, ref) ==
  [action |-> action, id |-> id, key |-> key, intent |-> intent, amount |-> amount, ref |-> ref]

\* Two commands on one payment, the first's key with another reference, the first's
\* reference on the other payment, a retry with a key used before, and the command line.
MCOrders == {
  Order("settle", "c1", "k1", p1, 2, s1),
  Order("settle", "c2", "k2", p1, 2, s2),
  Order("settle", "c3", "k1", p1, 1, s2),
  Order("settle", "c4", "k4", p2, 2, s1),
  Order("retry",  "c1", "k5", p1, 1, s1),
  Order("settle", None, None, p1, 3, s2)}

MCGross == [p \in {p1, p2, o1} |-> CASE p = p1 -> 5 [] p = p2 -> 2 [] OTHER -> 4]
\* The first payment bears a fee, is given back in two refunds, and may be confirmed twice.
MCConfirms == [e \in {e1, e2, e3} |-> IF e = e3 THEN p2 ELSE p1]
MCFee == [e \in {e1, e2, e3} |-> IF e = e1 THEN 1 ELSE 0]
MCGivesBack == [f \in {f1, f2} |-> p1]
MCGiven == [f \in {f1, f2} |-> IF f = f1 THEN 1 ELSE 4]
MCService == [p \in {p1, p2, o1} |-> "diddigo"]
MCProcessor == [p \in {p1, p2, o1} |-> IF p = p2 THEN "paystack" ELSE "pawapay"]
MCFlow == [p \in {p1, p2, o1} |-> IF p = p2 THEN "wallet_topup" ELSE "service_payment"]

\* On the second day nothing but refunds and settlements is booked.
SecondDay == \A j \in journals : j.day = 2 => j.type \in {"refund", "settlement"}

Alike == Permutations(Requests)
=============================================================================
