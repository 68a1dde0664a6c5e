--------------------------- MODULE PaymentPromise ---------------------------
(***************************************************************************)
(* What the orchestrator promises about the money of its payments, with no *)
(* word of webhooks, workers, rows or retries: a payment is booked once the*)
(* provider collected it, and at most its price is given back, only after  *)
(* that.  Payments implements it (PaymentsRefinement).                     *)
(***************************************************************************)
EXTENDS Integers

CONSTANTS Bills, Price

VARIABLES
  collected,   \* bills the provider holds the money of
  booked,      \* bills captured in the ledger and announced to the module
  givenBack    \* the refunds booked on each bill

promised == <<collected, booked, givenBack>>

Init ==
  /\ collected = {}
  /\ booked = {}
  /\ givenBack = [b \in Bills |-> 0]

Collect(b) ==
  /\ b \notin collected
  /\ collected' = collected \union {b}
  /\ UNCHANGED <<booked, givenBack>>

\* Booking is immediate or later, never before the money is there.
Book(b) ==
  /\ b \in collected \ booked
  /\ booked' = booked \union {b}
  /\ UNCHANGED <<collected, givenBack>>

GiveBack(b, sum) ==
  /\ b \in booked
  /\ givenBack[b] + sum <= Price
  /\ givenBack' = [givenBack EXCEPT ![b] = @ + sum]
  /\ UNCHANGED <<collected, booked>>

Next == \E b \in Bills : \/ Collect(b)
                         \/ Book(b)
                         \/ \E sum \in 1 .. Price : GiveBack(b, sum)

Spec == Init /\ [][Next]_promised
=============================================================================
