------------------------- MODULE PaymentsRefinement -------------------------
(***************************************************************************)
(* Payments implements PaymentPromise: the mapping reads the promise off   *)
(* the provider's charges, the capture journals and the refund rows.       *)
(***************************************************************************)
EXTENDS Payments

Promise == INSTANCE PaymentPromise WITH
  Bills <- Intents,
  Price <- Amount,
  collected <- {i \in Intents : charge[i] = "paid"},
  booked <- {i \in Intents : captures[i] # {}},
  givenBack <- [i \in Intents |->
                  Total({r \in refundJournals : RefundOf[r] = i})]

\* Whatever the create, cancel, webhook, reconciliation and refund calls do to
\* each other, the money follows the promise: booked after it was collected,
\* given back after it was booked, and never more than the price.
PromiseKept == Promise!Spec
=============================================================================
