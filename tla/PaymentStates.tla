---------------------------- MODULE PaymentStates ----------------------------
(***************************************************************************)
(* The status machines of the payment domain (domain/entities.py) and the  *)
(* one function through which webhooks and reconciliation move them        *)
(* (PaymentWebhookUseCases._apply_status).  Pure: no state.                *)
(***************************************************************************)
EXTENDS Naturals

\* "absent" is the row that is not yet inserted; it is no status of the code.
IntentStatuses == {"processing", "requires_action", "succeeded", "failed",
                   "cancelled", "partially_refunded", "refunded"}
AttemptStatuses == {"pending", "requires_action", "processing", "succeeded",
                    "failed", "cancelled", "unknown"}
RefundStatuses == {"pending", "processing", "succeeded", "failed"}

\* _INTENT_TRANSITIONS
IntentNext ==
  [processing         |-> {"requires_action", "succeeded", "failed", "cancelled"},
   requires_action    |-> {"processing", "succeeded", "failed", "cancelled"},
   failed             |-> {"processing"},
   succeeded          |-> {"partially_refunded", "refunded"},
   partially_refunded |-> {"partially_refunded", "refunded"},
   cancelled          |-> {},
   refunded           |-> {}]

\* _ATTEMPT_TRANSITIONS
AttemptNext ==
  [pending         |-> {"requires_action", "processing", "succeeded", "failed",
                        "cancelled", "unknown"},
   requires_action |-> {"processing", "succeeded", "failed", "cancelled", "unknown"},
   processing      |-> {"succeeded", "failed", "unknown"},
   unknown         |-> {"processing", "succeeded", "failed"},
   succeeded       |-> {},
   failed          |-> {},
   cancelled       |-> {}]

\* transition_to: staying put is always allowed, anything else needs an edge.
CanMove(edges, from, to) == to = from \/ to \in edges[from]

\* The statuses of an intent whose money was collected.
PaidStatuses == {"succeeded", "partially_refunded", "refunded"}

-----------------------------------------------------------------------------
\* What a provider says of a charge, normalised: a ProviderEvent or a
\* ProviderResult.  "mismatched" is a success for another amount or currency,
\* which both callers refuse before they touch the statuses.
Reports == {"succeeded", "mismatched", "failed", "processing", "unknown"}

\* _apply_status raises InvalidStateTransition exactly when this is false.  Only
\* a success can be refused: the other branches test the status first.
Applicable(intent, attempt, report) ==
  (report = "succeeded" /\ attempt # "succeeded") =>
     /\ CanMove(AttemptNext, attempt, "succeeded")
     /\ \/ intent = "failed"    \* goes through "processing" first
        \/ CanMove(IntentNext, intent, "succeeded")

\* The attempt's status after _apply_status.
AttemptAfter(attempt, report) ==
  CASE report = "succeeded" -> "succeeded"
    [] report = "failed" /\ attempt \notin {"succeeded", "failed", "cancelled"}
         -> "failed"
    [] report = "processing" /\ attempt \in {"pending", "requires_action", "unknown"}
         -> "processing"
    [] OTHER -> attempt

\* Mutant: the intent follows its attempt without a look at its own status.
IntentAfter_Follows(intent, attempt, report) ==
  IF AttemptAfter(attempt, report) = attempt THEN intent ELSE report

\* The intent's status after _apply_status: it follows the attempt, and only
\* when the attempt moved.
IntentAfter(intent, attempt, report) ==
  IF AttemptAfter(attempt, report) = attempt THEN intent
  ELSE CASE report = "succeeded" -> "succeeded"
    [] report = "failed" /\ intent \in {"processing", "requires_action"} -> "failed"
    [] report = "processing" /\ intent = "requires_action" -> "processing"
    [] OTHER -> intent
=============================================================================
