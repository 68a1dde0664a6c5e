--------------------------- MODULE SupportRefunds ---------------------------
(***************************************************************************)
(* Refunds that DiddiSupport asks for (support_router.request_support_     *)
(* refund): an audited action around the refund call of Payments.  The     *)
(* action is inserted in the refund's first transaction, and completed in  *)
(* a third one, after the refund's second.                                 *)
(***************************************************************************)
EXTENDS Payments

CONSTANT Supported   \* the refund requests that come from support

ASSUME SupportAssumption == Supported \subseteq Refunds

VARIABLES
  action,      \* support_refund_actions rows: status
  requests,    \* support requests whose process is alive
  published    \* diddipay.refund.<status>.v1 rows in the outbox, by refund

supportVars == <<action, requests, published>>
allVars == <<vars, supportVars>>

ActionEnds == {"succeeded", "failed", "unknown"}

SupportInit ==
  /\ Init
  /\ action = [r \in Supported |-> Absent]
  /\ requests = {}
  /\ published = [r \in Supported |-> {}]

\* The action is flushed, and committed by the refund's first transaction; when
\* the refund is refused both are rolled back.  A repeated key returns the action
\* as it is.
SupportBegin(r) ==
  /\ action[r] = Absent
  /\ RefundBegin(r)
  /\ action' = [action EXCEPT ![r] = "processing"]
  /\ requests' = requests \union {r}
  /\ UNCHANGED published

\* Mutant: what the provider accepted is a success.
Outcomes_Accepted(status) == IF status = "failed" THEN {"failed"} ELSE {"succeeded"}

\* Only a success is a success, and an uncertain call is "unknown"; but a refund
\* the provider has accepted for later is reported as failed.
Outcomes(status) ==
  CASE status = "succeeded" -> {"succeeded"}
    [] status = "failed" -> {"failed"}
    [] status = "processing" -> {"unknown", "failed"}

\* Event and action in one transaction of their own.
SupportComplete(r) ==
  /\ r \in requests
  /\ refundCall[r] = "ended"
  /\ \E outcome \in Outcomes(refund[r]) :
       /\ action' = [action EXCEPT ![r] = outcome]
       /\ published' = [published EXCEPT ![r] = @ \union {outcome}]
  /\ requests' = requests \ {r}
  /\ UNCHANGED vars

\* The request dies: during the refund call, or between its last two commits.
SupportLost(r) ==
  /\ r \in requests
  /\ RefundLost(r) \/ (refundCall[r] = "ended" /\ UNCHANGED vars)
  /\ requests' = requests \ {r}
  /\ UNCHANGED <<action, published>>

\* The provider's answer and the second transaction are those of any refund.
SupportRefundStep(r) ==
  /\ r \in requests
  /\ \/ \E result \in {"succeeded", "failed", "processing"} : RefundAnswered(r, result)
     \/ RefundEnd(r)
  /\ UNCHANGED supportVars

SupportSteps(r) == SupportBegin(r) \/ SupportRefundStep(r) \/ SupportComplete(r) \/ SupportLost(r)

OtherSteps ==
  \/ \E i \in Intents : Create(i) \/ Cancel(i) \/ ProviderSettles(i)
  \/ \E e \in Events : Webhook(e)
  \/ Reconcile
  \/ \E r \in Refunds \ Supported : RefundSteps(r)

SupportNext ==
  \/ \E r \in Supported : SupportSteps(r)
  \/ OtherSteps /\ UNCHANGED supportVars

SupportSpec == SupportInit /\ [][SupportNext]_allVars

-----------------------------------------------------------------------------
(* Properties *)

\* Whatever dies between the three transactions, the audit never claims more than
\* the ledger: an action that succeeded has its refund journal and the money did
\* go back, and an "unknown" one is still open.  "Failed" says less: no refund is
\* booked, but the money may have gone back if the provider accepted the refund for
\* later, or a gateway's error page was taken for its refusal.
AuditIsTrue ==
  \A r \in Supported :
    /\ action[r] = "succeeded" => r \in refundJournals /\ r \in returned
    /\ action[r] = "unknown" => refund[r] = "processing"
    /\ action[r] = "failed" =>
         /\ r \notin refundJournals
         /\ r \in returned => refund[r] = "processing" \/ r \in ErrorPages

\* An action gets one answer, and the event says what the action says.
OneAnswer ==
  \A r \in Supported :
    published[r] = IF action[r] \in ActionEnds THEN {action[r]} ELSE {}

=============================================================================
