------------------------------ MODULE Payments ------------------------------
(***************************************************************************)
(* One payment intent per element of Intents, with the single attempt that *)
(* PaymentIntentUseCases.create gives it, and everybody who writes to it:  *)
(* the create call, cancel calls, provider webhooks, the reconciliation    *)
(* worker and refund calls.  Every action is one database transaction or   *)
(* one provider call of the code; what a process read in an earlier        *)
(* transaction and still holds in memory is state of its own, because      *)
(* save() writes those values back without re-checking the row.            *)
(***************************************************************************)
EXTENDS PaymentStates, Sums

CONSTANTS
  Intents,        \* the payment intents clients may create
  Refunds,        \* the refund requests clients may make
  RefundOf,       \* the intent a refund request is about
  RefundAmount,   \* how much it asks back
  Amount,         \* the amount of every intent
  Pushed,         \* the kinds of report the provider sends as webhooks
  MaxHandlers,    \* bound: concurrent deliveries of one webhook event
  Cancellable,    \* the intents whose client may ask to cancel
  LateSuccess,    \* may a charge reported failed (abandoned, or a gateway's
                  \* error page read as a refusal) still be paid?
  ErrorPages,     \* the refunds that may be carried out although the gateway's
                  \* error page is read as a refusal
  BatchLimit,     \* how many attempts one reconciliation run takes
  WorkerCrashes   \* may the reconciliation worker die during a run?

ASSUME PaymentsAssumption ==
  /\ Amount \in Nat \ {0}
  /\ IsFiniteSet(Refunds)
  /\ RefundOf \in [Refunds -> Intents]
  /\ RefundAmount \in [Refunds -> Nat \ {0}]
  /\ Pushed \subseteq Reports
  /\ MaxHandlers \in Nat
  /\ Cancellable \subseteq Intents
  /\ LateSuccess \in BOOLEAN
  /\ ErrorPages \subseteq Refunds
  /\ BatchLimit \in Nat \ {0}
  /\ WorkerCrashes \in BOOLEAN

VARIABLES
  intent,       \* payment_intents rows: status and refunded_amount
  attempt,      \* payment_attempts rows: status and provider_reference
  older,        \* the order of their updated_at: <<j, i>> if that of j is older
  calling,      \* create calls between their two transactions
  answer,       \* what the provider told such a call: the attempt to be saved
  cancelling,   \* cancel calls that have read a cancellable payment
  inbox,        \* provider_events rows: status by event
  handling,     \* webhook requests past the inbox, by event
  batch,        \* attempts the reconciliation run read and has not settled yet
  fresh,        \* no commit yet in this run: the batch's row locks are held
  verdict,      \* the report the run has just verified (at most one)
  refund,       \* refunds rows: status
  refundSeen,   \* the intent as a refund call read it in its first transaction
  refundCall,   \* where a refund call is
  captures,     \* capture journals of an intent, by event reference
  refundJournals,  \* refunds with a journal
  announced,    \* payment.succeeded rows in the outbox, by intent
  charge,       \* external: the provider's charge
  returned      \* external: refunds for which the provider moved money back

rows == <<intent, attempt, older>>
createVars == <<calling, answer, cancelling>>
webhookVars == <<inbox, handling>>
workerVars == <<batch, fresh, verdict>>
refundVars == <<refund, refundSeen, refundCall, refundJournals, returned>>
effects == <<captures, announced>>
vars == <<rows, createVars, webhookVars, workerVars, refundVars, effects, charge>>

-----------------------------------------------------------------------------
(* Rows and memory *)

Absent == "absent"
IntentRow == [status : IntentStatuses \union {Absent}, refunded : Nat]
\* A reference the provider knows, one invented after a failed call, or none.
Refs == {"none", "provider", "placeholder"}
AttemptRow == [status : AttemptStatuses \union {Absent}, ref : Refs]
\* An attempt as a run read it, with those that were updated before it.
Candidate == [intent : Intents, status : AttemptStatuses, ref : Refs, ahead : SUBSET Intents]
Events == [intent : Intents, report : Pushed]
InboxStatuses == {Absent, "received", "processed", "ignored", "failed"}
CallStates == {"idle", "calling", "answered", "ended"}
RefundCallStates == {"idle", "calling", "succeeded", "failed", "processing", "ended"}
Charges == {"none", "open", "paid", "mispaid", "declined"}
CaptureSources == {"webhook", "reconciliation"}

Paid(i) == intent[i].status \in PaidStatuses

\* Mutant: a refund the provider accepted for later does not count.
ActiveRefunds_Known(i) == {r \in Refunds : RefundOf[r] = i /\ refund[r] \in {"pending", "succeeded"}}

\* refunds.total_active_for_intent
ActiveRefunds(i) ==
  {r \in Refunds : RefundOf[r] = i /\ refund[r] \in {"pending", "processing", "succeeded"}}
Total(S) == SumOf(S, RefundAmount)

Ahead(i) == {j \in Intents : <<j, i>> \in older}

\* updated_at of i becomes that of somebody who had these payments ahead of him, as
\* far as they have not been updated since.
Placed(i, ahead) ==
  LET before == {j \in Intents \ {i} : ({j} \union Ahead(j)) \subseteq ahead}
      after == Intents \ ({i} \union before)
  IN {pair \in older : i \notin {pair[1], pair[2]}}
       \union {<<j, i>> : j \in before} \union {<<i, j>> : j \in after}

\* transition_to: updated_at is now.
Newest(i) == Placed(i, Intents)

\* The reconciliation query locks its rows until the run's first commit.
Locked(i) == fresh /\ \E c \in batch : c.intent = i

Init ==
  /\ intent = [i \in Intents |-> [status |-> Absent, refunded |-> 0]]
  /\ attempt = [i \in Intents |-> [status |-> Absent, ref |-> "none"]]
  /\ older = {}
  /\ calling = [i \in Intents |-> "idle"]
  /\ answer = [i \in Intents |-> [status |-> Absent, ref |-> "none"]]
  /\ cancelling = {}
  /\ inbox = [e \in Events |-> Absent]
  /\ handling = [e \in Events |-> 0]
  /\ batch = {}
  /\ fresh = FALSE
  /\ verdict = {}
  /\ refund = [r \in Refunds |-> Absent]
  /\ refundSeen = [r \in Refunds |-> [status |-> Absent, refunded |-> 0]]
  /\ refundCall = [r \in Refunds |-> "idle"]
  /\ captures = [i \in Intents |-> {}]
  /\ refundJournals = {}
  /\ announced = [i \in Intents |-> 0]
  /\ charge = [i \in Intents |-> "none"]
  /\ returned = {}

-----------------------------------------------------------------------------
(* The provider (external), and what the adapters make of it *)

\* verify_payment: an HTTP error or an unreadable answer is "unknown", "abandoned"
\* is read as failed, and a charge that PawaPay does not know is one that the
\* payer has not opened yet.
Verifiable(i) ==
  {"unknown"} \union
    CASE charge[i] = "none" -> {"processing"}
      [] charge[i] = "open" -> {"processing"} \union IF LateSuccess THEN {"failed"} ELSE {}
      [] charge[i] = "paid" -> {"succeeded"}
      [] charge[i] = "mispaid" -> {"mismatched"}
      [] charge[i] = "declined" -> {"failed"}

\* Which webhooks can be under way: anything true of the charge now or earlier.
Deliverable(i) ==
  IF charge[i] = "none" THEN {}
  ELSE Verifiable(i) \union {"processing"} \union IF LateSuccess THEN {"failed"} ELSE {}

\* The payer pays, pays another amount, or does not pay.
ProviderSettles(i) ==
  /\ charge[i] = "open"
  /\ \E outcome \in {"paid", "mispaid", "declined"} :
       charge' = [charge EXCEPT ![i] = outcome]
  /\ UNCHANGED <<rows, createVars, webhookVars, workerVars, refundVars, effects>>

-----------------------------------------------------------------------------
(* create: two transactions around a provider call *)

\* First transaction: the intent and its pending attempt survive a crash.  A
\* repeated key returns what exists and writes nothing.
CreateBegin(i) ==
  /\ intent[i].status = Absent
  /\ intent' = [intent EXCEPT ![i] = [status |-> "processing", refunded |-> 0]]
  /\ attempt' = [attempt EXCEPT ![i] = [status |-> "pending", ref |-> "none"]]
  /\ older' = Newest(i)
  /\ calling' = [calling EXCEPT ![i] = "calling"]
  /\ UNCHANGED <<answer, cancelling, webhookVars, workerVars, refundVars, effects, charge>>

\* _initialize: every outcome becomes a result to save.  A refused request opens
\* no charge; an uncertain one may or may not have.
InitResults(opened) ==
  IF opened
  THEN {[status |-> "requires_action", ref |-> "provider"],
        [status |-> "unknown", ref |-> "provider"],
        [status |-> "unknown", ref |-> "placeholder"]}
       \union IF LateSuccess THEN {[status |-> "failed", ref |-> "provider"]} ELSE {}
  ELSE {[status |-> "failed", ref |-> "provider"],
        [status |-> "failed", ref |-> "placeholder"],
        [status |-> "unknown", ref |-> "provider"],
        [status |-> "unknown", ref |-> "placeholder"]}

ProviderAnswers(i) ==
  /\ calling[i] = "calling"
  /\ \E opened \in BOOLEAN :
       /\ charge' = [charge EXCEPT ![i] = IF opened THEN "open" ELSE "none"]
       /\ \E result \in InitResults(opened) : answer' = [answer EXCEPT ![i] = result]
  /\ calling' = [calling EXCEPT ![i] = "answered"]
  /\ UNCHANGED <<rows, cancelling, webhookVars, workerVars, refundVars, effects>>

\* Mutant: an uncertain call counts as a failed one.
IntentAfterInit_Pessimistic(status) ==
  IF status = "requires_action" THEN status ELSE "failed"

\* _apply_provider_result on the intent as it was inserted.
IntentAfterInit(status) ==
  IF status \in {"requires_action", "failed"} THEN status ELSE "processing"

\* Second transaction: the values in memory replace the rows.
CreateEnd(i) ==
  /\ calling[i] = "answered"
  /\ intent' = [intent EXCEPT ![i] =
                  [status |-> IntentAfterInit(answer[i].status), refunded |-> 0]]
  /\ attempt' = [attempt EXCEPT ![i] = answer[i]]
  /\ older' = Newest(i)
  /\ calling' = [calling EXCEPT ![i] = "ended"]
  /\ UNCHANGED <<answer, cancelling, webhookVars, workerVars, refundVars, effects, charge>>

\* The process dies between the two transactions.
CreateLost(i) ==
  /\ calling[i] \in {"calling", "answered"}
  /\ calling' = [calling EXCEPT ![i] = "ended"]
  /\ UNCHANGED <<rows, answer, cancelling, webhookVars, workerVars, refundVars,
                 effects, charge>>

\* cancel reads without a lock ...
CancelRead(i) ==
  /\ i \in Cancellable
  /\ attempt[i] = [status |-> "pending", ref |-> "none"]
  /\ cancelling' = cancelling \union {i}
  /\ UNCHANGED <<rows, calling, answer, webhookVars, workerVars, refundVars, effects, charge>>

\* ... and writes back what it read, moved to cancelled.
CancelWrite(i) ==
  /\ i \in cancelling
  /\ ~Locked(i)
  /\ attempt' = [attempt EXCEPT ![i] = [status |-> "cancelled", ref |-> "none"]]
  /\ older' = Newest(i)
  /\ intent' = [intent EXCEPT ![i] = [status |-> "cancelled", refunded |-> 0]]
  /\ cancelling' = cancelling \ {i}
  /\ UNCHANGED <<calling, answer, webhookVars, workerVars, refundVars, effects, charge>>

-----------------------------------------------------------------------------
(* What webhooks and reconciliation share *)

\* record_payment_success: one outbox row and one capture journal; the ledger
\* posts a reference once.
RecordSuccess(i, source) ==
  /\ announced' = [announced EXCEPT ![i] = @ + 1]
  /\ captures' = [captures EXCEPT ![i] = @ \union {source}]

\* Mutants: every report has the effect; every success has it; only a success that
\* finds the intent processing has it.
IsNews_AnyReport(i, report) == intent[i].status # "succeeded"
IsNews_EverySuccess(i, report) == report = "succeeded"
IsNews_Processing(i, report) == report = "succeeded" /\ intent[i].status = "processing"

\* The callers' test: a success, and the intent did not say so before (was_succeeded).
IsNews(i, report) == report = "succeeded" /\ intent[i].status # "succeeded"

\* The transaction's financial part, for an attempt as the caller holds it and
\* the intent as the row lock shows it.  What does not move keeps the updated_at
\* that the caller read.
Settle(i, held, ahead, report, source) ==
  /\ attempt' = [attempt EXCEPT ![i] =
                   [status |-> AttemptAfter(held.status, report), ref |-> held.ref]]
  /\ older' = Placed(i, IF AttemptAfter(held.status, report) = held.status
                        THEN ahead ELSE Intents)
  /\ intent' = [intent EXCEPT ![i].status = IntentAfter(@, held.status, report)]
  /\ IF IsNews(i, report)
     THEN RecordSuccess(i, source)
     ELSE UNCHANGED effects

-----------------------------------------------------------------------------
(* Webhooks: PaymentWebhookUseCases.process *)

\* The event is new, or was received or refused before: it enters the inbox, in
\* a transaction of its own.  A processed or ignored event stops here.
WebhookReceive(e) ==
  /\ e.report \in Deliverable(e.intent)
  /\ inbox[e] \notin {"processed", "ignored"}
  /\ handling[e] < MaxHandlers
  /\ inbox' = [inbox EXCEPT ![e] = IF @ = Absent THEN "received" ELSE @]
  /\ handling' = [handling EXCEPT ![e] = @ + 1]
  /\ UNCHANGED <<rows, createVars, workerVars, refundVars, effects, charge>>

\* The second transaction of a delivery, which marks the event.
Mark(e, status) ==
  /\ handling[e] > 0
  /\ handling' = [handling EXCEPT ![e] = @ - 1]
  /\ inbox' = [inbox EXCEPT ![e] = status]
  /\ UNCHANGED <<createVars, workerVars, refundVars, charge>>

\* No attempt carries the reference (yet, or any more).
WebhookIgnore(e) ==
  /\ attempt[e.intent].ref # "provider"
  /\ Mark(e, "ignored")
  /\ UNCHANGED <<rows, effects>>

\* The attempt and the intent are locked and read, so nothing here is stale.
Accepted(e) ==
  /\ e.report # "mismatched"
  /\ Applicable(intent[e.intent].status, attempt[e.intent].status, e.report)

WebhookRefuse(e) ==
  /\ attempt[e.intent].ref = "provider"
  /\ ~Locked(e.intent)
  /\ ~Accepted(e)
  /\ Mark(e, "failed")
  /\ UNCHANGED <<rows, effects>>

WebhookApply(e) ==
  /\ attempt[e.intent].ref = "provider"
  /\ ~Locked(e.intent)
  /\ Accepted(e)
  /\ Settle(e.intent, attempt[e.intent], Ahead(e.intent), e.report, "webhook")
  /\ Mark(e, "processed")

\* The request dies (crash, database deadlock) before its second commit.
WebhookLost(e) ==
  /\ handling[e] > 0
  /\ handling' = [handling EXCEPT ![e] = @ - 1]
  /\ UNCHANGED <<rows, createVars, inbox, workerVars, refundVars, effects, charge>>

-----------------------------------------------------------------------------
(* Reconciliation: ReconciliationUseCases.run, one worker *)

\* Mutant: attempts whose call was not answered are left alone.
Reconcilable_Answered(i) ==
  attempt[i].status \in {"requires_action", "processing"} /\ attempt[i].ref # "none"

\* attempts.pending_for_reconciliation: status and reference.
Reconcilable(i) ==
  /\ attempt[i].status \in {"requires_action", "processing", "unknown"}
  /\ attempt[i].ref # "none"

\* The run reads the oldest candidates, those before some cutoff and no more than
\* its limit, and holds their row locks until its first commit.
ReconcileStart(S) ==
  /\ batch = {}
  /\ S # {}
  /\ Cardinality(S) <= BatchLimit
  /\ \A i \in S : Reconcilable(i) /\ {j \in Ahead(i) : Reconcilable(j)} \subseteq S
  /\ batch' = {[intent |-> i, status |-> attempt[i].status, ref |-> attempt[i].ref,
                ahead |-> Ahead(i)] : i \in S}
  /\ fresh' = TRUE
  /\ UNCHANGED <<rows, createVars, webhookVars, verdict, refundVars, effects, charge>>

\* The run turns to the oldest candidate that is left ...
ReconcileAsk(c) ==
  /\ c \in batch
  /\ \A d \in batch : d.intent \notin c.ahead
  /\ verdict = {}
  /\ verdict' = {[about |-> c, report |-> "asked"]}
  /\ UNCHANGED <<rows, createVars, webhookVars, batch, fresh, refundVars, effects, charge>>

\* ... and verify_payment answers.
ReconcileVerify(v, report) ==
  /\ v \in verdict
  /\ v.report = "asked"
  /\ report \in IF v.about.ref = "provider" THEN Verifiable(v.about.intent) ELSE {"unknown"}
  /\ verdict' = {[about |-> v.about, report |-> report]}
  /\ UNCHANGED <<rows, createVars, webhookVars, batch, fresh, refundVars, effects, charge>>

\* Any commit of the run ends its locks and takes it to the next candidate.
Advance(v) ==
  /\ v \in verdict
  /\ batch' = batch \ {v.about}
  /\ fresh' = FALSE
  /\ verdict' = {}
  /\ UNCHANGED <<createVars, webhookVars, refundVars, charge>>

\* The call is uncertain, no processor is registered for the attempt, or the
\* provider confirms another amount: log, commit, leave the payment alone.
ReconcileSkip(v) ==
  /\ v.report \in {"asked", "mismatched"}
  /\ Advance(v)
  /\ UNCHANGED <<rows, effects>>

Settleable(v) == Applicable(intent[v.about.intent].status, v.about.status, v.report)

\* The intent is locked and read now; the attempt is the one the run started with.
ReconcileApply(v) ==
  /\ v.report \notin {"asked", "mismatched"}
  /\ Settleable(v)
  /\ Settle(v.about.intent, v.about, v.about.ahead, v.report, "reconciliation")
  /\ Advance(v)

\* The run ends where it is, rolled back to its last commit.
Abandon ==
  /\ batch' = {}
  /\ fresh' = FALSE
  /\ verdict' = {}
  /\ UNCHANGED <<rows, createVars, webhookVars, refundVars, effects, charge>>

\* InvalidStateTransition is not caught in the loop.
ReconcileRaise(v) ==
  /\ v \in verdict
  /\ v.report \notin {"asked", "mismatched"}
  /\ ~Settleable(v)
  /\ Abandon

\* The worker dies, or the database breaks a deadlock at its expense.
ReconcileCrash ==
  /\ WorkerCrashes
  /\ batch # {}
  /\ Abandon

-----------------------------------------------------------------------------
(* Refunds: RefundUseCases.create, two transactions around a provider call *)

Refundable(i) ==
  /\ intent[i].status \in {"succeeded", "partially_refunded"}
  /\ attempt[i].status = "succeeded"
  /\ attempt[i].ref # "none"

\* First transaction, under the intent's row lock: every refund that may still
\* give money back counts against the amount.
RefundBegin(r) ==
  LET i == RefundOf[r] IN
  /\ refund[r] = Absent
  /\ Refundable(i)
  /\ Total(ActiveRefunds(i)) + RefundAmount[r] <= Amount
  /\ refund' = [refund EXCEPT ![r] = "pending"]
  /\ refundSeen' = [refundSeen EXCEPT ![r] = intent[i]]
  /\ refundCall' = [refundCall EXCEPT ![r] = "calling"]
  /\ UNCHANGED <<rows, createVars, webhookVars, workerVars, refundJournals, returned,
                 effects, charge>>

\* The provider refunds, refuses, or leaves the outcome open (accepted for later,
\* or an uncertain call): then the money may move all the same.  A refusal may be a
\* gateway's error page.
RefundAnswered(r, result) ==
  /\ refundCall[r] = "calling"
  /\ result \in {"succeeded", "failed", "processing"}
  /\ \E moved \in (CASE result = "succeeded" -> {TRUE}
                      [] result = "failed" -> IF r \in ErrorPages THEN BOOLEAN ELSE {FALSE}
                      [] result = "processing" -> BOOLEAN) :
       returned' = IF moved THEN returned \union {r} ELSE returned
  /\ refundCall' = [refundCall EXCEPT ![r] = result]
  /\ UNCHANGED <<rows, createVars, webhookVars, workerVars, refund, refundSeen,
                 refundJournals, effects, charge>>

\* apply_refund on the intent as the first transaction read it.
AfterRefund(seen, amount) ==
  [status |-> IF seen.refunded + amount = Amount THEN "refunded" ELSE "partially_refunded",
   refunded |-> seen.refunded + amount]

GaveBack(r) == refundCall[r] = "succeeded"

\* Second transaction: the row lock is long gone, the intent in memory is saved.
RefundEnd(r) ==
  /\ refundCall[r] \in {"succeeded", "failed", "processing"}
  /\ refund' = [refund EXCEPT ![r] = refundCall[r]]
  /\ refundCall' = [refundCall EXCEPT ![r] = "ended"]
  /\ IF GaveBack(r)
     THEN /\ intent' = [intent EXCEPT ![RefundOf[r]] =
                          AfterRefund(refundSeen[r], RefundAmount[r])]
          /\ refundJournals' = refundJournals \union {r}
     ELSE UNCHANGED <<intent, refundJournals>>
  /\ UNCHANGED <<attempt, older, createVars, webhookVars, workerVars, refundSeen, returned,
                 effects, charge>>

RefundLost(r) ==
  /\ refundCall[r] \in {"calling", "succeeded", "failed", "processing"}
  /\ refundCall' = [refundCall EXCEPT ![r] = "ended"]
  /\ UNCHANGED <<rows, createVars, webhookVars, workerVars, refund, refundSeen,
                 refundJournals, returned, effects, charge>>

-----------------------------------------------------------------------------
Create(i) == CreateBegin(i) \/ ProviderAnswers(i) \/ CreateEnd(i) \/ CreateLost(i)
Cancel(i) == CancelRead(i) \/ CancelWrite(i)
Webhook(e) == WebhookReceive(e) \/ WebhookIgnore(e) \/ WebhookRefuse(e)
                \/ WebhookApply(e) \/ WebhookLost(e)
Reconcile ==
  \/ \E S \in SUBSET Intents : ReconcileStart(S)
  \/ \E c \in batch : ReconcileAsk(c)
  \/ \E v \in verdict : \/ \E report \in Reports : ReconcileVerify(v, report)
                        \/ ReconcileSkip(v) \/ ReconcileApply(v) \/ ReconcileRaise(v)
  \/ ReconcileCrash
RefundSteps(r) ==
  \/ RefundBegin(r)
  \/ \E result \in {"succeeded", "failed", "processing"} : RefundAnswered(r, result)
  \/ RefundEnd(r)
  \/ RefundLost(r)

Next ==
  \/ \E i \in Intents : Create(i) \/ Cancel(i) \/ ProviderSettles(i)
  \/ \E e \in Events : Webhook(e)
  \/ Reconcile
  \/ \E r \in Refunds : RefundSteps(r)

Spec == Init /\ [][Next]_vars

\* The worker loops for ever (ops/__main__.py): a run that started goes on, every
\* attempt is old enough in the end, and no provider call fails for ever.  That an
\* attempt is in a batch again and again is asked only of those among the oldest.
Fairness ==
  /\ WF_vars(Reconcile)
  /\ \A i \in Intents :
       /\ SF_vars(\E S \in SUBSET Intents : i \in S /\ ReconcileStart(S))
       /\ SF_vars(\E v \in verdict :
                    /\ v.about.intent = i
                    /\ \E report \in Reports \ {"unknown"} : ReconcileVerify(v, report))

LiveSpec == Spec /\ Fairness

-----------------------------------------------------------------------------
(* Properties *)

\* Every variable stays in its domain.
TypeOK ==
  /\ intent \in [Intents -> IntentRow]
  /\ attempt \in [Intents -> AttemptRow]
  /\ older \subseteq Intents \X Intents
  /\ calling \in [Intents -> CallStates]
  /\ answer \in [Intents -> AttemptRow]
  /\ cancelling \subseteq Cancellable
  /\ inbox \in [Events -> InboxStatuses]
  /\ handling \in [Events -> 0 .. MaxHandlers]
  /\ batch \subseteq Candidate
  /\ fresh \in BOOLEAN
  /\ verdict \subseteq [about : batch, report : Reports \union {"asked"}]
  /\ refund \in [Refunds -> RefundStatuses \union {Absent}]
  /\ refundSeen \in [Refunds -> IntentRow]
  /\ refundCall \in [Refunds -> RefundCallStates]
  /\ captures \in [Intents -> SUBSET CaptureSources]
  /\ refundJournals \subseteq Refunds
  /\ announced \in [Intents -> Nat]
  /\ charge \in [Intents -> Charges]
  /\ returned \subseteq Refunds

\* However refund calls interleave, crash or stay unanswered, the money the
\* provider gives back never exceeds what it collected, but by refunds that were
\* carried out although a gateway's error page had them called failed: the check
\* in RefundUseCases.create counts every other refund that may move money.
RefundsWithinCapture ==
  \A i \in Intents :
    LET back == {r \in returned : RefundOf[r] = i}
        denied == {r \in back : refund[r] = "failed"}
    IN
    /\ Total(back \ denied) <= Amount
    /\ denied \subseteq ErrorPages
    /\ back # {} => charge[i] = "paid"

\* A refund has its journal exactly when its row says succeeded, and only if
\* the provider did give the money back (ledger and refund row are saved in one
\* transaction).
RefundsBooked ==
  /\ refundJournals = {r \in Refunds : refund[r] = "succeeded"}
  /\ refundJournals \subseteq returned

\* No integrity gap (infra/integrity.py): an intent whose status says paid was
\* charged the right amount, has a capture journal and a payment.succeeded
\* event; and nothing is captured or announced that was not charged.
PaidIsBacked ==
  \A i \in Intents :
    /\ Paid(i) => captures[i] # {}
    /\ captures[i] # {} => charge[i] = "paid"
    /\ captures[i] # {} <=> announced[i] > 0

\* One business effect per payment, whoever confirms it first and however often.
CaptureOnce ==
  \A i \in Intents : announced[i] <= 1 /\ Cardinality(captures[i]) <= 1

\* A payment is only called failed when the provider holds no money for it.
FailedIsUncharged ==
  \A i \in Intents : intent[i].status = "failed" => charge[i] \notin {"paid", "mispaid"}

\* Other attempts keep a payment from being reconciled: as many as a run takes are
\* older and still open, or an older one belongs to a payment that was cancelled
\* and yet paid, at which each run raises.
ShutOut(i) ==
  LET open == {j \in Ahead(i) : Reconcilable(j)} IN
  \/ Cardinality(open) >= BatchLimit
  \/ \E j \in open : intent[j].status = "cancelled" /\ charge[j] = "paid"

\* A charge the provider collected ends up as a paid intent even if every webhook
\* is lost, provided the create call saved the provider's reference, nobody may
\* cancel the payment, and it is not shut out for ever by older ones.
ChargedIsRecovered ==
  \A i \in Intents \ Cancellable :
    (charge[i] = "paid" /\ attempt[i].ref = "provider") ~> (Paid(i) \/ []ShutOut(i))

\* A payment that nobody may cancel and that was ever shown as paid is never shown
\* unpaid again: no late create, webhook, reconciliation or refund transaction
\* writes it back.
PaidIsForever ==
  [][\A i \in Intents \ Cancellable : Paid(i) => Paid(i)']_vars

-----------------------------------------------------------------------------
(* Why it holds: the invariants that the proofs of PaymentsProofs rest on *)

\* Whatever a process has read or heard of a collected charge is still true: a
\* charge is opened at most once, by the create call, and stays as it settled.
NewsIsTrue ==
  /\ \A i \in Intents :
       /\ intent[i].status = Absent => calling[i] = "idle"
       /\ calling[i] \in {"idle", "calling"} => charge[i] = "none"
       /\ captures[i] # {} => charge[i] = "paid"
  /\ \A e \in Events : handling[e] > 0 /\ e.report = "succeeded" => charge[e.intent] = "paid"
  /\ \A v \in verdict : v.report = "succeeded" => charge[v.about.intent] = "paid"

\* Everything that follows from a payment comes after its create call ended: until
\* then no webhook finds the attempt, no run lists it and no refund is accepted.
CreateComesFirst ==
  /\ \A i \in Intents :
       calling[i] # "ended" => attempt[i].ref = "none" /\ ~Paid(i)
  /\ \A c \in batch : calling[c.intent] = "ended"
  /\ \A r \in Refunds : refundCall[r] # "idle" => calling[RefundOf[r]] = "ended"

=============================================================================
