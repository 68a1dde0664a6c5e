--------------------------- MODULE PaymentsProofs ---------------------------
(***************************************************************************)
(* Proofs about Payments, for every value of its constants.                *)
(***************************************************************************)
EXTENDS SupportRefunds, PaymentsRefinement, SumLemmas, TLAPS

USE PaymentsAssumption

-----------------------------------------------------------------------------
(* Invariants that the proofs need beside those of Payments *)

\* A refund call in flight belongs to a captured payment and owns its pending row.
RefundsInFlight ==
  \A r \in Refunds :
    /\ refundCall[r] \in {"calling", "succeeded", "failed", "processing"} =>
         refund[r] = "pending" /\ captures[RefundOf[r]] # {}
    /\ refundCall[r] = "succeeded" => r \in returned

\* Without refunds, a captured intent still says "succeeded", which is what
\* was_succeeded asks, or was cancelled, which a success cannot undo; and no attempt
\* is succeeded before its intent: so the second confirmation, from whichever source,
\* records nothing.
CapturedSaysSo ==
  /\ \A i \in Intents :
       /\ captures[i] # {} => intent[i].status \in {"succeeded", "cancelled"}
                                /\ calling[i] = "ended"
       /\ attempt[i].status = "succeeded" => intent[i].status = "succeeded"
       /\ answer[i].status # "succeeded"
       /\ announced[i] <= 1
       /\ \E s \in CaptureSources : captures[i] \subseteq {s}
  /\ \A c \in batch : c.status # "succeeded"

-----------------------------------------------------------------------------
(* The pure part: what _apply_status returns *)

\* _apply_status keeps both statuses in their enumerations.
LEMMA ApplyTypes ==
  ASSUME NEW s \in IntentStatuses \union {Absent}, NEW t \in AttemptStatuses \union {Absent},
         NEW report \in Reports
  PROVE  /\ AttemptAfter(t, report) \in AttemptStatuses \union {Absent}
         /\ IntentAfter(s, t, report) \in IntentStatuses \union {Absent}
BY DEF AttemptAfter, IntentAfter, IntentStatuses, AttemptStatuses, Reports, Absent

\* Only a reported success makes an intent paid, and no report makes a paid
\* intent unpaid.
LEMMA OnlySuccessPays ==
  ASSUME NEW s \in IntentStatuses \union {Absent}, NEW t \in AttemptStatuses \union {Absent},
         NEW report \in Reports,
         IntentAfter(s, t, report) \in PaidStatuses
  PROVE  s \in PaidStatuses \/ report = "succeeded"
BY DEF AttemptAfter, IntentAfter, PaidStatuses

-----------------------------------------------------------------------------
(* Type correctness *)

\* The initial state is well typed.
LEMMA InitType == Init => TypeOK
<1>. SUFFICES ASSUME Init PROVE TypeOK
  OBVIOUS
<1>1. /\ intent \in [Intents -> IntentRow]
      /\ attempt \in [Intents -> AttemptRow]
      /\ older \subseteq Intents \X Intents
      /\ calling \in [Intents -> CallStates]
      /\ answer \in [Intents -> AttemptRow]
      /\ cancelling \subseteq Cancellable
  BY DEF Init, IntentRow, AttemptRow, CallStates, Refs
<1>2. /\ inbox \in [Events -> InboxStatuses]
      /\ handling \in [Events -> 0 .. MaxHandlers]
  BY DEF Init, InboxStatuses
<1>3. /\ batch \subseteq Candidate
      /\ fresh \in BOOLEAN
      /\ verdict \subseteq [about : batch, report : Reports \union {"asked"}]
  BY DEF Init
<1>4. /\ refund \in [Refunds -> RefundStatuses \union {Absent}]
      /\ refundSeen \in [Refunds -> IntentRow]
      /\ refundCall \in [Refunds -> RefundCallStates]
      /\ refundJournals \subseteq Refunds
      /\ returned \subseteq Refunds
  BY DEF Init, IntentRow, RefundCallStates
<1>5. /\ captures \in [Intents -> SUBSET CaptureSources]
      /\ announced \in [Intents -> Nat]
      /\ charge \in [Intents -> Charges]
  BY DEF Init, Charges
<1>. QED BY <1>1, <1>2, <1>3, <1>4, <1>5 DEF TypeOK

\* The order of the attempts stays one of payments.
LEMMA PlacedType ==
  ASSUME TypeOK, NEW i \in Intents, NEW ahead
  PROVE  Placed(i, ahead) \subseteq Intents \X Intents
<1>. DEFINE before == {j \in Intents \ {i} : ({j} \union Ahead(j)) \subseteq ahead}
            after == Intents \ ({i} \union before)
<1>1. older \subseteq Intents \X Intents
  BY DEF TypeOK
<1>2. /\ {<<j, i>> : j \in before} \subseteq Intents \X Intents
      /\ {<<i, j>> : j \in after} \subseteq Intents \X Intents
  OBVIOUS
<1>. QED BY <1>1, <1>2 DEF Placed

\* The create and cancel calls keep the types.
LEMMA CreateType ==
  ASSUME TypeOK, NEW i \in Intents, Create(i) \/ Cancel(i)
  PROVE  TypeOK'
<1>o. Newest(i) \subseteq Intents \X Intents
  BY PlacedType DEF Newest
<1>1. CASE CreateBegin(i)
  BY <1>o, <1>1 DEF TypeOK, CreateBegin, IntentRow, AttemptRow, CallStates, Refs, IntentStatuses,
     AttemptStatuses, webhookVars, workerVars, refundVars, effects
<1>2. CASE ProviderAnswers(i)
  BY <1>2 DEF TypeOK, ProviderAnswers, InitResults, AttemptRow, CallStates, Refs, Charges,
     AttemptStatuses, rows, webhookVars, workerVars, refundVars, effects
<1>3. CASE CreateEnd(i)
  BY <1>o, <1>3 DEF TypeOK, CreateEnd, IntentAfterInit, IntentRow, CallStates, IntentStatuses,
     webhookVars, workerVars, refundVars, effects
<1>4. CASE CreateLost(i)
  BY <1>4 DEF TypeOK, CreateLost, CallStates, rows, webhookVars, workerVars, refundVars, effects
<1>5. CASE CancelRead(i)
  BY <1>5 DEF TypeOK, CancelRead, rows, webhookVars, workerVars, refundVars, effects
<1>6. CASE CancelWrite(i)
  BY <1>o, <1>6 DEF TypeOK, CancelWrite, IntentRow, AttemptRow, Refs, IntentStatuses,
     AttemptStatuses, webhookVars, workerVars, refundVars, effects
<1>. QED BY <1>1, <1>2, <1>3, <1>4, <1>5, <1>6 DEF Create, Cancel

\* The common financial part of webhooks and reconciliation keeps the types.
LEMMA SettleType ==
  ASSUME TypeOK, NEW i \in Intents, NEW held, NEW ahead, held.status \in AttemptStatuses \union {Absent},
         held.ref \in Refs, NEW report \in Reports, NEW source \in CaptureSources,
         Settle(i, held, ahead, report, source)
  PROVE  /\ intent' \in [Intents -> IntentRow]
         /\ attempt' \in [Intents -> AttemptRow]
         /\ older' \subseteq Intents \X Intents
         /\ captures' \in [Intents -> SUBSET CaptureSources]
         /\ announced' \in [Intents -> Nat]
<1>o. older' \subseteq Intents \X Intents
  BY PlacedType DEF Settle
<1>1. /\ AttemptAfter(held.status, report) \in AttemptStatuses \union {Absent}
      /\ IntentAfter(intent[i].status, held.status, report) \in IntentStatuses \union {Absent}
  BY ApplyTypes DEF TypeOK, IntentRow
<1>2. attempt' \in [Intents -> AttemptRow]
  BY <1>1 DEF TypeOK, Settle, IsNews, AttemptRow
<1>3. intent' \in [Intents -> IntentRow]
  <2>. DEFINE row == [intent[i] EXCEPT !.status = IntentAfter(@, held.status, report)]
  <2>1. intent \in [Intents -> IntentRow] /\ intent[i] \in IntentRow
    BY DEF TypeOK
  <2>2. intent' = [intent EXCEPT ![i] = row]
    BY DEF Settle, IsNews
  <2>3. row \in IntentRow
    BY <1>1, <2>1 DEF IntentRow
  <2>. HIDE DEF row
  <2>. QED BY <2>1, <2>2, <2>3
<1>4. /\ captures' \in [Intents -> SUBSET CaptureSources]
      /\ announced' \in [Intents -> Nat]
  BY DEF TypeOK, Settle, IsNews, RecordSuccess, effects
<1>. QED BY <1>o, <1>2, <1>3, <1>4

\* The provider's own step keeps the types.
LEMMA ProviderType ==
  ASSUME TypeOK, NEW i \in Intents, ProviderSettles(i)
  PROVE  TypeOK'
BY DEF TypeOK, ProviderSettles, Charges, rows, createVars, webhookVars, workerVars,
   refundVars, effects

\* A webhook request keeps the types.
LEMMA WebhookType ==
  ASSUME TypeOK, NEW e \in Events, Webhook(e)
  PROVE  TypeOK'
<1>e. e.intent \in Intents /\ e.report \in Reports
  BY DEF Events
<1>m. ASSUME NEW status \in InboxStatuses, Mark(e, status)
      PROVE  inbox' \in [Events -> InboxStatuses] /\ handling' \in [Events -> 0 .. MaxHandlers]
  BY <1>m DEF TypeOK, Mark
<1>1. CASE WebhookReceive(e)
  BY <1>1 DEF TypeOK, WebhookReceive, InboxStatuses, rows, createVars, workerVars,
     refundVars, effects
<1>2. CASE WebhookIgnore(e) \/ WebhookRefuse(e)
  <2>1. inbox' \in [Events -> InboxStatuses] /\ handling' \in [Events -> 0 .. MaxHandlers]
    BY <1>m, <1>2 DEF WebhookIgnore, WebhookRefuse, InboxStatuses
  <2>. QED BY <2>1, <1>2 DEF TypeOK, WebhookIgnore, WebhookRefuse, Mark, rows, createVars,
           workerVars, refundVars, effects
<1>3. CASE WebhookApply(e)
  <2>1. inbox' \in [Events -> InboxStatuses] /\ handling' \in [Events -> 0 .. MaxHandlers]
    BY <1>m, <1>3 DEF WebhookApply, InboxStatuses
  <2>2. /\ attempt[e.intent].status \in AttemptStatuses \union {Absent}
        /\ attempt[e.intent].ref \in Refs
    BY <1>e DEF TypeOK, AttemptRow
  <2>3. /\ intent' \in [Intents -> IntentRow]
        /\ attempt' \in [Intents -> AttemptRow]
        /\ older' \subseteq Intents \X Intents
        /\ captures' \in [Intents -> SUBSET CaptureSources]
        /\ announced' \in [Intents -> Nat]
    BY <1>3, <1>e, <2>2, SettleType DEF WebhookApply, CaptureSources
  <2>. QED BY <2>1, <2>3, <1>3 DEF TypeOK, WebhookApply, Mark, createVars, workerVars, refundVars
<1>4. CASE WebhookLost(e)
  BY <1>4 DEF TypeOK, WebhookLost, rows, createVars, workerVars, refundVars, effects
<1>. QED BY <1>1, <1>2, <1>3, <1>4 DEF Webhook

\* A step of the reconciliation worker keeps the types.
LEMMA ReconcileType ==
  ASSUME TypeOK, Reconcile
  PROVE  TypeOK'
<1>v. ASSUME NEW v \in verdict
      PROVE  /\ v.about \in batch
             /\ v.about.intent \in Intents
             /\ v.about.status \in AttemptStatuses
             /\ v.about.ref \in Refs
             /\ v.report \in Reports \union {"asked"}
  BY <1>v DEF TypeOK, Candidate
<1>1. ASSUME NEW S \in SUBSET Intents, ReconcileStart(S)
      PROVE  TypeOK'
  <2>1. \A i \in S : attempt[i].status \in AttemptStatuses /\ attempt[i].ref \in Refs
    BY <1>1 DEF ReconcileStart, Reconcilable, AttemptStatuses, TypeOK, AttemptRow
  <2>2. batch' \subseteq Candidate
    <3>1. \A i \in S : Ahead(i) \in SUBSET Intents
      BY DEF Ahead
    <3>. QED BY <1>1, <2>1, <3>1 DEF ReconcileStart, Candidate
  <2>3. verdict = {}
    BY <1>1 DEF ReconcileStart, TypeOK
  <2>. QED BY <1>1, <2>2, <2>3 DEF TypeOK, ReconcileStart, rows, createVars, webhookVars,
           refundVars, effects
<1>2. ASSUME NEW c \in batch, ReconcileAsk(c)
      PROVE  TypeOK'
  BY <1>2 DEF TypeOK, ReconcileAsk, rows, createVars, webhookVars, refundVars, effects
<1>3. ASSUME NEW v \in verdict, NEW report \in Reports, ReconcileVerify(v, report)
      PROVE  TypeOK'
  BY <1>3, <1>v DEF TypeOK, ReconcileVerify, rows, createVars, webhookVars, refundVars, effects
<1>4. ASSUME NEW v \in verdict, ReconcileSkip(v)
      PROVE  TypeOK'
  BY <1>4 DEF TypeOK, ReconcileSkip, Advance, rows, createVars, webhookVars, refundVars, effects
<1>5. ASSUME NEW v \in verdict, ReconcileApply(v)
      PROVE  TypeOK'
  <2>1. v.report \in Reports
    BY <1>5, <1>v DEF ReconcileApply
  <2>2. /\ intent' \in [Intents -> IntentRow]
        /\ attempt' \in [Intents -> AttemptRow]
        /\ older' \subseteq Intents \X Intents
        /\ captures' \in [Intents -> SUBSET CaptureSources]
        /\ announced' \in [Intents -> Nat]
    BY <1>5, <1>v, <2>1, SettleType DEF ReconcileApply, CaptureSources
  <2>. QED BY <1>5, <2>2 DEF TypeOK, ReconcileApply, Advance, createVars, webhookVars, refundVars
<1>6. CASE Abandon
  BY <1>6 DEF TypeOK, Abandon, rows, createVars, webhookVars, refundVars, effects
<1>. QED BY <1>1, <1>2, <1>3, <1>4, <1>5, <1>6 DEF Reconcile, ReconcileRaise, ReconcileCrash

\* A step of a refund call keeps the types.
LEMMA RefundType ==
  ASSUME TypeOK, NEW r \in Refunds, RefundSteps(r)
  PROVE  TypeOK'
<1>i. RefundOf[r] \in Intents /\ RefundAmount[r] \in Nat
  OBVIOUS
<1>1. CASE RefundBegin(r)
  BY <1>1, <1>i DEF TypeOK, RefundBegin, Refundable, RefundStatuses, RefundCallStates, rows, createVars,
     webhookVars, workerVars, effects
<1>2. ASSUME NEW result \in {"succeeded", "failed", "processing"}, RefundAnswered(r, result)
      PROVE  TypeOK'
  BY <1>2 DEF TypeOK, RefundAnswered, RefundCallStates, rows, createVars, webhookVars,
     workerVars, effects
<1>3. CASE RefundEnd(r)
  <2>1. AfterRefund(refundSeen[r], RefundAmount[r]) \in IntentRow
    BY <1>i DEF AfterRefund, TypeOK, IntentRow, IntentStatuses
  <2>2. intent' \in [Intents -> IntentRow]
    BY <1>3, <1>i, <2>1 DEF RefundEnd, GaveBack, TypeOK
  <2>. QED BY <1>3, <2>2 DEF TypeOK, RefundEnd, GaveBack, RefundStatuses, RefundCallStates, createVars,
           webhookVars, workerVars, effects
<1>4. CASE RefundLost(r)
  BY <1>4 DEF TypeOK, RefundLost, RefundCallStates, rows, createVars, webhookVars,
     workerVars, effects
<1>. QED BY <1>1, <1>2, <1>3, <1>4 DEF RefundSteps

\* Every reachable state is well typed: no interleaving of the five kinds of
\* process produces a row, an event or a value in memory outside its domain.
THEOREM TypeCorrect == Spec => []TypeOK
<1>1. Init => TypeOK
  BY InitType
<1>2. TypeOK /\ [Next]_vars => TypeOK'
  <2>. SUFFICES ASSUME TypeOK, [Next]_vars PROVE TypeOK'
    OBVIOUS
  <2>1. CASE Next
    BY <2>1, CreateType, ProviderType, WebhookType, ReconcileType, RefundType DEF Next
  <2>2. CASE UNCHANGED vars
    BY <2>2 DEF TypeOK, vars, rows, createVars, webhookVars, workerVars, refundVars, effects
  <2>. QED BY <2>1, <2>2
<1>. QED BY <1>1, <1>2, PTL DEF Spec

-----------------------------------------------------------------------------
(* Every paid intent is backed by a charge, a journal and an event; every *)
(* refund is booked *)

IInv == TypeOK /\ NewsIsTrue /\ PaidIsBacked /\ RefundsInFlight /\ RefundsBooked

\* _apply_status never turns an intent into an absent one.
LEMMA StaysPresent ==
  ASSUME NEW s \in IntentStatuses, NEW t, NEW report
  PROVE  IntentAfter(s, t, report) # Absent
BY DEF IntentAfter, IntentStatuses, Absent

\* What the common financial part does to the money's record, for an intent whose
\* reported success is true: it only adds captures, pays no intent without one,
\* and creates no intent.
LEMMA SettleBacked ==
  ASSUME TypeOK, NewsIsTrue, PaidIsBacked,
         NEW i \in Intents, NEW held, NEW ahead, held.status \in AttemptStatuses \union {Absent},
         NEW report \in Reports, NEW source \in CaptureSources,
         Settle(i, held, ahead, report, source),
         report = "succeeded" => charge[i] = "paid"
  PROVE  \A j \in Intents :
           /\ intent'[j].status \in PaidStatuses => captures'[j] # {}
           /\ captures'[j] # {} => charge[j] = "paid"
           /\ captures'[j] # {} <=> announced'[j] > 0
           /\ captures[j] # {} => captures'[j] # {}
           /\ intent'[j].status = Absent => intent[j].status = Absent
<1>. SUFFICES ASSUME NEW j \in Intents
     PROVE  /\ intent'[j].status \in PaidStatuses => captures'[j] # {}
            /\ captures'[j] # {} => charge[j] = "paid"
            /\ captures'[j] # {} <=> announced'[j] > 0
            /\ captures[j] # {} => captures'[j] # {}
            /\ intent'[j].status = Absent => intent[j].status = Absent
  OBVIOUS
<1>t. /\ intent[i].status \in IntentStatuses \union {Absent}
      /\ announced[i] \in Nat
      /\ intent \in [Intents -> IntentRow]
  BY DEF TypeOK, IntentRow
<1>b. /\ Paid(j) => captures[j] # {}
      /\ captures[j] # {} => charge[j] = "paid"
      /\ captures[j] # {} <=> announced[j] > 0
  BY DEF PaidIsBacked
<1>1. CASE j # i
  <2>1. intent'[j] = intent[j] /\ captures'[j] = captures[j] /\ announced'[j] = announced[j]
    BY <1>1 DEF Settle, IsNews, RecordSuccess, effects, TypeOK
  <2>. QED BY <2>1, <1>b DEF Paid
<1>2. CASE j = i
  <2>1. intent'[i].status = IntentAfter(intent[i].status, held.status, report)
    BY <1>t DEF Settle, IsNews, IntentRow
  <2>2. CASE report = "succeeded" /\ intent[i].status # "succeeded"
    <3>1. captures'[i] = captures[i] \union {source} /\ announced'[i] = announced[i] + 1
      BY <2>2 DEF Settle, IsNews, RecordSuccess, TypeOK
    <3>2. intent'[i].status = Absent => intent[i].status = Absent
      BY <2>1, <1>t, StaysPresent
    <3>. QED BY <1>2, <2>2, <3>1, <3>2, <1>t
  <2>3. CASE ~(report = "succeeded" /\ intent[i].status # "succeeded")
    <3>1. captures'[i] = captures[i] /\ announced'[i] = announced[i]
      BY <2>3 DEF Settle, IsNews, effects
    <3>2. intent'[i].status \in PaidStatuses => intent[i].status \in PaidStatuses
      BY <2>1, <2>3, <1>t, OnlySuccessPays DEF PaidStatuses
    <3>3. intent'[i].status = Absent => intent[i].status = Absent
      BY <2>1, <1>t, StaysPresent
    <3>. QED BY <1>2, <1>b, <3>1, <3>2, <3>3 DEF Paid
  <2>. QED BY <2>2, <2>3
<1>. QED BY <1>1, <1>2

\* The create and cancel calls and the provider keep the invariant.
LEMMA CreateBacked ==
  ASSUME IInv, NEW i \in Intents, Create(i) \/ Cancel(i) \/ ProviderSettles(i)
  PROVE  NewsIsTrue' /\ PaidIsBacked' /\ RefundsInFlight' /\ RefundsBooked'
<1>. USE DEF IInv
<1>1. CASE CreateBegin(i)
  <2>1. NewsIsTrue'
    BY <1>1 DEF CreateBegin, NewsIsTrue, TypeOK, Absent, Events, Candidate, webhookVars,
       workerVars, effects
  <2>2. PaidIsBacked'
    BY <1>1 DEF CreateBegin, PaidIsBacked, Paid, PaidStatuses, TypeOK, effects
  <2>. QED BY <1>1, <2>1, <2>2 DEF CreateBegin, RefundsInFlight, RefundsBooked, refundVars, effects
<1>2. CASE ProviderAnswers(i)
  <2>1. charge[i] = "none" /\ \A j \in Intents \ {i} : charge'[j] = charge[j]
    BY <1>2 DEF ProviderAnswers, NewsIsTrue, TypeOK
  <2>2. NewsIsTrue'
    BY <1>2, <2>1 DEF ProviderAnswers, NewsIsTrue, TypeOK, Events, Candidate, rows, webhookVars,
       workerVars, effects
  <2>3. PaidIsBacked'
    BY <1>2, <2>1 DEF ProviderAnswers, PaidIsBacked, Paid, rows, effects
  <2>. QED BY <1>2, <2>2, <2>3 DEF ProviderAnswers, RefundsInFlight, RefundsBooked, refundVars, effects
<1>3. CASE CreateEnd(i)
  <2>1. NewsIsTrue'
    BY <1>3 DEF CreateEnd, IntentAfterInit, NewsIsTrue, TypeOK, Absent, Events, webhookVars,
       workerVars, effects
  <2>2. PaidIsBacked'
    BY <1>3 DEF CreateEnd, IntentAfterInit, PaidIsBacked, Paid, PaidStatuses, TypeOK, effects
  <2>. QED BY <1>3, <2>1, <2>2 DEF CreateEnd, RefundsInFlight, RefundsBooked, refundVars, effects
<1>4. CASE CreateLost(i)
  <2>1. NewsIsTrue'
    BY <1>4 DEF CreateLost, NewsIsTrue, TypeOK, rows, webhookVars, workerVars, effects
  <2>. QED BY <1>4, <2>1 DEF CreateLost, PaidIsBacked, Paid, RefundsInFlight, RefundsBooked,
           rows, refundVars, effects
<1>5. CASE CancelRead(i)
  BY <1>5 DEF CancelRead, NewsIsTrue, PaidIsBacked, Paid, RefundsInFlight, RefundsBooked, rows,
     webhookVars, workerVars, refundVars, effects
<1>6. CASE CancelWrite(i)
  <2>1. NewsIsTrue'
    BY <1>6 DEF CancelWrite, NewsIsTrue, TypeOK, Absent, webhookVars, workerVars, effects
  <2>2. PaidIsBacked'
    BY <1>6 DEF CancelWrite, PaidIsBacked, Paid, PaidStatuses, TypeOK, effects
  <2>. QED BY <1>6, <2>1, <2>2 DEF CancelWrite, RefundsInFlight, RefundsBooked, refundVars, effects
<1>7. CASE ProviderSettles(i)
  <2>1. charge[i] = "open" /\ \A j \in Intents \ {i} : charge'[j] = charge[j]
    BY <1>7 DEF ProviderSettles, TypeOK
  <2>2. NewsIsTrue'
    BY <1>7, <2>1 DEF ProviderSettles, NewsIsTrue, TypeOK, Events, Candidate, rows, createVars,
       webhookVars, workerVars, effects
  <2>3. PaidIsBacked'
    BY <1>7, <2>1 DEF ProviderSettles, PaidIsBacked, Paid, rows, effects
  <2>. QED BY <1>7, <2>2, <2>3 DEF ProviderSettles, RefundsInFlight, RefundsBooked, refundVars, effects
<1>. QED BY <1>1, <1>2, <1>3, <1>4, <1>5, <1>6, <1>7 DEF Create, Cancel

\* A webhook request keeps the invariant.
LEMMA WebhookBacked ==
  ASSUME IInv, NEW e \in Events, Webhook(e)
  PROVE  NewsIsTrue' /\ PaidIsBacked' /\ RefundsInFlight' /\ RefundsBooked'
<1>. USE DEF IInv
<1>e. e.intent \in Intents /\ e.report \in Reports
  BY DEF Events
<1>1. CASE WebhookReceive(e)
  <2>1. e.report = "succeeded" => charge[e.intent] = "paid"
    BY <1>1, <1>e DEF WebhookReceive, Deliverable, Verifiable, TypeOK, Charges
  <2>2. NewsIsTrue'
    BY <1>1, <2>1 DEF WebhookReceive, NewsIsTrue, TypeOK, rows, createVars, workerVars, effects
  <2>. QED BY <1>1, <2>2 DEF WebhookReceive, PaidIsBacked, Paid, RefundsInFlight, RefundsBooked,
           rows, refundVars, effects
<1>2. CASE WebhookIgnore(e) \/ WebhookRefuse(e) \/ WebhookLost(e)
  <2>1. /\ UNCHANGED <<rows, createVars, workerVars, refundVars, effects, charge>>
        /\ handling' = [handling EXCEPT ![e] = @ - 1]
    BY <1>2 DEF WebhookIgnore, WebhookRefuse, WebhookLost, Mark
  <2>2. NewsIsTrue'
    BY <2>1 DEF NewsIsTrue, TypeOK, rows, createVars, workerVars, effects
  <2>. QED BY <2>1, <2>2 DEF PaidIsBacked, Paid, RefundsInFlight, RefundsBooked, rows,
           refundVars, effects
<1>3. CASE WebhookApply(e)
  <2>1. /\ Settle(e.intent, attempt[e.intent], Ahead(e.intent), e.report, "webhook")
        /\ UNCHANGED <<createVars, workerVars, refundVars, charge>>
        /\ handling' = [handling EXCEPT ![e] = @ - 1]
    BY <1>3 DEF WebhookApply, Mark
  <2>2. e.report = "succeeded" => charge[e.intent] = "paid"
    BY <1>3 DEF WebhookApply, Mark, NewsIsTrue
  <2>3. attempt[e.intent].status \in AttemptStatuses \union {Absent}
    BY <1>e DEF TypeOK, AttemptRow
  <2>4. "webhook" \in CaptureSources
    BY DEF CaptureSources
  <2>5. \A j \in Intents :
           /\ intent'[j].status \in PaidStatuses => captures'[j] # {}
           /\ captures'[j] # {} => charge[j] = "paid"
           /\ captures'[j] # {} <=> announced'[j] > 0
           /\ captures[j] # {} => captures'[j] # {}
           /\ intent'[j].status = Absent => intent[j].status = Absent
    BY <1>e, <2>1, <2>2, <2>3, <2>4, SettleBacked
  <2>6. NewsIsTrue'
    BY <2>1, <2>5 DEF NewsIsTrue, TypeOK, createVars, workerVars
  <2>7. PaidIsBacked'
    BY <2>1, <2>5 DEF PaidIsBacked, Paid
  <2>8. RefundsInFlight' /\ RefundsBooked'
    BY <2>1, <2>5 DEF RefundsInFlight, RefundsBooked, refundVars
  <2>. QED BY <2>6, <2>7, <2>8
<1>. QED BY <1>1, <1>2, <1>3 DEF Webhook

\* A step of the reconciliation worker keeps the invariant.
LEMMA ReconcileBacked ==
  ASSUME IInv, Reconcile
  PROVE  NewsIsTrue' /\ PaidIsBacked' /\ RefundsInFlight' /\ RefundsBooked'
<1>. USE DEF IInv
<1>v. ASSUME NEW v \in verdict
      PROVE  /\ v.about.intent \in Intents
             /\ v.about.status \in AttemptStatuses
             /\ v.report \in Reports \union {"asked"}
  BY <1>v DEF TypeOK, Candidate
<1>1. ASSUME UNCHANGED <<rows, createVars, webhookVars, refundVars, effects, charge>>,
             \A v \in verdict' : v.report = "succeeded" => charge[v.about.intent] = "paid"
      PROVE  NewsIsTrue' /\ PaidIsBacked' /\ RefundsInFlight' /\ RefundsBooked'
  <2>1. NewsIsTrue'
    BY <1>1 DEF NewsIsTrue, rows, createVars, webhookVars, effects
  <2>. QED BY <1>1, <2>1 DEF PaidIsBacked, Paid, RefundsInFlight, RefundsBooked, rows,
           refundVars, effects
<1>2. ASSUME NEW S \in SUBSET Intents, ReconcileStart(S)
      PROVE  NewsIsTrue' /\ PaidIsBacked' /\ RefundsInFlight' /\ RefundsBooked'
  BY <1>1, <1>2 DEF ReconcileStart, NewsIsTrue
<1>3. ASSUME NEW c \in batch, ReconcileAsk(c)
      PROVE  NewsIsTrue' /\ PaidIsBacked' /\ RefundsInFlight' /\ RefundsBooked'
  BY <1>1, <1>3 DEF ReconcileAsk
<1>4. ASSUME NEW v \in verdict, NEW report \in Reports, ReconcileVerify(v, report)
      PROVE  NewsIsTrue' /\ PaidIsBacked' /\ RefundsInFlight' /\ RefundsBooked'
  <2>1. report = "succeeded" => charge[v.about.intent] = "paid"
    BY <1>4, <1>v DEF ReconcileVerify, Verifiable, TypeOK, Charges
  <2>. QED BY <1>1, <1>4, <2>1 DEF ReconcileVerify
<1>5. ASSUME NEW v \in verdict, ReconcileSkip(v)
      PROVE  NewsIsTrue' /\ PaidIsBacked' /\ RefundsInFlight' /\ RefundsBooked'
  BY <1>1, <1>5 DEF ReconcileSkip, Advance
<1>6. ASSUME NEW v \in verdict, ReconcileApply(v)
      PROVE  NewsIsTrue' /\ PaidIsBacked' /\ RefundsInFlight' /\ RefundsBooked'
  <2>1. /\ Settle(v.about.intent, v.about, v.about.ahead, v.report, "reconciliation")
        /\ UNCHANGED <<createVars, webhookVars, refundVars, charge>>
        /\ verdict' = {}
    BY <1>6 DEF ReconcileApply, Advance
  <2>2. v.report \in Reports /\ (v.report = "succeeded" => charge[v.about.intent] = "paid")
    BY <1>6, <1>v DEF ReconcileApply, NewsIsTrue
  <2>3. "reconciliation" \in CaptureSources
    BY DEF CaptureSources
  <2>4. \A j \in Intents :
           /\ intent'[j].status \in PaidStatuses => captures'[j] # {}
           /\ captures'[j] # {} => charge[j] = "paid"
           /\ captures'[j] # {} <=> announced'[j] > 0
           /\ captures[j] # {} => captures'[j] # {}
           /\ intent'[j].status = Absent => intent[j].status = Absent
    BY <1>v, <2>1, <2>2, <2>3, SettleBacked
  <2>5. NewsIsTrue'
    BY <2>1, <2>4 DEF NewsIsTrue, createVars, webhookVars
  <2>6. PaidIsBacked'
    BY <2>1, <2>4 DEF PaidIsBacked, Paid
  <2>7. RefundsInFlight' /\ RefundsBooked'
    BY <2>1, <2>4 DEF RefundsInFlight, RefundsBooked, refundVars
  <2>. QED BY <2>5, <2>6, <2>7
<1>7. CASE Abandon
  BY <1>1, <1>7 DEF Abandon
<1>. QED BY <1>2, <1>3, <1>4, <1>5, <1>6, <1>7 DEF Reconcile, ReconcileRaise, ReconcileCrash

\* A step of a refund call keeps the invariant.
LEMMA RefundBacked ==
  ASSUME IInv, NEW r \in Refunds, RefundSteps(r)
  PROVE  NewsIsTrue' /\ PaidIsBacked' /\ RefundsInFlight' /\ RefundsBooked'
<1>. USE DEF IInv
<1>i. RefundOf[r] \in Intents
  OBVIOUS
<1>1. CASE RefundBegin(r)
  <2>1. captures[RefundOf[r]] # {}
    BY <1>1, <1>i DEF RefundBegin, Refundable, PaidIsBacked, Paid, PaidStatuses
  <2>2. NewsIsTrue' /\ PaidIsBacked'
    BY <1>1 DEF RefundBegin, Refundable, NewsIsTrue, PaidIsBacked, Paid, rows, createVars, webhookVars,
       workerVars, effects
  <2>3. RefundsInFlight' /\ RefundsBooked'
    BY <1>1, <2>1 DEF RefundBegin, Refundable, RefundsInFlight, RefundsBooked, TypeOK, Absent, effects
  <2>. QED BY <2>2, <2>3
<1>2. ASSUME NEW result \in {"succeeded", "failed", "processing"}, RefundAnswered(r, result)
      PROVE  NewsIsTrue' /\ PaidIsBacked' /\ RefundsInFlight' /\ RefundsBooked'
  <2>1. NewsIsTrue' /\ PaidIsBacked'
    BY <1>2 DEF RefundAnswered, NewsIsTrue, PaidIsBacked, Paid, rows, createVars, webhookVars,
       workerVars, effects
  <2>2. returned \subseteq returned' /\ (result = "succeeded" => r \in returned')
    BY <1>2 DEF RefundAnswered
  <2>3. RefundsInFlight' /\ RefundsBooked'
    BY <1>2, <2>2 DEF RefundAnswered, RefundsInFlight, RefundsBooked, TypeOK, effects
  <2>. QED BY <2>1, <2>3
<1>3. CASE RefundEnd(r)
  <2>1. captures[RefundOf[r]] # {} /\ refund[r] = "pending"
    BY <1>3 DEF RefundEnd, GaveBack, RefundsInFlight
  <2>2. \A j \in Intents : /\ intent'[j].status \in PaidStatuses => captures[j] # {}
                           /\ intent'[j].status = Absent => intent[j].status = Absent
    <3>1. AfterRefund(refundSeen[r], RefundAmount[r]).status \in PaidStatuses \ {Absent}
      BY DEF AfterRefund, PaidStatuses, Absent
    <3>. QED BY <1>3, <1>i, <2>1, <3>1 DEF RefundEnd, GaveBack, PaidIsBacked, Paid, TypeOK
  <2>3. NewsIsTrue' /\ PaidIsBacked'
    BY <1>3, <2>2 DEF RefundEnd, GaveBack, NewsIsTrue, PaidIsBacked, Paid, createVars, webhookVars,
       workerVars, effects
  <2>4. RefundsInFlight'
    BY <1>3, <2>1 DEF RefundEnd, GaveBack, RefundsInFlight, TypeOK, effects
  <2>5. RefundsBooked'
    BY <1>3, <2>1 DEF RefundEnd, GaveBack, RefundsInFlight, RefundsBooked, TypeOK
  <2>. QED BY <2>3, <2>4, <2>5
<1>4. CASE RefundLost(r)
  BY <1>4 DEF RefundLost, NewsIsTrue, PaidIsBacked, Paid, RefundsInFlight, RefundsBooked, TypeOK,
     rows, createVars, webhookVars, workerVars, effects
<1>. QED BY <1>1, <1>2, <1>3, <1>4 DEF RefundSteps

\* The invariant holds in every reachable state.
THEOREM Backed == Spec => []IInv
<1>1. Init => IInv
  <2>. SUFFICES ASSUME Init PROVE IInv
    OBVIOUS
  <2>1. TypeOK
    BY InitType
  <2>2. NewsIsTrue /\ PaidIsBacked
    BY DEF Init, NewsIsTrue, PaidIsBacked, Paid, PaidStatuses, Absent
  <2>3. RefundsInFlight /\ RefundsBooked
    BY DEF Init, RefundsInFlight, RefundsBooked, Absent
  <2>. QED BY <2>1, <2>2, <2>3 DEF IInv
<1>2. TypeOK' /\ IInv /\ [Next]_vars => IInv'
  <2>. SUFFICES ASSUME TypeOK', IInv, [Next]_vars PROVE IInv'
    OBVIOUS
  <2>1. CASE Next
    BY <2>1, CreateBacked, WebhookBacked, ReconcileBacked, RefundBacked DEF Next, IInv
  <2>2. CASE UNCHANGED vars
    BY <2>2 DEF IInv, NewsIsTrue, PaidIsBacked, Paid, RefundsInFlight, RefundsBooked, vars, rows,
       createVars, webhookVars, workerVars, refundVars, effects
  <2>. QED BY <2>1, <2>2
<1>. QED BY <1>1, <1>2, TypeCorrect, PTL DEF Spec

\* No integrity gap, for any number of intents, refunds and deliveries: a paid
\* intent was charged, captured and announced.
THEOREM PaidBacked == Spec => []PaidIsBacked
BY Backed, PTL DEF IInv

\* A refund is journaled exactly when it succeeded, and only if the provider gave
\* the money back.
THEOREM RefundBooked == Spec => []RefundsBooked
BY Backed, PTL DEF IInv

-----------------------------------------------------------------------------
(* Paid for ever; without refunds, captured once *)

\* Settle leaves every other intent alone, keeps a paid intent paid and a
\* succeeded one succeeded, and keeps the reference it is given.
LEMMA SettleKeepsPaid ==
  ASSUME TypeOK, NEW i \in Intents, NEW held, NEW ahead, held.status \in AttemptStatuses \union {Absent},
         NEW report \in Reports, NEW source, Settle(i, held, ahead, report, source)
  PROVE  /\ \A j \in Intents : Paid(j) => Paid(j)'
         /\ \A j \in Intents : intent[j].status = "succeeded" => intent'[j].status = "succeeded"
         /\ \A j \in Intents \ {i} : intent'[j] = intent[j] /\ attempt'[j] = attempt[j]
<1>1. \A j \in Intents \ {i} : intent'[j] = intent[j] /\ attempt'[j] = attempt[j]
  BY DEF Settle, IsNews, TypeOK
<1>2. intent'[i].status = IntentAfter(intent[i].status, held.status, report)
  BY DEF Settle, IsNews, TypeOK, IntentRow
<1>3. /\ intent[i].status \in PaidStatuses => intent'[i].status \in PaidStatuses
      /\ intent[i].status = "succeeded" => intent'[i].status = "succeeded"
  BY <1>2 DEF IntentAfter, PaidStatuses
<1>. QED BY <1>1, <1>3 DEF Paid

\* What follows from a payment happens only after its create call, and no step takes
\* a payment back that nobody may cancel.
LEMMA CreateFirstStep ==
  ASSUME IInv, CreateComesFirst, [Next]_vars
  PROVE  CreateComesFirst' /\ \A i \in Intents \ Cancellable : Paid(i) => Paid(i)'
<1>. USE DEF IInv
<1>1. ASSUME NEW i \in Intents, Create(i)
      PROVE  CreateComesFirst' /\ \A j \in Intents \ Cancellable : Paid(j) => Paid(j)'
  <2>1. CASE CreateBegin(i)
    <3>1. calling[i] = "idle"
      BY <2>1 DEF CreateBegin, NewsIsTrue
    <3>. QED BY <2>1, <3>1 DEF CreateBegin, CreateComesFirst, Paid, PaidStatuses, TypeOK, Candidate,
             workerVars, refundVars
  <2>2. CASE ProviderAnswers(i)
    BY <2>2 DEF ProviderAnswers, CreateComesFirst, Paid, TypeOK, Candidate, rows, workerVars,
       refundVars
  <2>3. CASE CreateEnd(i)
    BY <2>3 DEF CreateEnd, CreateComesFirst, Paid, TypeOK, Candidate, workerVars, refundVars
  <2>4. CASE CreateLost(i)
    BY <2>4 DEF CreateLost, CreateComesFirst, Paid, TypeOK, Candidate, rows, workerVars, refundVars
  <2>. QED BY <1>1, <2>1, <2>2, <2>3, <2>4 DEF Create
<1>2. ASSUME NEW i \in Intents, Cancel(i)
      PROVE  CreateComesFirst' /\ \A j \in Intents \ Cancellable : Paid(j) => Paid(j)'
  <2>1. CASE CancelRead(i)
    BY <2>1 DEF CancelRead, CreateComesFirst, Paid, TypeOK, Candidate, rows, workerVars,
       refundVars
  <2>2. CASE CancelWrite(i)
    <3>1. i \in Cancellable
      BY <2>2 DEF CancelWrite, TypeOK
    <3>. QED BY <2>2, <3>1 DEF CancelWrite, CreateComesFirst, Paid, PaidStatuses, TypeOK,
             Candidate, workerVars, refundVars
  <2>. QED BY <1>2, <2>1, <2>2 DEF Cancel
<1>3. ASSUME UNCHANGED <<rows, createVars, batch, refundVars>>
      PROVE  CreateComesFirst' /\ \A j \in Intents \ Cancellable : Paid(j) => Paid(j)'
  BY <1>3 DEF CreateComesFirst, Paid, rows, createVars, refundVars
<1>4. ASSUME NEW i \in Intents, NEW held, NEW ahead, held.status \in AttemptStatuses \union {Absent},
             NEW report \in Reports, NEW source, Settle(i, held, ahead, report, source),
             calling[i] = "ended", batch' \subseteq batch, UNCHANGED <<createVars, refundVars>>
      PROVE  CreateComesFirst' /\ \A j \in Intents \ Cancellable : Paid(j) => Paid(j)'
  <2>1. /\ \A j \in Intents : Paid(j) => Paid(j)'
        /\ \A j \in Intents \ {i} : intent'[j] = intent[j] /\ attempt'[j] = attempt[j]
    BY <1>4, SettleKeepsPaid
  <2>2. CreateComesFirst'
    BY <1>4, <2>1 DEF CreateComesFirst, Paid, createVars, refundVars
  <2>. QED BY <2>1, <2>2
<1>5. ASSUME NEW e \in Events, Webhook(e)
      PROVE  CreateComesFirst' /\ \A j \in Intents \ Cancellable : Paid(j) => Paid(j)'
  <2>1. CASE WebhookApply(e)
    <3>1. e.intent \in Intents /\ e.report \in Reports
      BY DEF Events
    <3>2. /\ Settle(e.intent, attempt[e.intent], Ahead(e.intent), e.report, "webhook")
          /\ UNCHANGED <<createVars, refundVars>>
          /\ batch' = batch
      BY <2>1 DEF WebhookApply, Mark, workerVars
    <3>3. calling[e.intent] = "ended"
      BY <2>1, <3>1 DEF WebhookApply, CreateComesFirst
    <3>4. attempt[e.intent].status \in AttemptStatuses \union {Absent}
      BY <3>1 DEF TypeOK, AttemptRow
    <3>. QED BY <1>4, <3>1, <3>2, <3>3, <3>4
  <2>2. CASE ~WebhookApply(e)
    BY <1>3, <1>5, <2>2 DEF Webhook, WebhookReceive, WebhookIgnore, WebhookRefuse, WebhookLost,
       Mark, workerVars
  <2>. QED BY <2>1, <2>2
<1>6. ASSUME Reconcile
      PROVE  CreateComesFirst' /\ \A j \in Intents \ Cancellable : Paid(j) => Paid(j)'
  <2>1. ASSUME UNCHANGED <<rows, createVars, refundVars>>,
               \A c \in batch' : calling[c.intent] = "ended"
        PROVE  CreateComesFirst' /\ \A j \in Intents \ Cancellable : Paid(j) => Paid(j)'
    BY <2>1 DEF CreateComesFirst, Paid, rows, createVars, refundVars
  <2>2. ASSUME NEW S \in SUBSET Intents, ReconcileStart(S)
        PROVE  CreateComesFirst' /\ \A j \in Intents \ Cancellable : Paid(j) => Paid(j)'
    <3>1. \A c \in batch' : calling[c.intent] = "ended"
      BY <2>2 DEF ReconcileStart, Reconcilable, CreateComesFirst
    <3>. QED BY <2>1, <2>2, <3>1 DEF ReconcileStart
  <2>3. ASSUME NEW v \in verdict, ReconcileApply(v)
        PROVE  CreateComesFirst' /\ \A j \in Intents \ Cancellable : Paid(j) => Paid(j)'
    <3>1. /\ v.about \in batch
          /\ v.about.intent \in Intents
          /\ v.about.status \in AttemptStatuses \union {Absent}
          /\ v.report \in Reports
      BY <2>3 DEF TypeOK, Candidate, ReconcileApply
    <3>2. calling[v.about.intent] = "ended"
      BY <3>1 DEF CreateComesFirst
    <3>3. /\ Settle(v.about.intent, v.about, v.about.ahead, v.report, "reconciliation")
          /\ UNCHANGED <<createVars, refundVars>>
          /\ batch' \subseteq batch
      BY <2>3 DEF ReconcileApply, Advance
    <3>. QED BY <1>4, <3>1, <3>2, <3>3
  <2>4. ASSUME NEW v \in verdict, ReconcileSkip(v)
        PROVE  CreateComesFirst' /\ \A j \in Intents \ Cancellable : Paid(j) => Paid(j)'
    BY <2>1, <2>4 DEF ReconcileSkip, Advance, CreateComesFirst
  <2>5. CASE Abandon
    BY <2>1, <2>5 DEF Abandon
  <2>. QED BY <1>3, <1>6, <2>2, <2>3, <2>4, <2>5 DEF Reconcile, ReconcileAsk, ReconcileVerify,
           ReconcileRaise, ReconcileCrash
<1>7. ASSUME NEW r \in Refunds, RefundSteps(r)
      PROVE  CreateComesFirst' /\ \A j \in Intents \ Cancellable : Paid(j) => Paid(j)'
  <2>i. RefundOf[r] \in Intents
    OBVIOUS
  <2>1. CASE RefundBegin(r)
    <3>1. calling[RefundOf[r]] = "ended"
      BY <2>1, <2>i DEF RefundBegin, Refundable, CreateComesFirst, Paid, PaidStatuses
    <3>. QED BY <2>1, <3>1 DEF RefundBegin, Refundable, CreateComesFirst, Paid, TypeOK, rows, createVars, workerVars
  <2>2. ASSUME NEW result \in {"succeeded", "failed", "processing"}, RefundAnswered(r, result)
        PROVE  CreateComesFirst' /\ \A j \in Intents \ Cancellable : Paid(j) => Paid(j)'
    BY <2>2 DEF RefundAnswered, CreateComesFirst, Paid, TypeOK, rows, createVars, workerVars
  <2>3. CASE RefundEnd(r)
    <3>1. \A j \in Intents : /\ j # RefundOf[r] => intent'[j] = intent[j]
                             /\ Paid(j) => Paid(j)'
      BY <2>3, <2>i DEF RefundEnd, GaveBack, AfterRefund, Paid, PaidStatuses, TypeOK
    <3>2. calling[RefundOf[r]] = "ended"
      BY <2>3 DEF RefundEnd, GaveBack, CreateComesFirst
    <3>. QED BY <2>3, <3>1, <3>2 DEF RefundEnd, GaveBack, CreateComesFirst, Paid, TypeOK, createVars, workerVars
  <2>4. CASE RefundLost(r)
    BY <2>4 DEF RefundLost, CreateComesFirst, Paid, TypeOK, rows, createVars, workerVars
  <2>. QED BY <1>7, <2>1, <2>2, <2>3, <2>4 DEF RefundSteps
<1>8. ASSUME NEW i \in Intents, ProviderSettles(i)
      PROVE  CreateComesFirst' /\ \A j \in Intents \ Cancellable : Paid(j) => Paid(j)'
  BY <1>3, <1>8 DEF ProviderSettles, workerVars
<1>9. CASE UNCHANGED vars
  BY <1>3, <1>9 DEF vars, workerVars
<1>. QED BY <1>1, <1>2, <1>5, <1>6, <1>7, <1>8, <1>9 DEF Next

\* Everything about a payment follows its create call.
LEMMA CreateFirst == Spec => []CreateComesFirst
<1>1. Init => CreateComesFirst
  BY DEF Init, CreateComesFirst, Paid, PaidStatuses, Absent
<1>2. IInv /\ CreateComesFirst /\ [Next]_vars => CreateComesFirst'
  BY CreateFirstStep
<1>. QED BY <1>1, <1>2, Backed, PTL DEF Spec

\* A payment that nobody may cancel is, once paid, paid for ever, although four kinds
\* of process save intents they read long before.
THEOREM PaidForever == Spec => PaidIsForever
<1>1. IInv /\ CreateComesFirst /\ [Next]_vars => [\A i \in Intents \ Cancellable : Paid(i) => Paid(i)']_vars
  BY CreateFirstStep
<1>. QED BY <1>1, Backed, CreateFirst, PTL DEF Spec, PaidIsForever

\* The transaction's financial part captures at most once, when nobody refunds.
LEMMA SettleOnce ==
  ASSUME IInv, CapturedSaysSo, NEW i \in Intents, NEW held, NEW ahead,
         held.status \in AttemptStatuses \union {Absent}, NEW report \in Reports,
         NEW source \in CaptureSources, Settle(i, held, ahead, report, source),
         held.status = "succeeded" => intent[i].status = "succeeded",
         Applicable(intent[i].status, held.status, report), calling[i] = "ended",
         batch' \subseteq batch, answer' = answer, calling' = calling
  PROVE  CapturedSaysSo'
<1>. USE DEF IInv
<1>k. /\ \A j \in Intents : answer'[j].status # "succeeded"
      /\ \A c \in batch' : c.status # "succeeded"
  BY DEF CapturedSaysSo
<1>1. /\ \A j \in Intents : intent[j].status = "succeeded" => intent'[j].status = "succeeded"
      /\ \A j \in Intents \ {i} : intent'[j] = intent[j]
  BY SettleKeepsPaid
<1>2. \A j \in Intents \ {i} : captures'[j] = captures[j] /\ announced'[j] = announced[j]
  BY DEF Settle, IsNews, RecordSuccess, effects, TypeOK
<1>a. /\ \A j \in Intents \ {i} : attempt'[j] = attempt[j]
      /\ attempt'[i].status = AttemptAfter(held.status, report)
  BY DEF Settle, IsNews, TypeOK
<1>s. intent'[i].status = IntentAfter(intent[i].status, held.status, report)
  BY DEF Settle, IsNews, TypeOK, IntentRow
<1>t. attempt'[i].status = "succeeded" => intent'[i].status = "succeeded"
  BY <1>a, <1>s DEF AttemptAfter, IntentAfter
<1>3. CASE report = "succeeded" /\ intent[i].status # "succeeded"
  <2>0. intent[i].status # "cancelled"
    BY <1>3 DEF Applicable, CanMove, IntentNext
  <2>1. captures[i] = {} /\ announced[i] = 0
    BY <1>3, <2>0 DEF CapturedSaysSo, PaidIsBacked, TypeOK
  <2>2. captures'[i] = {source} /\ announced'[i] = 1
    BY <1>3, <2>1 DEF Settle, IsNews, RecordSuccess, TypeOK
  <2>3. intent'[i].status = "succeeded"
    BY <1>3, <1>s DEF IntentAfter, AttemptAfter
  <2>4. \A j \in Intents :
           /\ captures'[j] # {} => intent'[j].status \in {"succeeded", "cancelled"}
                                     /\ calling'[j] = "ended"
           /\ attempt'[j].status = "succeeded" => intent'[j].status = "succeeded"
           /\ announced'[j] <= 1
    BY <1>1, <1>2, <1>a, <2>2, <2>3 DEF CapturedSaysSo
  <2>5. \A j \in Intents : \E s \in CaptureSources : captures'[j] \subseteq {s}
    BY <1>2, <2>2 DEF CapturedSaysSo
  <2>. QED BY <1>k, <2>4, <2>5 DEF CapturedSaysSo
<1>4. CASE ~(report = "succeeded" /\ intent[i].status # "succeeded")
  <2>1. captures'[i] = captures[i] /\ announced'[i] = announced[i]
    BY <1>4 DEF Settle, IsNews, effects
  <2>2. intent[i].status = "cancelled" => intent'[i].status = "cancelled"
    BY <1>4, <1>s DEF IntentAfter, AttemptAfter
  <2>4. \A j \in Intents :
           /\ captures'[j] # {} => intent'[j].status \in {"succeeded", "cancelled"}
                                     /\ calling'[j] = "ended"
           /\ attempt'[j].status = "succeeded" => intent'[j].status = "succeeded"
           /\ announced'[j] <= 1
    BY <1>1, <1>2, <1>a, <1>t, <2>1, <2>2 DEF CapturedSaysSo
  <2>5. \A j \in Intents : \E s \in CaptureSources : captures'[j] \subseteq {s}
    BY <1>2, <2>1 DEF CapturedSaysSo
  <2>. QED BY <1>k, <2>4, <2>5 DEF CapturedSaysSo
<1>. QED BY <1>3, <1>4

\* Without refunds, every step keeps "captured says so".
LEMMA OnceStep ==
  ASSUME Refunds = {}, IInv, CreateComesFirst, CapturedSaysSo, [Next]_vars
  PROVE  CapturedSaysSo'
<1>. USE DEF IInv
<1>u. ASSUME UNCHANGED <<intent, attempt, calling, answer, effects>>,
             \A c \in batch' : c.status # "succeeded"
      PROVE  CapturedSaysSo'
  BY <1>u DEF CapturedSaysSo, effects
<1>0. \A c \in batch : c.status # "succeeded"
  BY DEF CapturedSaysSo
<1>1. ASSUME NEW i \in Intents, Create(i)
      PROVE  CapturedSaysSo'
  <2>1. CASE CreateBegin(i)
    <3>1. captures[i] = {}
      BY <2>1 DEF CreateBegin, CapturedSaysSo, Absent
    <3>. QED BY <2>1, <3>1 DEF CreateBegin, CapturedSaysSo, TypeOK, workerVars, effects
  <2>2. CASE ProviderAnswers(i)
    BY <2>2 DEF ProviderAnswers, InitResults, CapturedSaysSo, TypeOK, rows, workerVars, effects
  <2>3. CASE CreateEnd(i)
    <3>1. captures[i] = {}
      BY <2>3 DEF CreateEnd, CreateComesFirst, CapturedSaysSo, Paid, PaidStatuses
    <3>. QED BY <2>3, <3>1 DEF CreateEnd, CapturedSaysSo, TypeOK, workerVars, effects
  <2>4. CASE CreateLost(i)
    BY <1>0, <2>4 DEF CreateLost, CapturedSaysSo, TypeOK, rows, workerVars, effects
  <2>. QED BY <1>1, <2>1, <2>2, <2>3, <2>4 DEF Create
<1>2. ASSUME NEW i \in Intents, Cancel(i)
      PROVE  CapturedSaysSo'
  <2>1. CASE CancelRead(i)
    BY <1>0, <1>u, <2>1 DEF CancelRead, rows, workerVars
  <2>2. CASE CancelWrite(i)
    BY <2>2 DEF CancelWrite, CapturedSaysSo, TypeOK, workerVars, effects
  <2>. QED BY <1>2, <2>1, <2>2 DEF Cancel
<1>3. ASSUME NEW i \in Intents, ProviderSettles(i)
      PROVE  CapturedSaysSo'
  BY <1>0, <1>u, <1>3 DEF ProviderSettles, rows, createVars, workerVars
<1>4. ASSUME NEW i \in Intents, NEW held, NEW ahead, held.status \in AttemptStatuses \union {Absent},
             NEW report \in Reports, NEW source \in CaptureSources,
             Settle(i, held, ahead, report, source),
             held.status = "succeeded" => intent[i].status = "succeeded",
             Applicable(intent[i].status, held.status, report), calling[i] = "ended",
             batch' \subseteq batch, answer' = answer, calling' = calling
      PROVE  CapturedSaysSo'
  BY <1>4, SettleOnce
<1>5. ASSUME NEW e \in Events, Webhook(e)
      PROVE  CapturedSaysSo'
  <2>1. CASE WebhookApply(e)
    <3>1. e.intent \in Intents /\ e.report \in Reports /\ "webhook" \in CaptureSources
      BY DEF Events, CaptureSources
    <3>2. /\ Settle(e.intent, attempt[e.intent], Ahead(e.intent), e.report, "webhook")
          /\ UNCHANGED <<calling, answer>>
          /\ batch' \subseteq batch
      BY <2>1 DEF WebhookApply, Mark, workerVars, createVars
    <3>3. attempt[e.intent].status \in AttemptStatuses \union {Absent}
      BY <3>1 DEF TypeOK, AttemptRow
    <3>4. attempt[e.intent].status = "succeeded" => intent[e.intent].status = "succeeded"
      BY <3>1 DEF CapturedSaysSo
    <3>5. /\ Applicable(intent[e.intent].status, attempt[e.intent].status, e.report)
          /\ calling[e.intent] = "ended"
      BY <2>1, <3>1 DEF WebhookApply, Accepted, CreateComesFirst
    <3>. QED BY <1>4, <3>1, <3>2, <3>3, <3>4, <3>5
  <2>2. CASE ~WebhookApply(e)
    BY <1>0, <1>u, <1>5, <2>2 DEF Webhook, WebhookReceive, WebhookIgnore, WebhookRefuse,
       WebhookLost, Mark, rows, createVars, workerVars
  <2>. QED BY <2>1, <2>2
<1>6. ASSUME Reconcile
      PROVE  CapturedSaysSo'
  <2>1. ASSUME NEW S \in SUBSET Intents, ReconcileStart(S)
        PROVE  CapturedSaysSo'
    <3>1. \A c \in batch' : c.status # "succeeded"
      BY <2>1 DEF ReconcileStart, Reconcilable
    <3>. QED BY <1>u, <2>1, <3>1 DEF ReconcileStart, rows, createVars
  <2>2. ASSUME NEW v \in verdict, ReconcileApply(v)
        PROVE  CapturedSaysSo'
    <3>1. /\ v.about \in batch
          /\ v.about.intent \in Intents
          /\ v.about.status \in AttemptStatuses \union {Absent}
          /\ v.report \in Reports
          /\ "reconciliation" \in CaptureSources
      BY <2>2 DEF TypeOK, Candidate, ReconcileApply, CaptureSources
    <3>2. /\ Settle(v.about.intent, v.about, v.about.ahead, v.report, "reconciliation")
          /\ UNCHANGED <<calling, answer>>
          /\ batch' \subseteq batch
      BY <2>2 DEF ReconcileApply, Advance, createVars
    <3>3. v.about.status # "succeeded"
      BY <1>0, <3>1
    <3>4. /\ Applicable(intent[v.about.intent].status, v.about.status, v.report)
          /\ calling[v.about.intent] = "ended"
      BY <2>2, <3>1 DEF ReconcileApply, Settleable, CreateComesFirst
    <3>. QED BY <1>4, <3>1, <3>2, <3>3, <3>4
  <2>3. ASSUME NEW v \in verdict, ReconcileSkip(v)
        PROVE  CapturedSaysSo'
    BY <1>0, <1>u, <2>3 DEF ReconcileSkip, Advance, rows, createVars
  <2>4. CASE Abandon
    BY <1>u, <2>4 DEF Abandon, rows, createVars
  <2>5. ASSUME UNCHANGED <<rows, createVars, batch, effects>>
        PROVE  CapturedSaysSo'
    BY <1>0, <1>u, <2>5 DEF rows, createVars
  <2>. QED BY <1>6, <2>1, <2>2, <2>3, <2>4, <2>5 DEF Reconcile, ReconcileAsk, ReconcileVerify,
           ReconcileRaise, ReconcileCrash
<1>7. CASE UNCHANGED vars
  BY <1>0, <1>u, <1>7 DEF vars, rows, createVars, workerVars
<1>. QED BY <1>1, <1>2, <1>3, <1>5, <1>6, <1>7 DEF Next

\* As long as nobody refunds, a payment is captured and announced at most once,
\* whoever confirms or cancels it, in whatever order and however often.
THEOREM CapturedOnce ==
  ASSUME Refunds = {}
  PROVE  Spec => []CaptureOnce
<1>1. Init => CapturedSaysSo
  <2>. SUFFICES ASSUME Init PROVE CapturedSaysSo
    OBVIOUS
  <2>1. \A i \in Intents : captures[i] = {} /\ announced[i] = 0
    BY DEF Init
  <2>2. "webhook" \in CaptureSources
    BY DEF CaptureSources
  <2>. QED BY <2>1, <2>2 DEF Init, CapturedSaysSo, Absent
<1>2. IInv /\ CreateComesFirst /\ CapturedSaysSo /\ [Next]_vars => CapturedSaysSo'
  BY OnceStep
<1>3. CapturedSaysSo => CaptureOnce
  <2>. SUFFICES ASSUME CapturedSaysSo, NEW i \in Intents
       PROVE  announced[i] <= 1 /\ Cardinality(captures[i]) <= 1
    BY DEF CaptureOnce
  <2>1. PICK s \in CaptureSources : captures[i] = {} \/ captures[i] = {s}
    BY DEF CapturedSaysSo
  <2>2. Cardinality({}) = 0 /\ Cardinality({s}) = 1
    BY FS_EmptySet, FS_Singleton
  <2>3. Cardinality(captures[i]) \in {0, 1}
    BY <2>1, <2>2
  <2>4. announced[i] <= 1
    BY DEF CapturedSaysSo
  <2>. QED BY <2>3, <2>4
<1>. QED BY <1>1, <1>2, <1>3, Backed, CreateFirst, PTL DEF Spec
-----------------------------------------------------------------------------
(* Refunds never give back more than was collected *)

\* The refunds that count against a payment's amount, those asked, accepted and
\* done, fit in it; each is of a captured payment; and no money moves but for them,
\* and for those whose refusal was an error page.
RefundsFit ==
  /\ \A i \in Intents : Total(ActiveRefunds(i)) <= Amount
  /\ \A r \in Refunds : refund[r] # Absent => captures[RefundOf[r]] # {}
  /\ \A r \in returned :
       /\ r \in ErrorPages \/ refund[r] \in {"pending", "processing", "succeeded"}
       /\ r \in ErrorPages \/ refundCall[r] # "failed"
       /\ refund[r] # Absent /\ refundCall[r] \notin {"idle", "calling"}

\* A set of refunds is finite, so its total is a number, no larger than that of a
\* larger set.
LEMMA RefundTotals ==
  ASSUME NEW S \in SUBSET Refunds, NEW T \in SUBSET S
  PROVE  /\ IsFiniteSet(S) /\ Total(S) \in Nat
         /\ IsFiniteSet(T) /\ Total(T) \in Nat /\ Total(T) <= Total(S)
<1>1. IsFiniteSet(S) /\ IsFiniteSet(T)
  BY FS_Subset
<1>2. \A r \in S : RefundAmount[r] \in Nat
  OBVIOUS
<1>. QED BY <1>1, <1>2, SumType, SumOfPart DEF Total

\* Who is not a refund call leaves the refunds alone, and no capture disappears.
LEMMA OthersLeaveRefunds ==
  ASSUME TypeOK, [Next]_vars, \A r \in Refunds : ~RefundSteps(r)
  PROVE  /\ UNCHANGED refundVars
         /\ \A i \in Intents : captures[i] \subseteq captures'[i]
<1>1. ASSUME NEW i \in Intents, Create(i) \/ Cancel(i) \/ ProviderSettles(i)
      PROVE  UNCHANGED <<refundVars, captures>>
  BY <1>1 DEF Create, CreateBegin, ProviderAnswers, CreateEnd, CreateLost, Cancel, CancelRead,
     CancelWrite, ProviderSettles, effects
<1>2. ASSUME NEW i, NEW held, NEW ahead, NEW report, NEW source, Settle(i, held, ahead, report, source)
      PROVE  \A j \in Intents : captures[j] \subseteq captures'[j]
  BY <1>2 DEF TypeOK, Settle, RecordSuccess, effects
<1>3. ASSUME NEW e \in Events, Webhook(e)
      PROVE  UNCHANGED refundVars /\ \A j \in Intents : captures[j] \subseteq captures'[j]
  BY <1>2, <1>3 DEF Webhook, WebhookReceive, WebhookIgnore, WebhookRefuse, WebhookApply,
     WebhookLost, Mark, effects
<1>4. ASSUME Reconcile
      PROVE  UNCHANGED refundVars /\ \A j \in Intents : captures[j] \subseteq captures'[j]
  BY <1>2, <1>4 DEF Reconcile, ReconcileStart, ReconcileAsk, ReconcileVerify, ReconcileSkip,
     ReconcileApply, ReconcileRaise, ReconcileCrash, Abandon, Advance, effects
<1>5. CASE UNCHANGED vars
  BY <1>5 DEF vars, effects
<1>. QED BY <1>1, <1>3, <1>4, <1>5 DEF Next

\* A refund call asks for no more than is left, counts as long as it may move
\* money, and does not move any once it is refused.
LEMMA RefundStepFits ==
  ASSUME IInv, RefundsFit, NEW r \in Refunds, RefundSteps(r)
  PROVE  RefundsFit'
<1>. USE DEF IInv
<1>t. /\ refund \in [Refunds -> RefundStatuses \union {Absent}]
      /\ refundCall \in [Refunds -> RefundCallStates]
      /\ returned \subseteq Refunds
  BY DEF TypeOK
<1>c. captures' = captures
  BY DEF RefundSteps, RefundBegin, RefundAnswered, RefundEnd, RefundLost, effects
<1>k. ASSUME \A i \in Intents : ActiveRefunds(i)' \subseteq ActiveRefunds(i)
      PROVE  \A i \in Intents : Total(ActiveRefunds(i)') <= Amount
  <2>. SUFFICES ASSUME NEW i \in Intents PROVE Total(ActiveRefunds(i)') <= Amount
    OBVIOUS
  <2>1. ActiveRefunds(i) \in SUBSET Refunds /\ ActiveRefunds(i)' \in SUBSET ActiveRefunds(i)
    BY <1>k DEF ActiveRefunds
  <2>2. /\ Total(ActiveRefunds(i)) \in Nat /\ Total(ActiveRefunds(i)') \in Nat
        /\ Total(ActiveRefunds(i)') <= Total(ActiveRefunds(i))
    BY <2>1, RefundTotals
  <2>3. Total(ActiveRefunds(i)) <= Amount
    BY DEF RefundsFit
  <2>. QED BY <2>2, <2>3
<1>1. CASE RefundBegin(r)
  <2>. DEFINE p == RefundOf[r]
  <2>1. /\ p \in Intents /\ refund[r] = Absent
        /\ Total(ActiveRefunds(p)) + RefundAmount[r] <= Amount
        /\ refund' = [refund EXCEPT ![r] = "pending"] /\ returned' = returned
        /\ refundCall' = [refundCall EXCEPT ![r] = "calling"]
        /\ captures[p] # {}
    BY <1>1 DEF RefundBegin, Refundable, PaidIsBacked, Paid, PaidStatuses
  <2>2. ActiveRefunds(p)' = ActiveRefunds(p) \union {r} /\ r \notin ActiveRefunds(p)
    BY <1>t, <2>1 DEF ActiveRefunds, Absent
  <2>3. Total(ActiveRefunds(p)') <= Amount
    <3>1. IsFiniteSet(ActiveRefunds(p))
      BY RefundTotals DEF ActiveRefunds
    <3>2. \A s \in ActiveRefunds(p) \union {r} : RefundAmount[s] \in Nat
      BY DEF ActiveRefunds
    <3>3. Total(ActiveRefunds(p) \union {r}) = Total(ActiveRefunds(p)) + RefundAmount[r]
      BY <2>2, <3>1, <3>2, SumOfAdded DEF Total
    <3>. QED BY <2>1, <2>2, <3>3
  <2>4. ASSUME NEW i \in Intents, i # p
        PROVE  Total(ActiveRefunds(i)') <= Amount
    <3>1. ActiveRefunds(i)' = ActiveRefunds(i)
      BY <1>t, <2>1, <2>4 DEF ActiveRefunds
    <3>. QED BY <3>1 DEF RefundsFit
  <2>5. \A s \in Refunds : refund'[s] # Absent => captures[RefundOf[s]] # {}
    BY <1>t, <2>1 DEF RefundsFit
  <2>6. r \notin returned
    BY <2>1 DEF RefundsFit
  <2>7. \A s \in returned : refund'[s] = refund[s] /\ refundCall'[s] = refundCall[s]
    BY <1>t, <2>1, <2>6
  <2>. QED BY <1>c, <2>1, <2>3, <2>4, <2>5, <2>7 DEF RefundsFit, Total
<1>2. ASSUME NEW result \in {"succeeded", "failed", "processing"}, RefundAnswered(r, result)
      PROVE  RefundsFit'
  <2>1. /\ refundCall[r] = "calling" /\ refund' = refund
        /\ refundCall' = [refundCall EXCEPT ![r] = result]
        /\ returned' \subseteq returned \union {r}
        /\ result = "failed" /\ r \notin ErrorPages => returned' = returned
    BY <1>2 DEF RefundAnswered
  <2>2. refund[r] = "pending" /\ r \notin returned
    BY <2>1 DEF RefundsInFlight, RefundsFit
  <2>3. \A i \in Intents : Total(ActiveRefunds(i)') <= Amount
    BY <1>k, <2>1 DEF ActiveRefunds
  <2>4. ASSUME NEW s \in returned'
        PROVE  /\ s \in ErrorPages \/ refund[s] \in {"pending", "processing", "succeeded"}
               /\ s \in ErrorPages \/ refundCall'[s] # "failed"
               /\ refund[s] # Absent /\ refundCall'[s] \notin {"idle", "calling"}
    <3>1. CASE s = r
      BY <1>2, <1>t, <2>1, <2>2, <3>1 DEF Absent
    <3>2. CASE s # r
      BY <1>t, <2>1, <3>2 DEF RefundsFit
    <3>. QED BY <3>1, <3>2
  <2>. QED BY <1>c, <2>1, <2>3, <2>4 DEF RefundsFit, Total
<1>3. CASE RefundEnd(r) \/ RefundLost(r)
  <2>1. /\ \/ refund' = refund
           \/ refundCall[r] # "calling" /\ refund' = [refund EXCEPT ![r] = refundCall[r]]
        /\ refundCall[r] \in {"calling", "succeeded", "failed", "processing"}
        /\ refundCall' = [refundCall EXCEPT ![r] = "ended"]
        /\ returned' = returned
    BY <1>3 DEF RefundEnd, RefundLost
  <2>2. refund[r] = "pending" /\ captures[RefundOf[r]] # {}
    BY <2>1 DEF RefundsInFlight
  <2>3. \A i \in Intents : Total(ActiveRefunds(i)') <= Amount
    BY <1>k, <1>t, <2>1, <2>2 DEF ActiveRefunds
  <2>4. \A s \in Refunds : refund'[s] # Absent => captures[RefundOf[s]] # {}
    BY <1>t, <2>1, <2>2 DEF RefundsFit
  <2>5. ASSUME NEW s \in returned
        PROVE  /\ s \in ErrorPages \/ refund'[s] \in {"pending", "processing", "succeeded"}
               /\ s \in ErrorPages \/ refundCall'[s] # "failed"
               /\ refund'[s] # Absent /\ refundCall'[s] \notin {"idle", "calling"}
    <3>1. CASE s = r
      BY <1>t, <2>1, <3>1 DEF RefundsFit, Absent
    <3>2. CASE s # r
      BY <1>t, <2>1, <3>2 DEF RefundsFit
    <3>. QED BY <3>1, <3>2
  <2>. QED BY <1>c, <2>1, <2>3, <2>4, <2>5 DEF RefundsFit, Total
<1>. QED BY <1>1, <1>2, <1>3 DEF RefundSteps

\* Every step leaves the refunds fitting.
LEMMA NextFits == IInv /\ RefundsFit /\ [Next]_vars => RefundsFit'
<1>. SUFFICES ASSUME IInv, RefundsFit, [Next]_vars PROVE RefundsFit'
  OBVIOUS
<1>1. CASE \E r \in Refunds : RefundSteps(r)
  BY <1>1, RefundStepFits
<1>2. CASE \A r \in Refunds : ~RefundSteps(r)
  <2>1. /\ UNCHANGED <<refund, refundCall, returned>>
        /\ \A i \in Intents : captures[i] \subseteq captures'[i]
    BY <1>2, OthersLeaveRefunds DEF IInv, refundVars
  <2>2. \A r \in Refunds : refund'[r] # Absent => captures'[RefundOf[r]] # {}
    BY <2>1 DEF RefundsFit
  <2>. QED BY <2>1, <2>2 DEF RefundsFit, ActiveRefunds, Total
<1>. QED BY <1>1, <1>2

\* Whatever refund calls do at once, crash or leave open, the refunds that may move
\* money fit in the payment's amount.
LEMMA Fits == Spec => []RefundsFit
<1>1. Init => RefundsFit
  <2>. SUFFICES ASSUME Init PROVE RefundsFit
    OBVIOUS
  <2>1. returned = {} /\ \A r \in Refunds : refund[r] = Absent
    BY DEF Init
  <2>2. \A i \in Intents : ActiveRefunds(i) = {}
    BY <2>1 DEF ActiveRefunds, Absent
  <2>3. Total({}) = 0
    BY SumOfNone DEF Total
  <2>4. \A i \in Intents : Total(ActiveRefunds(i)) <= Amount
    BY <2>2, <2>3, PaymentsAssumption
  <2>. QED BY <2>1, <2>4 DEF RefundsFit
<1>. QED BY <1>1, NextFits, Backed, PTL DEF Spec

\* The money the provider gives back for a payment never exceeds what it collected,
\* but by refunds whose refusal was a gateway's error page, and is given back only for
\* a payment that was collected (RefundUseCases.create).
THEOREM RefundedWithinCapture == Spec => []RefundsWithinCapture
<1>1. IInv /\ RefundsFit => RefundsWithinCapture
  <2>. SUFFICES ASSUME IInv, RefundsFit, NEW i \in Intents
       PROVE  LET back == {r \in returned : RefundOf[r] = i}
                  denied == {r \in back : refund[r] = "failed"}
              IN  /\ Total(back \ denied) <= Amount
                  /\ denied \subseteq ErrorPages
                  /\ back # {} => charge[i] = "paid"
    BY DEF RefundsWithinCapture
  <2>. DEFINE back == {r \in returned : RefundOf[r] = i}
              denied == {r \in back : refund[r] = "failed"}
  <2>t. returned \subseteq Refunds /\ refund \in [Refunds -> RefundStatuses \union {Absent}]
    BY DEF IInv, TypeOK
  <2>1. back \ denied \in SUBSET ActiveRefunds(i) /\ ActiveRefunds(i) \in SUBSET Refunds
    BY <2>t DEF RefundsFit, ActiveRefunds, RefundStatuses
  <2>2. Total(back \ denied) <= Total(ActiveRefunds(i)) /\ Total(back \ denied) \in Nat
        /\ Total(ActiveRefunds(i)) \in Nat
    BY <2>1, RefundTotals
  <2>3. Total(ActiveRefunds(i)) <= Amount
    BY DEF RefundsFit
  <2>4. back # {} => charge[i] = "paid"
    BY <2>t DEF RefundsFit, PaidIsBacked, IInv, Absent
  <2>5. denied \subseteq ErrorPages
    BY DEF RefundsFit
  <2>. QED BY <2>2, <2>3, <2>4, <2>5
<1>. QED BY <1>1, Backed, Fits, PTL

-----------------------------------------------------------------------------
(* A failed payment was not charged *)

\* A failure that a process holds or has saved is final at the provider: no charge
\* was opened and none can be any more, or it was declined.
FailureIsTrue ==
  /\ \A i \in Intents :
       /\ calling[i] = "answered" /\ answer[i].status = "failed" => charge[i] = "none"
       /\ intent[i].status = "failed" =>
            charge[i] \in {"none", "declined"} /\ calling[i] \in {"answered", "ended"}
  /\ \A e \in Events : handling[e] > 0 /\ e.report = "failed" => charge[e.intent] = "declined"
  /\ \A v \in verdict : v.report = "failed" => charge[v.about.intent] = "declined"

\* _apply_status calls an intent failed only on a reported failure.
LEMMA OnlyFailureFails ==
  ASSUME NEW s \in IntentStatuses \union {Absent}, NEW t \in AttemptStatuses \union {Absent},
         NEW report \in Reports,
         IntentAfter(s, t, report) = "failed"
  PROVE  s = "failed" \/ report = "failed"
BY DEF IntentAfter

\* The provider reports a failure only of what it has declined, when what it calls
\* failed is never paid later.
LEMMA FailedMeansDeclined ==
  ASSUME ~LateSuccess, TypeOK, NEW i \in Intents
  PROVE  /\ "failed" \in Verifiable(i) => charge[i] = "declined"
         /\ "failed" \in Deliverable(i) => charge[i] = "declined"
<1>1. charge[i] \in Charges
  BY DEF TypeOK
<1>2. "failed" \in Verifiable(i) => charge[i] = "declined"
  BY <1>1 DEF Verifiable, Charges
<1>. QED BY <1>2 DEF Deliverable

\* Saving a reported failure is saving a true one.
LEMMA SettleFails ==
  ASSUME IInv, FailureIsTrue, NEW i \in Intents, NEW held, NEW ahead,
         held.status \in AttemptStatuses \union {Absent}, NEW report \in Reports, NEW source,
         Settle(i, held, ahead, report, source), UNCHANGED <<charge, calling>>,
         report = "failed" => charge[i] = "declined"
  PROVE  \A j \in Intents : intent'[j].status = "failed" =>
           charge[j] \in {"none", "declined"} /\ calling[j] \in {"answered", "ended"}
<1>. SUFFICES ASSUME NEW j \in Intents, intent'[j].status = "failed"
     PROVE  charge[j] \in {"none", "declined"} /\ calling[j] \in {"answered", "ended"}
  OBVIOUS
<1>1. CASE intent[j].status = "failed"
  BY <1>1 DEF FailureIsTrue
<1>2. CASE intent[j].status # "failed"
  <2>1. intent \in [Intents -> IntentRow] /\ intent[i].status \in IntentStatuses \union {Absent}
    BY DEF IInv, TypeOK, IntentRow
  <2>2. j = i /\ intent'[i].status = IntentAfter(intent[i].status, held.status, report)
    BY <1>2, <2>1 DEF Settle, IntentRow
  <2>3. report = "failed"
    BY <1>2, <2>1, <2>2, OnlyFailureFails
  <2>4. calling[i] \in CallStates /\ calling[i] \notin {"idle", "calling"}
    BY <2>3 DEF IInv, TypeOK, NewsIsTrue
  <2>. QED BY <2>2, <2>3, <2>4 DEF CallStates
<1>. QED BY <1>1, <1>2

\* Every step keeps failures true, when what is reported failed is never paid later.
LEMMA FailureStep ==
  ASSUME ~LateSuccess, IInv, FailureIsTrue, [Next]_vars
  PROVE  FailureIsTrue'
<1>. USE DEF IInv
<1>u. ASSUME UNCHANGED <<intent, calling, answer, charge>>,
             \A e \in Events : handling'[e] > 0 /\ e.report = "failed" =>
               charge[e.intent] = "declined",
             \A v \in verdict' : v.report = "failed" => charge[v.about.intent] = "declined"
      PROVE  FailureIsTrue'
  BY <1>u DEF FailureIsTrue
<1>h. /\ \A e \in Events : handling[e] > 0 /\ e.report = "failed" => charge[e.intent] = "declined"
      /\ \A v \in verdict : v.report = "failed" => charge[v.about.intent] = "declined"
  BY DEF FailureIsTrue
<1>1. ASSUME NEW i \in Intents, Create(i)
      PROVE  FailureIsTrue'
  <2>1. CASE CreateBegin(i)
    BY <2>1 DEF CreateBegin, FailureIsTrue, TypeOK, webhookVars, workerVars
  <2>2. CASE ProviderAnswers(i)
    <3>1. /\ calling[i] = "calling" /\ charge[i] = "none" /\ intent[i].status # "failed"
          /\ \A j \in Intents \ {i} : charge'[j] = charge[j]
      BY <2>2 DEF ProviderAnswers, NewsIsTrue, FailureIsTrue, TypeOK
    <3>2. answer'[i].status = "failed" => charge'[i] = "none"
      BY <2>2 DEF ProviderAnswers, InitResults, TypeOK
    <3>3. \A j \in Intents :
             /\ calling'[j] = "answered" /\ answer'[j].status = "failed" => charge'[j] = "none"
             /\ intent'[j].status = "failed" =>
                  charge'[j] \in {"none", "declined"} /\ calling'[j] \in {"answered", "ended"}
      BY <2>2, <3>1, <3>2 DEF ProviderAnswers, FailureIsTrue, TypeOK, rows
    <3>4. /\ \A e \in Events : handling[e] > 0 /\ e.report = "failed" => e.intent # i
          /\ \A v \in verdict : v.report = "failed" => v.about.intent # i
      BY <1>h, <3>1
    <3>5. /\ \A e \in Events : e.intent \in Intents
          /\ \A v \in verdict : v.about.intent \in Intents
      BY DEF Events, TypeOK, Candidate
    <3>. QED BY <1>h, <2>2, <3>1, <3>3, <3>4, <3>5 DEF ProviderAnswers, FailureIsTrue, webhookVars, workerVars
  <2>3. CASE CreateEnd(i)
    <3>1. \A j \in Intents : intent'[j].status = "failed" => charge[j] \in {"none", "declined"}
      BY <2>3 DEF CreateEnd, IntentAfterInit, FailureIsTrue, TypeOK
    <3>2. \A j \in Intents : intent'[j].status = "failed" => calling'[j] \in {"answered", "ended"}
      BY <2>3 DEF CreateEnd, FailureIsTrue, TypeOK
    <3>. QED BY <2>3, <3>1, <3>2 DEF CreateEnd, FailureIsTrue, TypeOK, webhookVars, workerVars
  <2>4. CASE CreateLost(i)
    BY <2>4 DEF CreateLost, FailureIsTrue, TypeOK, rows, webhookVars, workerVars
  <2>. QED BY <1>1, <2>1, <2>2, <2>3, <2>4 DEF Create
<1>2. ASSUME NEW i \in Intents, Cancel(i)
      PROVE  FailureIsTrue'
  <2>1. CASE CancelRead(i)
    BY <1>h, <1>u, <2>1 DEF CancelRead, rows, webhookVars, workerVars
  <2>2. CASE CancelWrite(i)
    BY <2>2 DEF CancelWrite, FailureIsTrue, TypeOK, webhookVars, workerVars
  <2>. QED BY <1>2, <2>1, <2>2 DEF Cancel
<1>3. ASSUME NEW i \in Intents, ProviderSettles(i)
      PROVE  FailureIsTrue'
  <2>1. charge[i] = "open" /\ \A j \in Intents \ {i} : charge'[j] = charge[j]
    BY <1>3 DEF ProviderSettles, TypeOK
  <2>2. /\ \A e \in Events : e.intent \in Intents
        /\ \A v \in verdict : v.about.intent \in Intents
    BY DEF Events, TypeOK, Candidate
  <2>. QED BY <1>3, <2>1, <2>2 DEF ProviderSettles, FailureIsTrue, rows, createVars, webhookVars, workerVars
<1>4. ASSUME NEW i \in Intents, NEW held, NEW ahead, held.status \in AttemptStatuses \union {Absent},
             NEW report \in Reports, NEW source, Settle(i, held, ahead, report, source),
             report = "failed" => charge[i] = "declined", UNCHANGED <<createVars, charge>>,
             \A e \in Events : handling'[e] > 0 /\ e.report = "failed" =>
               charge[e.intent] = "declined",
             verdict' \subseteq verdict
      PROVE  FailureIsTrue'
  BY <1>h, <1>4, SettleFails DEF FailureIsTrue, createVars
<1>5. ASSUME NEW e \in Events, Webhook(e)
      PROVE  FailureIsTrue'
  <2>1. e.intent \in Intents /\ e.report \in Reports /\ UNCHANGED <<createVars, charge, verdict>>
    BY <1>5 DEF Events, Webhook, WebhookReceive, WebhookIgnore, WebhookRefuse, WebhookApply,
       WebhookLost, Mark, workerVars
  <2>2. CASE WebhookReceive(e)
    <3>1. e.report = "failed" => charge[e.intent] = "declined"
      BY <2>1, <2>2, FailedMeansDeclined DEF WebhookReceive
    <3>. QED BY <1>h, <1>u, <2>1, <2>2, <3>1 DEF WebhookReceive, TypeOK, rows, createVars
  <2>3. CASE ~WebhookReceive(e)
    <3>1. /\ handling[e] > 0
          /\ \A d \in Events : handling'[d] > 0 => handling[d] > 0
      BY <1>5, <2>3 DEF Webhook, WebhookIgnore, WebhookRefuse, WebhookApply, WebhookLost, Mark,
         TypeOK
    <3>2. CASE WebhookApply(e)
      <4>1. attempt[e.intent].status \in AttemptStatuses \union {Absent}
        BY <2>1 DEF TypeOK, AttemptRow
      <4>2. e.report = "failed" => charge[e.intent] = "declined"
        BY <1>h, <3>1
      <4>3. Settle(e.intent, attempt[e.intent], Ahead(e.intent), e.report, "webhook")
        BY <3>2 DEF WebhookApply
      <4>. QED BY <1>4, <1>h, <2>1, <3>1, <4>1, <4>2, <4>3
    <3>3. CASE ~WebhookApply(e)
      <4>1. UNCHANGED rows
        BY <1>5, <2>3, <3>3 DEF Webhook, WebhookIgnore, WebhookRefuse, WebhookLost
      <4>. QED BY <1>h, <1>u, <2>1, <3>1, <4>1 DEF rows, createVars
    <3>. QED BY <3>2, <3>3
  <2>. QED BY <2>2, <2>3
<1>6. ASSUME Reconcile
      PROVE  FailureIsTrue'
  <2>. UNCHANGED <<createVars, handling, charge>>
    BY <1>6 DEF Reconcile, ReconcileStart, ReconcileAsk, ReconcileVerify, ReconcileSkip,
       ReconcileApply, ReconcileRaise, ReconcileCrash, Abandon, Advance, webhookVars
  <2>1. ASSUME NEW v \in verdict, NEW report \in Reports, ReconcileVerify(v, report)
        PROVE  FailureIsTrue'
    <3>1. v.about.intent \in Intents
      BY DEF TypeOK, Candidate
    <3>2. report = "failed" => charge[v.about.intent] = "declined"
      BY <2>1, <3>1, FailedMeansDeclined DEF ReconcileVerify
    <3>. QED BY <1>h, <1>u, <2>1, <3>2 DEF ReconcileVerify, rows, createVars
  <2>2. ASSUME NEW v \in verdict, ReconcileApply(v)
        PROVE  FailureIsTrue'
    <3>1. /\ v.about.intent \in Intents
          /\ v.about.status \in AttemptStatuses \union {Absent}
          /\ v.report \in Reports
      BY <2>2 DEF TypeOK, Candidate, ReconcileApply
    <3>2. /\ Settle(v.about.intent, v.about, v.about.ahead, v.report, "reconciliation")
          /\ verdict' \subseteq verdict
      BY <2>2 DEF ReconcileApply, Advance
    <3>. QED BY <1>4, <1>h, <3>1, <3>2
  <2>3. ASSUME UNCHANGED rows, \A v \in verdict' : v \in verdict \/ v.report = "asked"
        PROVE  FailureIsTrue'
    BY <1>h, <1>u, <2>3 DEF rows, createVars
  <2>. QED BY <1>6, <2>1, <2>2, <2>3 DEF Reconcile, ReconcileStart, ReconcileAsk, ReconcileSkip,
           ReconcileRaise, ReconcileCrash, Abandon, Advance
<1>7. ASSUME NEW r \in Refunds, RefundSteps(r)
      PROVE  FailureIsTrue'
  <2>1. UNCHANGED <<createVars, webhookVars, workerVars, charge>>
    BY <1>7 DEF RefundSteps, RefundBegin, RefundAnswered, RefundEnd, RefundLost
  <2>2. \A i \in Intents : intent'[i].status = "failed" => intent[i].status = "failed"
    <3>1. CASE RefundEnd(r) /\ GaveBack(r)
      <4>1. AfterRefund(refundSeen[r], RefundAmount[r]).status # "failed"
        BY DEF AfterRefund
      <4>2. \A i \in Intents : \/ intent'[i] = intent[i]
                               \/ intent'[i] = AfterRefund(refundSeen[r], RefundAmount[r])
        BY <3>1 DEF RefundEnd, TypeOK
      <4>. QED BY <4>1, <4>2
    <3>2. CASE ~(RefundEnd(r) /\ GaveBack(r))
      <4>1. intent' = intent
        BY <1>7, <3>2 DEF RefundSteps, RefundBegin, RefundAnswered, RefundEnd, RefundLost, rows
      <4>. QED BY <4>1
    <3>. QED BY <3>1, <3>2
  <2>. QED BY <2>1, <2>2 DEF FailureIsTrue, createVars, webhookVars, workerVars
<1>8. CASE UNCHANGED vars
  BY <1>h, <1>u, <1>8 DEF vars, rows, createVars, webhookVars, workerVars
<1>. QED BY <1>1, <1>2, <1>3, <1>5, <1>6, <1>7, <1>8 DEF Next

\* Where a charge reported failed is never paid later, a payment is called failed
\* only when the provider holds no money for it, whichever of create, webhooks and
\* reconciliation heard it first, and whatever a cancel call wrote in between.
THEOREM FailedUncharged ==
  ASSUME LateSuccess = FALSE
  PROVE  Spec => []FailedIsUncharged
<1>1. Init => FailureIsTrue
  BY DEF Init, FailureIsTrue, Absent
<1>2. IInv /\ FailureIsTrue /\ [Next]_vars => FailureIsTrue'
  BY FailureStep
<1>3. FailureIsTrue => FailedIsUncharged
  BY DEF FailureIsTrue, FailedIsUncharged
<1>. QED BY <1>1, <1>2, <1>3, Backed, PTL DEF Spec

-----------------------------------------------------------------------------
(* Payments implements PaymentPromise *)

\* A step that moves no charge, books nothing and gives nothing back stutters.
LEMMA Stutters ==
  ASSUME UNCHANGED <<captures, refundJournals>>,
         {i \in Intents : charge'[i] = "paid"} = {i \in Intents : charge[i] = "paid"}
  PROVE  UNCHANGED Promise!promised
BY DEF Promise!promised, Total

\* A webhook or reconciliation that settles an attempt books the payment, unless it
\* is booked or nothing was collected.
LEMMA SettleBooks ==
  ASSUME IInv, NEW i \in Intents, NEW held, NEW ahead, NEW report, NEW source,
         Settle(i, held, ahead, report, source), report = "succeeded" => charge[i] = "paid",
         UNCHANGED <<charge, refundJournals>>
  PROVE  [Promise!Next]_Promise!promised
<1>. captures \in [Intents -> SUBSET CaptureSources]
  BY DEF IInv, TypeOK
<1>1. CASE ~IsNews(i, report)
  <2>1. captures' = captures
    BY <1>1 DEF Settle, effects
  <2>. QED BY <2>1, Stutters
<1>2. CASE IsNews(i, report)
  <2>1. charge[i] = "paid" /\ captures' = [captures EXCEPT ![i] = @ \union {source}]
    BY <1>2 DEF Settle, IsNews, RecordSuccess
  <2>2. {j \in Intents : captures'[j] # {}} = {j \in Intents : captures[j] # {}} \union {i}
    BY <2>1
  <2>3. CASE captures[i] = {}
    <3>1. Promise!Book(i)
      BY <2>1, <2>2, <2>3 DEF Promise!Book, Total
    <3>. QED BY <3>1 DEF Promise!Next
  <2>4. CASE captures[i] # {}
    <3>1. UNCHANGED Promise!promised
      BY <2>2, <2>4 DEF Promise!promised, Total
    <3>. QED BY <3>1
  <2>. QED BY <2>3, <2>4
<1>. QED BY <1>1, <1>2

\* A refund call that ends well gives its amount back, of a booked payment, and no
\* more than is left of it.
LEMMA RefundGivesBack ==
  ASSUME IInv, RefundsFit, NEW r \in Refunds, RefundEnd(r), GaveBack(r)
  PROVE  Promise!GiveBack(RefundOf[r], RefundAmount[r])
<1>. DEFINE p == RefundOf[r]
            journals(i) == {s \in refundJournals : RefundOf[s] = i}
<1>1. /\ refund[r] = "pending" /\ captures[p] # {} /\ p \in Intents
      /\ refundJournals' = refundJournals \union {r}
      /\ UNCHANGED <<captures, charge>>
  BY DEF RefundEnd, GaveBack, IInv, RefundsInFlight, effects
<1>2. refundJournals \subseteq Refunds /\ r \notin refundJournals
  BY <1>1 DEF IInv, TypeOK, RefundsBooked
<1>3. /\ journals(p) \union {r} \in SUBSET ActiveRefunds(p)
      /\ ActiveRefunds(p) \in SUBSET Refunds
  BY <1>1, <1>2 DEF ActiveRefunds, IInv, RefundsBooked
<1>4. /\ IsFiniteSet(journals(p)) /\ Total(journals(p)) \in Nat
      /\ Total(journals(p) \union {r}) <= Total(ActiveRefunds(p))
      /\ Total(ActiveRefunds(p)) \in Nat
      /\ Total(journals(p) \union {r}) \in Nat
  <2>1. journals(p) \in SUBSET Refunds
    BY <1>2
  <2>. QED BY <1>3, <2>1, RefundTotals
<1>5. Total(journals(p) \union {r}) = Total(journals(p)) + RefundAmount[r]
  <2>1. \A s \in journals(p) \union {r} : RefundAmount[s] \in Nat
    BY <1>2
  <2>. QED BY <1>2, <1>4, <2>1, SumOfAdded DEF Total
<1>6. Total(ActiveRefunds(p)) <= Amount
  BY <1>1 DEF RefundsFit
<1>7. Total(journals(p)) + RefundAmount[r] <= Amount
  BY <1>4, <1>5, <1>6
<1>8. /\ journals(p)' = journals(p) \union {r}
      /\ \A i \in Intents \ {p} : journals(i)' = journals(i)
  BY <1>1
<1>9. [i \in Intents |-> Total(journals(i))]'
        = [[i \in Intents |-> Total(journals(i))] EXCEPT ![p] = @ + RefundAmount[r]]
  <2>1. [i \in Intents |-> Total(journals(i))]' = [i \in Intents |-> Total(journals(i)')]
    BY DEF Total
  <2>. HIDE DEF journals
  <2>. QED BY <1>1, <1>5, <1>8, <2>1
<1>. QED BY <1>1, <1>7, <1>9 DEF Promise!GiveBack

\* Every step of Payments is a step of the promise or leaves it as it is.
LEMMA StepKeepsPromise ==
  ASSUME IInv, RefundsFit, [Next]_vars
  PROVE  [Promise!Next]_Promise!promised
<1>1. ASSUME NEW i \in Intents, Create(i) \/ Cancel(i)
      PROVE  [Promise!Next]_Promise!promised
  <2>1. UNCHANGED <<captures, refundJournals>>
    BY <1>1 DEF Create, CreateBegin, ProviderAnswers, CreateEnd, CreateLost, Cancel, CancelRead,
       CancelWrite, refundVars, effects
  <2>2. CASE ProviderAnswers(i)
    <3>1. charge[i] = "none" /\ charge \in [Intents -> Charges]
      BY <2>2 DEF ProviderAnswers, IInv, NewsIsTrue, TypeOK
    <3>2. \A j \in Intents : charge'[j] = "paid" <=> charge[j] = "paid"
      BY <2>2, <3>1 DEF ProviderAnswers
    <3>. QED BY <2>1, <3>2, Stutters
  <2>3. CASE ~ProviderAnswers(i)
    <3>1. charge' = charge
      BY <1>1, <2>3 DEF Create, CreateBegin, CreateEnd, CreateLost, Cancel, CancelRead, CancelWrite
    <3>. QED BY <2>1, <3>1, Stutters
  <2>. QED BY <2>2, <2>3
<1>2. ASSUME NEW i \in Intents, ProviderSettles(i)
      PROVE  [Promise!Next]_Promise!promised
  <2>1. /\ UNCHANGED <<captures, refundJournals>> /\ charge[i] # "paid"
        /\ charge \in [Intents -> Charges]
    BY <1>2 DEF ProviderSettles, refundVars, effects, IInv, TypeOK
  <2>2. PICK outcome \in {"paid", "mispaid", "declined"} : charge' = [charge EXCEPT ![i] = outcome]
    BY <1>2 DEF ProviderSettles
  <2>3. CASE outcome = "paid"
    <3>1. {j \in Intents : charge'[j] = "paid"} = {j \in Intents : charge[j] = "paid"} \union {i}
      BY <2>1, <2>2, <2>3
    <3>2. Promise!Collect(i)
      BY <2>1, <3>1 DEF Promise!Collect, Total
    <3>. QED BY <3>2 DEF Promise!Next
  <2>4. CASE outcome # "paid"
    <3>1. \A j \in Intents : charge'[j] = "paid" <=> charge[j] = "paid"
      BY <2>1, <2>2, <2>4
    <3>. QED BY <2>1, <3>1, Stutters
  <2>. QED BY <2>3, <2>4
<1>3. ASSUME NEW e \in Events, Webhook(e)
      PROVE  [Promise!Next]_Promise!promised
  <2>1. e.intent \in Intents /\ UNCHANGED <<charge, refundJournals>>
    BY <1>3 DEF Events, Webhook, WebhookReceive, WebhookIgnore, WebhookRefuse, WebhookApply,
       WebhookLost, Mark, refundVars
  <2>2. CASE WebhookApply(e)
    <3>1. /\ Settle(e.intent, attempt[e.intent], Ahead(e.intent), e.report, "webhook")
          /\ e.report = "succeeded" => charge[e.intent] = "paid"
      BY <2>2 DEF WebhookApply, Mark, IInv, NewsIsTrue
    <3>. QED BY <2>1, <3>1, SettleBooks
  <2>3. CASE ~WebhookApply(e)
    <3>1. UNCHANGED captures
      BY <1>3, <2>3 DEF Webhook, WebhookReceive, WebhookIgnore, WebhookRefuse, WebhookLost, effects
    <3>. QED BY <2>1, <3>1, Stutters
  <2>. QED BY <2>2, <2>3
<1>4. ASSUME Reconcile
      PROVE  [Promise!Next]_Promise!promised
  <2>1. UNCHANGED <<charge, refundJournals>>
    BY <1>4 DEF Reconcile, ReconcileStart, ReconcileAsk, ReconcileVerify, ReconcileSkip,
       ReconcileApply, ReconcileRaise, ReconcileCrash, Abandon, Advance, refundVars
  <2>2. ASSUME NEW v \in verdict, ReconcileApply(v)
        PROVE  [Promise!Next]_Promise!promised
    <3>1. /\ v.about.intent \in Intents
          /\ Settle(v.about.intent, v.about, v.about.ahead, v.report, "reconciliation")
          /\ v.report = "succeeded" => charge[v.about.intent] = "paid"
      BY <2>2 DEF ReconcileApply, IInv, NewsIsTrue, TypeOK, Candidate
    <3>. QED BY <2>1, <3>1, SettleBooks
  <2>3. CASE UNCHANGED captures
    BY <2>1, <2>3, Stutters
  <2>. QED BY <1>4, <2>2, <2>3 DEF Reconcile, ReconcileStart, ReconcileAsk, ReconcileVerify,
           ReconcileSkip, ReconcileRaise, ReconcileCrash, Abandon, Advance, effects
<1>5. ASSUME NEW r \in Refunds, RefundSteps(r)
      PROVE  [Promise!Next]_Promise!promised
  <2>1. CASE RefundEnd(r) /\ GaveBack(r)
    <3>1. Promise!GiveBack(RefundOf[r], RefundAmount[r])
      BY <2>1, RefundGivesBack
    <3>2. RefundOf[r] \in Intents /\ RefundAmount[r] \in 1 .. Amount
      <4>1. Total({s \in refundJournals : RefundOf[s] = RefundOf[r]}) \in Nat
        BY RefundTotals DEF IInv, TypeOK
      <4>2. Total({s \in refundJournals : RefundOf[s] = RefundOf[r]}) + RefundAmount[r] <= Amount
        BY <3>1 DEF Promise!GiveBack
      <4>. QED BY <4>1, <4>2
    <3>. QED BY <3>1, <3>2 DEF Promise!Next
  <2>2. CASE ~(RefundEnd(r) /\ GaveBack(r))
    <3>1. UNCHANGED <<captures, charge, refundJournals>>
      BY <1>5, <2>2 DEF RefundSteps, RefundBegin, RefundAnswered, RefundEnd, RefundLost, effects
    <3>. QED BY <3>1, Stutters
  <2>. QED BY <2>1, <2>2
<1>6. CASE UNCHANGED vars
  BY <1>6, Stutters DEF vars, refundVars, effects
<1>. QED BY <1>1, <1>2, <1>3, <1>4, <1>5, <1>6 DEF Next

\* Payments implements its promise: whatever its calls do to each other, crash or
\* leave unanswered, a payment is booked only once collected, given back only once
\* booked, and never more than its price.
THEOREM PaymentsKeepPromise == Spec => PromiseKept
<1>1. Init => Promise!Init
  <2>. SUFFICES ASSUME Init PROVE Promise!Init
    OBVIOUS
  <2>1. \A i \in Intents : {r \in refundJournals : RefundOf[r] = i} = {}
    BY DEF Init
  <2>2. Total({}) = 0
    BY SumOfNone DEF Total
  <2>. QED BY <2>1, <2>2 DEF Init, Promise!Init
<1>2. IInv /\ RefundsFit /\ [Next]_vars => [Promise!Next]_Promise!promised
  BY StepKeepsPromise
<1>. QED BY <1>1, <1>2, Backed, Fits, PTL DEF Spec, PromiseKept, Promise!Spec

-----------------------------------------------------------------------------
(* Support requests: they are refunds like others, so what is proved above *)
(* holds for them, and the audit trail never claims more than the ledger   *)

USE SupportAssumption

\* A request that is alive owns its refund call, from its first transaction on.
RequestsInFlight ==
  /\ \A r \in Supported :
       /\ action[r] = Absent <=> refundCall[r] = "idle"
       /\ r \in requests => action[r] = "processing"
       /\ r \notin requests => refundCall[r] \in {"idle", "ended"}
       /\ r \in requests /\ refundCall[r] = "ended" => refund[r] \notin {Absent, "pending"}
  /\ requests \subseteq Supported

-----------------------------------------------------------------------------
(* Support requests implement Payments *)

\* What a support request does to a payment, the refund call of Payments does.
LEMMA SupportStepIsRefundStep ==
  ASSUME NEW r \in Supported, SupportSteps(r)
  PROVE  RefundSteps(r) \/ UNCHANGED vars
<1>1. CASE SupportBegin(r)
  BY <1>1 DEF SupportBegin, RefundSteps
<1>2. CASE SupportRefundStep(r)
  BY <1>2 DEF SupportRefundStep, RefundSteps
<1>3. CASE SupportComplete(r)
  BY <1>3 DEF SupportComplete
<1>4. CASE SupportLost(r)
  BY <1>4 DEF SupportLost, RefundSteps
<1>. QED BY <1>1, <1>2, <1>3, <1>4 DEF SupportSteps

\* Every behaviour with support requests is a behaviour of Payments: whatever is
\* proved of payments holds for refunds that support asks for.
THEOREM SupportImplementsPayments == SupportSpec => Spec
<1>1. SupportInit => Init
  BY DEF SupportInit
<1>2. [SupportNext]_allVars => [Next]_vars
  <2>1. ASSUME NEW r \in Supported, SupportSteps(r) PROVE [Next]_vars
    BY <2>1, SupportStepIsRefundStep DEF Next
  <2>2. CASE OtherSteps
    BY <2>2 DEF OtherSteps, Next
  <2>3. CASE UNCHANGED allVars
    BY <2>3 DEF allVars
  <2>. QED BY <2>1, <2>2, <2>3 DEF SupportNext
<1>. QED BY <1>1, <1>2, PTL DEF SupportSpec, Spec

-----------------------------------------------------------------------------
(* The audit trail *)

\* A step of one refund call leaves the rows and calls of the others alone.
LEMMA RefundFrame ==
  ASSUME TypeOK, NEW q \in Refunds, RefundSteps(q), NEW r \in Refunds, r # q
  PROVE  refund'[r] = refund[r] /\ refundCall'[r] = refundCall[r]
BY DEF RefundSteps, RefundBegin, RefundAnswered, RefundEnd, RefundLost, TypeOK

\* Nobody else touches a support request's refund.
LEMMA OthersFrame ==
  ASSUME TypeOK, OtherSteps, NEW r \in Supported
  PROVE  refund'[r] = refund[r] /\ refundCall'[r] = refundCall[r]
<1>1. ASSUME NEW i \in Intents, Create(i) \/ Cancel(i) \/ ProviderSettles(i)
      PROVE  UNCHANGED refundVars
  BY <1>1 DEF Create, CreateBegin, ProviderAnswers, CreateEnd, CreateLost, Cancel, CancelRead,
     CancelWrite, ProviderSettles
<1>2. ASSUME NEW e \in Events, Webhook(e)
      PROVE  UNCHANGED refundVars
  BY <1>2 DEF Webhook, WebhookReceive, WebhookIgnore, WebhookRefuse, WebhookApply, WebhookLost, Mark
<1>3. CASE Reconcile
  <2>. UNCHANGED refundVars
    BY <1>3 DEF Reconcile, ReconcileStart, ReconcileAsk, ReconcileVerify, ReconcileSkip,
       ReconcileApply, ReconcileRaise, ReconcileCrash, Advance, Abandon
  <2>. QED BY DEF refundVars
<1>4. ASSUME NEW q \in Refunds \ Supported, RefundSteps(q)
      PROVE  refund'[r] = refund[r] /\ refundCall'[r] = refundCall[r]
  BY <1>4, RefundFrame
<1>. QED BY <1>1, <1>2, <1>3, <1>4 DEF OtherSteps, refundVars

\* Domains of the variables of this module.
AuditType == action \in [Supported -> ActionEnds \union {"processing", Absent}]
               /\ published \in [Supported -> SUBSET ActionEnds]

\* The part of the inductive invariant that PaymentsProofs does not have.
Audit ==
  /\ AuditType
  /\ RequestsInFlight
  /\ OneAnswer
  /\ \A r \in Supported :
       /\ action[r] = "succeeded" => refund[r] = "succeeded"
       /\ action[r] = "unknown" => refund[r] = "processing"
       /\ action[r] = "failed" => refund[r] \in {"failed", "processing"}

\* No action, request or event at first.
LEMMA AuditInit == SupportInit => Audit
BY DEF SupportInit, Init, Audit, AuditType, RequestsInFlight, OneAnswer, ActionEnds, Absent

\* Every step of a support request keeps the audit trail true.
LEMMA AuditStep ==
  ASSUME TypeOK, RefundsInFlight, Audit, NEW r \in Supported, SupportSteps(r)
  PROVE  Audit'
<1>. /\ r \in Refunds
     /\ \A q \in Supported \ {r} : refund'[q] = refund[q] /\ refundCall'[q] = refundCall[q]
  BY SupportStepIsRefundStep, RefundFrame DEF vars, refundVars
<1>1. CASE SupportBegin(r)
  BY <1>1 DEF SupportBegin, RefundBegin, TypeOK, Audit, AuditType, RequestsInFlight, OneAnswer,
     ActionEnds, Absent
<1>2. CASE SupportRefundStep(r)
  <2>1. ASSUME NEW result \in {"succeeded", "failed", "processing"}, RefundAnswered(r, result)
        PROVE  Audit'
    BY <1>2, <2>1 DEF SupportRefundStep, RefundAnswered, TypeOK, Audit, AuditType,
       RequestsInFlight, OneAnswer, ActionEnds, supportVars, Absent
  <2>2. CASE RefundEnd(r)
    BY <1>2, <2>2 DEF SupportRefundStep, RefundEnd, TypeOK, Audit, AuditType,
       RequestsInFlight, OneAnswer, ActionEnds, supportVars, Absent
  <2>. QED BY <1>2, <2>1, <2>2 DEF SupportRefundStep
<1>3. CASE SupportComplete(r)
  <2>1. PICK outcome \in Outcomes(refund[r]) :
          /\ action' = [action EXCEPT ![r] = outcome]
          /\ published' = [published EXCEPT ![r] = @ \union {outcome}]
    BY <1>3 DEF SupportComplete
  <2>2. /\ refund[r] \in {"succeeded", "failed", "processing"}
        /\ action[r] = "processing"
        /\ requests' = requests \ {r}
        /\ UNCHANGED <<refund, refundCall>>
    BY <1>3 DEF SupportComplete, Audit, RequestsInFlight, TypeOK, RefundStatuses, Absent,
       vars, refundVars
  <2>3. /\ outcome \in ActionEnds
        /\ outcome = "succeeded" => refund[r] = "succeeded"
        /\ outcome = "unknown" => refund[r] = "processing"
        /\ outcome = "failed" => refund[r] \in {"failed", "processing"}
    BY <2>2 DEF Outcomes, ActionEnds
  <2>4. AuditType'
    BY <2>1, <2>3 DEF Audit, AuditType
  <2>5. RequestsInFlight'
    BY <1>3, <2>1, <2>2, <2>3
       DEF SupportComplete, Audit, AuditType, RequestsInFlight, ActionEnds, Absent
  <2>6. OneAnswer'
    BY <2>1, <2>2, <2>3 DEF Audit, AuditType, OneAnswer, ActionEnds, Absent
  <2>. QED BY <2>1, <2>2, <2>3, <2>4, <2>5, <2>6 DEF Audit, AuditType, ActionEnds
<1>4. CASE SupportLost(r)
  BY <1>4 DEF SupportLost, RefundLost, TypeOK, Audit, AuditType, RequestsInFlight, OneAnswer,
     ActionEnds, Absent, vars, refundVars
<1>. QED BY <1>1, <1>2, <1>3, <1>4 DEF SupportSteps

\* The audit trail is true in every reachable state.
THEOREM Audited == SupportSpec => []Audit
<1>1. TypeOK /\ RefundsInFlight /\ Audit /\ [SupportNext]_allVars => Audit'
  <2>. SUFFICES ASSUME TypeOK, RefundsInFlight, Audit, [SupportNext]_allVars PROVE Audit'
    OBVIOUS
  <2>1. ASSUME NEW r \in Supported, SupportSteps(r) PROVE Audit'
    BY <2>1, AuditStep
  <2>2. CASE OtherSteps /\ UNCHANGED supportVars
    BY <2>2, OthersFrame DEF Audit, AuditType, RequestsInFlight, OneAnswer, supportVars
  <2>3. CASE UNCHANGED allVars
    BY <2>3 DEF Audit, AuditType, RequestsInFlight, OneAnswer, supportVars, allVars, vars, refundVars
  <2>. QED BY <2>1, <2>2, <2>3 DEF SupportNext
<1>2. SupportSpec => [](TypeOK /\ RefundsInFlight)
  BY SupportImplementsPayments, Backed, PTL DEF IInv
<1>. QED BY AuditInit, <1>1, <1>2, PTL DEF SupportSpec

\* The audit never claims a success without its journal and the money given back,
\* nor a failure of what is booked; and what it calls failed although the money went
\* back is a refund that the provider had accepted for later, or one whose refusal
\* was an error page.  For any number of requests, whatever dies between the three
\* transactions.
THEOREM AuditTrue == SupportSpec => []AuditIsTrue
<1>1. Audit /\ RefundsBooked /\ RefundsFit => AuditIsTrue
  <2>. SUFFICES ASSUME Audit, RefundsBooked, RefundsFit, NEW r \in Supported
       PROVE  /\ action[r] = "succeeded" => r \in refundJournals /\ r \in returned
              /\ action[r] = "unknown" => refund[r] = "processing"
              /\ action[r] = "failed" =>
                   /\ r \notin refundJournals
                   /\ r \in returned => refund[r] = "processing" \/ r \in ErrorPages
    BY DEF AuditIsTrue
  <2>1. r \in Refunds /\ (r \in refundJournals <=> refund[r] = "succeeded")
    BY DEF RefundsBooked
  <2>2. r \in returned => r \in ErrorPages \/ refund[r] \in {"pending", "processing", "succeeded"}
    BY DEF RefundsFit
  <2>. QED BY <2>1, <2>2 DEF Audit, RefundsBooked
<1>2. SupportSpec => [](RefundsBooked /\ RefundsFit)
  BY SupportImplementsPayments, RefundBooked, Fits, PTL
<1>. QED BY <1>1, <1>2, Audited, PTL

\* Every support request has at most one answer, the one its event carries.
THEOREM OneAnswerEver == SupportSpec => []OneAnswer
BY Audited, PTL DEF Audit
=============================================================================
