---------------------------- MODULE Settlements ----------------------------
(***************************************************************************)
(* What operators do to payments: commands of the back office (record a    *)
(* provider's settlement, queue a dead callback again), the same           *)
(* settlement from the command line, and the reports read from the         *)
(* financial journals.  Each request is one transaction, modelled at the   *)
(* points where PostgreSQL lets others in or makes it wait: its look-up,   *)
(* its command row, its row lock, its journal and its commit.  Captures,   *)
(* refunds and payouts are booked by the components that own them.         *)
(***************************************************************************)
EXTENDS Integers, FiniteSets, Sums

CONSTANTS
  Intents,    \* payments; each has one attempt
  Payouts,
  Requests,   \* requests and runs of the command line
  Orders,     \* what they may ask for
  Gross,      \* a payment's or payout's amount
  Events,     \* keys under which a payment is confirmed: a webhook's, a reconciliation's
  Confirms, Fee,       \* an event's payment, and the fee that it reports
  Refunds,
  GivesBack, Given,    \* a refund's payment, and its amount
  Service, Processor, Flow,   \* of a payment or payout, as the reports see it
  LastDay     \* bound on the days

None == "none"

\* An order of the command line has neither command id nor key.
ASSUME SettlementsAssumption ==
  /\ \A o \in Orders : o.intent \in Intents /\ o.amount \in Nat \ {0}
  /\ \A o \in Orders : o.action \in {"settle", "retry"} /\ (o.id = None <=> o.key = None)
  /\ \A o \in Orders : o.id = None => o.action = "settle"
  /\ \A p \in Intents \union Payouts : Gross[p] \in Nat \ {0}
  /\ \A e \in Events : Confirms[e] \in Intents /\ Fee[e] \in Nat
  /\ \A f \in Refunds : GivesBack[f] \in Intents /\ Given[f] \in Nat \ {0}
  /\ LastDay \in Nat \ {0}

VARIABLES
  journals,   \* committed financial_journals, their entries included
  commands,   \* committed backoffice_commands; each is completed
  request,    \* order, phase and day of each request
  callback,   \* status of each payment's outbox row
  today

vars == <<journals, commands, request, callback, today>>

Phases == {"new", "begun", "inserted", "locked", "writing", "written", "replayed", "done", "failed"}

Init ==
  /\ journals = {}
  /\ commands = {}
  /\ request \in [Requests -> [order : Orders, phase : {"new"}, day : {1}]]
  /\ callback = [p \in Intents |-> "dead_letter"]
  /\ today = 1

-----------------------------------------------------------------------------
(* The ledger *)

Journal(type, ref, owner, amount, day, by) ==
  [type |-> type, ref |-> ref, owner |-> owner, amount |-> amount, day |-> day, by |-> by]

Sum(S) == SumOf(S, [j \in S |-> j.amount])

Of(type, owner) == {j \in journals : j.type = type /\ j.owner = owner}

\* summary
Outstanding(p) ==
  Sum(Of("capture", p)) - Sum(Of("refund", p)) - Sum(Of("fee", p)) - Sum(Of("settlement", p))

\* A journal's reference is its event's key or its refund's id.
Posted(type, ref) == \E j \in journals : j.type = type /\ j.ref = ref

\* Mutant: a settlement of the same amount is taken for the same.
Known_Amount(o) == {j \in Of("settlement", o.intent) : j.amount = o.amount}

\* post: by event type and reference only, whoever's journal it is.
Known(o) == {j \in journals : j.type = "settlement" /\ j.ref = o.ref}

-----------------------------------------------------------------------------
(* Rows under way *)

Moves(r, phase) == request' = [request EXCEPT ![r].phase = phase]

Open == {"inserted", "locked", "writing", "written"}   \* its command row is inserted

\* Mutant: nothing keeps two requests from one payment.
Free_Always(p) == TRUE

\* SELECT ... FOR UPDATE of the payment; a retry locks the outbox row instead.
Free(p) ==
  \A r \in Requests :
    ~(/\ request[r].phase \in {"locked", "writing", "written"}
      /\ request[r].order.action = "settle" /\ request[r].order.intent = p)

CallbackFree(p) ==
  \A r \in Requests :
    ~(/\ request[r].phase = "written" /\ request[r].order.action = "retry"
      /\ request[r].order.intent = p)

SameCommand(a, b) == a.id # None /\ (a.id = b.id \/ a.key = b.key)

\* Mutant: the constraints on the command's id and key are missing.
Clashes_Never(o) == {}

\* uq_backoffice_command_id, uq_backoffice_command_idempotency
Clashes(o) == {c \in commands : SameCommand(c.order, o)}

\* An insert waits for the open transaction that inserted the same key.
MayInsert(r) ==
  \A s \in Requests \ {r} :
    ~(request[s].phase \in Open /\ SameCommand(request[s].order, request[r].order))

-----------------------------------------------------------------------------
(* Requests *)

\* execute, find_replay.  func.now() of all its rows is the transaction's start.
Begin(r) ==
  LET o == request[r].order
      replays == {c \in commands : SameCommand(c.order, o)} IN
  /\ request[r].phase = "new"
  /\ \/ /\ o.id = None
        /\ request' = [request EXCEPT ![r].phase = "inserted", ![r].day = today]
     \/ /\ o.id # None /\ replays = {}
        /\ request' = [request EXCEPT ![r].phase = "begun", ![r].day = today]
     \/ \E c \in replays :   \* a replay only if the fingerprints agree
          Moves(r, IF [c.order EXCEPT !.id = o.id, !.key = o.key] = o THEN "replayed" ELSE "failed")
  /\ UNCHANGED <<journals, commands, callback, today>>

\* create: the row, or IntegrityError.
Insert(r) ==
  /\ request[r].phase = "begun" /\ MayInsert(r)
  /\ Moves(r, IF Clashes(request[r].order) = {} THEN "inserted" ELSE "failed")
  /\ UNCHANGED <<journals, commands, callback, today>>

\* record_settlement reads the payment for update; the command line wants a
\* succeeded attempt, the back office any.
Lock(r) ==
  LET o == request[r].order IN
  /\ request[r].phase = "inserted" /\ o.action = "settle" /\ Free(o.intent)
  /\ Moves(r, IF o.id = None /\ Of("capture", o.intent) = {} THEN "failed" ELSE "locked")
  /\ UNCHANGED <<journals, commands, callback, today>>

\* A known reference posts nothing, and is no error.
Post(r) ==
  LET o == request[r].order IN
  /\ request[r].phase = "locked"
  /\ Moves(r, IF o.amount > Outstanding(o.intent) THEN "failed"
              ELSE IF Known(o) # {} THEN "written" ELSE "writing")
  /\ UNCHANGED <<journals, commands, callback, today>>

\* Waits for an open transaction that inserted the same reference.
Write(r) ==
  LET o == request[r].order IN
  /\ request[r].phase = "writing"
  /\ \A s \in Requests \ {r} :
       ~(request[s].phase = "written" /\ request[s].order.ref = o.ref
         /\ request[s].order.action = "settle" /\ Known(o) = {})
  /\ Moves(r, IF Known(o) = {} THEN "written" ELSE "failed")
  /\ UNCHANGED <<journals, commands, callback, today>>

\* retry_callback
Retry(r) ==
  LET o == request[r].order IN
  /\ request[r].phase = "inserted" /\ o.action = "retry" /\ CallbackFree(o.intent)
  /\ Moves(r, IF callback[o.intent] = "dead_letter" THEN "written" ELSE "failed")
  /\ UNCHANGED <<journals, commands, callback, today>>

\* The one commit of command, result and effect.
Commit(r) ==
  LET o == request[r].order IN
  /\ request[r].phase = "written"
  /\ Moves(r, "done")
  /\ commands' = IF o.id = None THEN commands ELSE commands \union {[order |-> o, by |-> r]}
  /\ journals' = IF o.action = "retry" \/ Known(o) # {} THEN journals
                 ELSE journals \union
                      {Journal("settlement", o.ref, o.intent, o.amount, request[r].day, r)}
  /\ callback' = IF o.action = "retry" THEN [callback EXCEPT ![o.intent] = "pending"] ELSE callback
  /\ UNCHANGED today

\* An exception, or the end of the process.
RolledBack(r) ==
  /\ request[r].phase \in {"begun"} \union Open
  /\ Moves(r, "failed")
  /\ UNCHANGED <<journals, commands, callback, today>>

-----------------------------------------------------------------------------
(* What other components book; each locks the payment *)

Books(new) == journals' = journals \union new /\ UNCHANGED <<commands, request, callback, today>>

\* Once, and again for each other event after a refund: the payment is then no longer
\* "succeeded", which is all that is asked (was_succeeded).
Capture(e) ==
  LET p == Confirms[e] IN
  /\ ~Posted("capture", e) /\ Free(p)
  /\ Of("capture", p) = {} \/ Of("refund", p) # {}
  /\ Books({Journal("capture", e, p, Gross[p], today, None)} \union
           IF Fee[e] > 0 THEN {Journal("fee", e, p, Fee[e], today, None)} ELSE {})

\* Several, up to the payment's amount: its fee is not asked about.
Refund(f) ==
  LET p == GivesBack[f] IN
  /\ ~Posted("refund", f) /\ Of("capture", p) # {} /\ Free(p)
  /\ Sum(Of("refund", p)) + Given[f] <= Gross[p]
  /\ Books({Journal("refund", f, p, Given[f], today, None)})

Payout(p) ==
  /\ Of("payout", p) = {}
  /\ Books({Journal("payout", p, p, Gross[p], today, None)})

\* The worker delivers a queued event, or gives it up again.
Deliver(p) ==
  /\ callback[p] = "pending" /\ CallbackFree(p)
  /\ \E status \in {"delivered", "dead_letter"} : callback' = [callback EXCEPT ![p] = status]
  /\ UNCHANGED <<journals, commands, request, today>>

Midnight ==
  /\ today < LastDay
  /\ today' = today + 1
  /\ UNCHANGED <<journals, commands, request, callback>>

Next ==
  \/ \E r \in Requests :
       \/ Begin(r) \/ Insert(r) \/ Lock(r) \/ Post(r) \/ Write(r) \/ Retry(r) \/ Commit(r)
       \/ RolledBack(r)
  \/ \E e \in Events : Capture(e)
  \/ \E f \in Refunds : Refund(f)
  \/ \E p \in Intents : Deliver(p)
  \/ \E p \in Payouts : Payout(p)
  \/ Midnight

Spec == Init /\ [][Next]_vars

-----------------------------------------------------------------------------
(* The reports *)

On(day) == {j \in journals : j.day = day}
Typed(S, type) == {j \in S : j.type = type}

\* totals: by event type.
DailyTotal(day, type) == Sum(Typed(On(day), type))

\* Mutant: the flow is left out of the grouping.
GroupOf_NoFlow(j) == <<Service[j.owner], Processor[j.owner]>>

\* One entry per service, processor and flow; a payout's journal is its own flow.
GroupOf(j) ==
  <<Service[j.owner], Processor[j.owner], IF j.type = "payout" THEN "payout" ELSE Flow[j.owner]>>

\* gross = capture or payout; a payout leaves nothing outstanding.
Entry(group) ==
  LET total(type) == Sum(Typed(group, type))
      gross == IF total("capture") # 0 THEN total("capture") ELSE total("payout")
      net == gross - total("refund") - total("fee")
      payout == \E j \in group : j.type = "payout" IN
  [gross |-> gross, refund |-> total("refund"), fee |-> total("fee"),
   settled |-> total("settlement"),
   outstanding |-> IF payout THEN 0 ELSE net - total("settlement")]

Groups(day) == {GroupOf(j) : j \in On(day)}
Group(day, g) == {j \in On(day) : GroupOf(j) = g}

AccountingSummary(day) == [g \in Groups(day) |-> Entry(Group(day, g))]

\* pilotage_daily_summary
UnsettledDelta(day) ==
  DailyTotal(day, "capture") - DailyTotal(day, "refund") - DailyTotal(day, "fee")
    - DailyTotal(day, "settlement")

-----------------------------------------------------------------------------
(* Properties *)

TypeOK ==
  /\ \A j \in journals : j.amount \in Nat \ {0} /\ j.owner \in Intents \union Payouts
  /\ \A c \in commands : c.order \in Orders /\ c.by \in Requests
  /\ request \in [Requests -> [order : Orders, phase : Phases, day : 1..LastDay]]
  /\ callback \in [Intents -> {"dead_letter", "pending", "delivered"}]
  /\ today \in 1..LastDay

\* A settlement is booked only up to what the provider still owes for the payment
\* at that moment, whoever else settles or refunds it (record_settlement).
SettlementsFit ==
  [][\A p \in Intents :
       Sum(Of("settlement", p))' > Sum(Of("settlement", p)) => Outstanding(p)' >= 0]_vars

\* What the committed rows say of commands and of what is owed.
Promise == INSTANCE CommandPromise WITH
  NoId <- None,
  Net <- [e \in Events |-> Gross[Confirms[e]] - Fee[e]],
  captured <- {e \in Events : Posted("capture", e)},
  refunded <- {f \in Refunds : Posted("refund", f)},
  owed <- [p \in Intents |-> Outstanding(p)],
  refs <- {j.ref : j \in Typed(journals, "settlement")},
  carried <- {c.order : c \in commands},
  dead <- {p \in Intents : callback[p] = "dead_letter"}

\* Requests that look up, insert, lock, post and commit among one another carry out each
\* command as in one step of its own, once, and take no more than is owed (execute).
CommandsAreAtomic == Promise!Spec

\* A completed settlement's reference is in the ledger: with the command's payment
\* and amount, unless another request had booked it (execute, post).
CommandsAreBooked ==
  \A c \in commands : c.order.action = "settle" =>
    \E j \in journals :
      /\ j.type = "settlement" /\ j.ref = c.order.ref
      /\ j.by # c.by \/ (j.owner = c.order.intent /\ j.amount = c.order.amount)

\* Two commands with one id or key are never both carried out, settlements or retries.
CommandOnce ==
  \A c, d \in commands : SameCommand(c.order, d.order) => c = d

\* The entries of a day's accounting summary add up to the day's totals, and their
\* outstanding amounts to the daily delta, where no payment calls itself a payout.
ReportsAddUp ==
  \A day \in 1..LastDay :
    LET entry == AccountingSummary(day)
        sum(field) == SumOf(Groups(day), [g \in Groups(day) |-> entry[g][field]]) IN
    /\ sum("gross") = DailyTotal(day, "capture") + DailyTotal(day, "payout")
    /\ sum("refund") = DailyTotal(day, "refund")
    /\ sum("fee") = DailyTotal(day, "fee")
    /\ sum("settled") = DailyTotal(day, "settlement")
    /\ BalanceOf(Groups(day), [g \in Groups(day) |-> entry[g].outstanding])
         = UnsettledDelta(day)
=============================================================================
