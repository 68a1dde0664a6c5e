# DiddiPay backend: formal models

TLA+ models of the payment backend in `src/payfund_app`, the TLC runs that check them and the
TLAPS proofs about them. Everything is translated from the source at this commit;
`PROJECT.json` ("map") names the lines behind each definition. The documents of the repository
(`docs/`, docstrings, tests) are used only as a source of what the code is supposed to do.

## 1. The system

A FastAPI application over PostgreSQL with three modules and a set of workers. Every HTTP
request runs in one SQLAlchemy session (`core/database.py:33-43`) that is committed at its end,
or earlier where a use case calls `commit()` itself; rows that were read stay in memory after a
commit (`expire_on_commit=False`), and repositories save an entity by writing all its fields
over the row. Most of what is hard in this system follows from these two facts: **a save is not
a read-modify-write of the row but a copy of what the process read in an earlier transaction**.

### Components

| Component | State | Operations | Talks to |
|---|---|---|---|
| Payment intents (`payments/application/use_cases.py`, `webhooks.py`, `reconciliation.py`, `refunds.py`) | intents, attempts, refunds, provider inbox | create, cancel, webhook, reconciliation run, refund | provider adapter, ledger, outbox |
| Payment ledger and audit (`accounting.py`, `infra/integrity.py`) | journals | record capture, refund, payout, settlement; find gaps | called in the transactions of the others |
| Payment outbox (`deliveries.py`, `infra/repositories.py:352-429`, `infra/callback_delivery.py`) | outbox rows with status, lease, attempts | enqueue, claim, send, record, replay | the modules' callback URLs |
| Payouts (`payouts.py`) | payouts | create, reconcile | provider adapter, ledger, outbox |
| Support refunds (`presentation/support_router.py`) | support actions | request a refund | refund use case, outbox |
| Back office (`backoffice_commands.py`, `daily_summary.py`, `accounting_summary.py`, `ops/maintenance.py`) | commands, settlement journals | retry callback, record settlement, daily reports | outbox, ledger |
| Processor routing and adapters (`processor_router.py`, `infra/*_processor.py`) | none of their own | route, initialize, verify, refund, pay out, parse webhooks | the providers' HTTP APIs |
| Wallet money (`wallet/application/use_cases.py`, `ledger.py`) | accounts, entries, transactions, webhook inbox | deposit, withdraw, transfer, confirm, fail, sweep | mobile-money gateway, fund module |
| Wallet PIN (`wallet/application/use_cases.py:203-357`, `infra/repositories.py:400-560`) | PINs, recovery codes, consumed step-up proofs | define, change, reset, verify | DiddiFreeID's tokens |
| Exchange (`wallet/application/exchange.py`, `domain/money.py`) | rates, position accounts, conversions | quote, convert | wallet ledger |
| Wallet events (`wallet/infra/subscribers.py`, `ops/maintenance.py`, `shared_kernel/events/bus.py`) | event outbox, what each process has heard | relay, subscribe | Redis Pub/Sub, DiddiFreeID |
| Fund (`fund/application/*`, `fund/domain/loan.py`) | campaigns, investments, loans, orders | invest, start and finish a paid investment, disburse, repay | wallet service, payments |
| Workers (`ops/__main__.py`, `ops/maintenance.py`) | none of their own | one cycle: reconcile payments, reconcile payouts, deliver events; sweep; relay; audit | all of the above |

### What is hard

* *Two transactions around a provider call* (payment create, refund, payout): the process may
  die in between, the provider may or may not have acted, and the second transaction saves what
  the first one read.
* *Several writers of one payment*: the create call, cancel calls, webhooks (repeated, lost,
  early, concurrent), a reconciliation run that holds a whole batch in memory, and refund
  calls.
* *At-least-once work*: outbox rows claimed under a lease that covers a whole batch of slow
  calls; an event relay that publishes before it commits, in several processes.
* *Uncertain answers*: timeouts, error pages of gateways, refunds "accepted for later", answers
  that name another identifier.
* *Money accounts*: concurrent debits, idempotent posting by key, reversal, confirmation by
  webhook and by sweep (wallet); two transactions for one conversion (exchange); sums kept next
  to the rows they sum (fund).
* *Unique constraints as the only lock*: PINs, step-up proofs, commands, journals and orders
  are looked up without a lock and inserted later; who loses finds out then.
* *Broadcast without memory*: news of users reaches whoever listens at that moment, each
  process handles it in its own time.

### What makes each component correct

* Payments: a payment is booked and announced exactly when the provider collected the money,
  once; the money given back stays within what was collected; what was shown as paid stays
  paid; a collected charge is recovered although webhooks are lost.
* Outbox: an event is delivered or visibly given up; it is marked delivered only when its
  module took it; one sender at a time.
* Payouts: booked and announced as succeeded exactly when paid; never both verdicts.
* Support: one answer per request, and never more than the ledger says.
* Back office: a command is carried out once, a completed settlement is in the ledger, no
  settlement takes more than is outstanding, and the reports add up.
* Routing and adapters: a payment goes to an adapter that can carry it, never to a simulated
  one in its place; "succeeded" means paid in full, "failed" means that no money moves any
  more, and what is still open is found again.
* Wallet money: no account overdrawn, a deposit credited when and only when it was collected;
  what is paid out was debited; a suspended user pays nothing more.
* PIN: a step-up proof is spent on one thing, a PIN that was replaced does not come back, and
  what serves once (a first definition, a recovery code) serves nobody who comes later.
* Exchange: both transactions or neither, no client below zero, a history that replays at the
  recorded rates up to rounding.
* Wallet events: a completed payment's event is sent although processes die; users' accounts
  and phones follow the news that was heard.
* Fund: a campaign's raised amount is the sum of its investments, each backed by money of its
  own; a paid order becomes an investment unless its callbacks are given up; instalments add up
  to the debt.

## 2. Modules

| Module | Models | Lines of code it stands for |
|---|---|---|
| `PaymentStates` | the transition tables and `_apply_status`, pure | `payments/domain/entities.py`, `webhooks.py:126-157` |
| `Payments` | intents with their attempt, refunds, inbox, reconciliation run, capture and refund journals, success events; the provider's charge is external | `use_cases.py`, `webhooks.py`, `reconciliation.py`, `refunds.py` |
| `PaymentPromise` | what the module promises about money, with no rows, workers or retries | (abstract) |
| `PaymentsRefinement` | the mapping from `Payments` to `PaymentPromise` | (abstract) |
| `OutboxDelivery` | outbox rows, leases, workers' memory, replay | `deliveries.py`, `repositories.py`, `backoffice_commands.py` |
| `Payouts` | payouts, overlapping reconciliation runs; the transfer is external | `payouts.py`, answers of `pawapay_processor.py` |
| `SupportRefunds` | EXTENDS `Payments`: support actions around its refund steps | `support_router.py` |
| `Settlements` | commands by id and key, settlements from back office and command line, journals over days, the two daily reports | `backoffice_commands.py` (application and infra), `accounting.py`, `daily_summary.py`, `accounting_summary.py`, `backoffice_router.py`, `summary_router.py`, `ops/maintenance.py` |
| `CommandPromise` | what the back office promises about its commands, with no rows, locks or transactions | (abstract) |
| `Processors` | EXTENDS `PaymentStates`: registry, routing and, for one operation, each adapter's initialization, payout, look-up, refund and webhook; the provider is external | `processor_router.py`, `ports.py`, `presentation/deps.py`, `infra/*_processor.py`, `webhook_router.py` |
| `Wallet` | deposits, withdrawals, transfers, webhook inbox, sweep and reconciliation by hand over account balances; the gateways' orders are external | `wallet/application/use_cases.py`, `ledger.py`, `presentation/routers.py:753-929`, `ops/maintenance.py`, answers of `gateways.py` and `pawapay_gateway.py` |
| `WalletPin` | PIN, recovery codes, step-up proofs, and the payments that need them | `wallet/application/use_cases.py`, `infra/repositories.py`, `infra/models.py`, `core/security.py` |
| `WalletEvents` | the wallet's event outbox with its relays, the processes' subscriptions and handlers | `wallet/infra/subscribers.py`, `infra/repositories.py`, `shared_kernel/events/bus.py`, `ops/maintenance.py`, `main.py` |
| `Exchange` | quotations, rounding, position accounts, the two transactions of a conversion | `wallet/application/exchange.py`, `ledger.py`, `domain/money.py`, `infra/exchange_rates.py` |
| `Fund` | campaigns, wallet investments, paid investments with orders and callbacks, loans and instalments; uses `PaymentPromise` for the payments module | `fund/application/*`, `fund/domain/loan.py`, `fund/infra/*`, `fund/presentation/routers.py`, `wallet/infra/wallet_service.py` |
| `MC*` | values for TLC | |
| `Sums` | totals of amounts over a finite set, used by `Payments`, `Settlements`, `Exchange` and `Fund` | (the queries' `SUM`) |
| `SumLemmas` | the laws of these totals | (lemmas) |
| `PaymentsProofs` | theorems about `Payments`, `SupportRefunds` and the refinement of `PaymentPromise` | |
| `WorkerProofs` | theorems about `OutboxDelivery`, `Payouts`, `Processors` and `WalletEvents` | |
| `WalletProofs`, `WalletPinProofs`, `SettlementsProofs`, `ExchangeProofs`, `FundProofs` | theorems about the module they are named for | |

How they compose. `OutboxDelivery`, `Payouts`, `Processors` and `WalletEvents` share one module
of proofs, so the last three carry their names in `PayoutsInit`, `EventsNext` and the like.
`SupportRefunds` interleaves its requests with every step of `Payments`. `PaymentPromise`
stands between two components: `Payments` is shown to implement it (run `Payments`, property
`PromiseKept`), and `Fund` assumes nothing else of the payments module (`Orchestrator ==
INSTANCE PaymentPromise`). `Processors` and `Payments` share `PaymentStates`; what an adapter
may answer in `Processors` is what `Payments` takes from it (`InitResults`, `Verifiable`).

Conventions. An action is one database transaction, a part of one that ends where PostgreSQL
may make it wait or lets others see something else, or one provider call. A variable named for
a table (`intent`, `attempt`, `payout`, `campaign`, `pin`) is the committed row; what a process
read and still holds is a variable of its own (`answer`, `cancelling`, `batch`, `claimed`,
`req`, `reading`, `task`). `"ended"` or `"done"` is a call that returned or whose process died:
nobody acts on it again. "absent" is a row that is not there. Time is not modelled, but for the
days of `Settlements`: what the code does when something is old enough may happen at any time.
Row locks are modelled where they outlive one action (`Locked`, `Free`); within one action the
transaction is atomic, which is what `FOR UPDATE` on the row and the unique constraints
(idempotency key, `(provider, event key)`, `(event type, reference)` of a journal, the key of a
wallet transaction, the id of a step-up proof) give.

An operator `X_Variant` above an operator `X`, with a comment that begins with "Mutant", is a
plausible bug in the code that `X` translates. It is used by no specification: it is what
"mutants" in `PROJECT.json` substitutes for `X` to show that a property would notice.

### How Payments corresponds to the code

| Action | Code | Transaction |
|---|---|---|
| `CreateBegin` | `PaymentIntentUseCases.create` up to its first commit | intent and pending attempt |
| `ProviderAnswers` | `_initialize` | none: a provider call |
| `CreateEnd` | `_apply_provider_result`, saves | the intent and attempt in memory replace the rows |
| `CreateLost`, `RefundLost`, `WebhookLost` | process or database connection lost | rollback |
| `CancelRead`, `CancelWrite` | `cancel`: an unlocked read and a save | one transaction, but not serialised with others |
| `WebhookReceive`, `WebhookIgnore`, `WebhookRefuse`, `WebhookApply` | `PaymentWebhookUseCases.process` | inbox row first (committed), effects with the final mark |
| `ReconcileStart/Ask/Verify/Skip/Apply/Raise/Crash` | `PaymentReconciliationUseCases.run` | the batch is read once; each candidate commits, which ends the locks of the whole batch |
| `RefundBegin`, `RefundAnswered`, `RefundEnd` | `RefundUseCases.create` | as create |
| `ProviderSettles` | external: the payer pays, pays another amount, or does not | |

`charge` and `returned` say what the provider really did; the properties compare the rows with
them. `Verifiable` and `InitResults` are what the adapters make of it: an error page, an
abandoned charge or one that PawaPay does not know yet included. Of times only the order of the
attempts' `updated_at` is kept (`older`), because a reconciliation run takes the oldest ones,
at most `BatchLimit`, and asks about the oldest first; `Placed` is where an attempt comes when
its row is written, at the end if its status moved (`transition_to`) and where it was read
otherwise. `PaymentPromise`'s `givenBack` is what the journals say was given back.

### How Wallet corresponds to the code

A wallet request is one database transaction from its first query to its commit, the gateway
call in the middle. What is not committed is not in `row`, `balance` and `credits`, but in the
request's own record `call[o][k]`: `o` is the operation (an idempotency key), `k` one of the
HTTP requests that carry the key. `seen` and `active` are the operation's row and the account
as the request's session read them; the session never reads them again
(`expire_on_commit=False`, and a `SELECT ... FOR UPDATE` returns the copy the session has).

| Action | Code |
|---|---|
| `DepositCall` | `deposer` up to the gateway call; the row is inserted, so that another request with the key waits for the index |
| `DebitRead` | `compte_de` and the look-up of the key in `retirer`, `transferer_p2p` |
| `WithdrawCall`, `WithdrawReplay` | `LedgerService.transfer`, then `initier_retrait`; the second where `transfer` finds the key |
| `TransferPost`, `DebitRefused` | `LedgerService.transfer` and the commit; its refusals |
| `Answered`, `RolledBack` | the gateway answered and the request commits; the gateway failed, or the process died |
| `WebhookRead`, `WebhookApply`, `WebhookLost` | `paystack_webhook` up to the inbox insert, and the rest with the commit |
| `CheckStart`, `CheckVerify`, `CheckApply`, `CheckStops` | the sweep, or `/ops/wallet/reconcile/{id}`: rows read once, then a look-up and a commit for each |
| `Freeze` | `on_user_suspended` |
| `ProviderSettles` | external: the order at the gateway, one per call, is paid, refused, or paid with another amount |

`Unstated` are the deposits whose gateway answers a look-up without an amount:
`reconcile_transaction` compares nothing then.

`Settle` is what `confirmer_operation`, `echouer_operation` and the ledger calls in them
commit; `Writes` is the status test they start with. A reversal inserts a row with the key
`reversal:{id}`, so that the second one fails; the second confirmation of a deposit inserts
entries again, which is what `credits` counts. A credit also takes a share lock on the
account's row, by the foreign key of its entries, and waits for a debit that holds it: the
model lets it happen any time, which adds behaviours and takes none away.

### How Fund corresponds to the code

A campaign's row is locked from `get_for_update` to the commit; `reading[x]` is the raised
amount that transaction `x` (a wallet request, or the callback of a payment) read under it.

| Action | Code |
|---|---|
| `CreateCampaign`, `BackOfficeMoves` | `creer`; the status is otherwise moved by no code of the repository |
| `InvestBegin`, `InvestEnd`, `InvestRolledBack` | `investir`: lock, admission, `debiter` by key, the investment and the new sum |
| `OthersPost` | external to the fund: a deposit, withdrawal or transfer of the wallet gets the key (`Shared`) |
| `StartRead`, `StartCollect`, `StartCommit`, `StartLost` | `start_investment`: an unlocked read, the payments module's own commit, the order; the process may die in between |
| `PaymentMoves` | the payments module, as `PaymentPromise` has it |
| `ReceiveAgain`, `Receive`, `Apply`, `ReceiveRolledBack` | `apply_event`: the inbox, the campaign's lock, the investment |
| `GiveUp`, `RetryCallback` | the tenth failed attempt makes the callback a dead letter; the back office has it sent again |
| `RequestLoan`, `Disburse`, `Repay` | `demander`, `decaisser`, `rembourser`, with `calculer_conditions` and `construire_echeancier` |

`posted` are the keys that the ledger has, whoever's transaction it is, and `debited` what the
wallet really took for them: `LedgerService.transfer` finds a transaction by its key alone, and
`debiter` does not tell whether it moved money (`Debited`).

### How WalletPin corresponds to the code

A request reads PIN and recovery codes without a lock (`*Begin`) and writes later; verifying a
PIN writes its row (`clear_lock`), so that from `Verify` on the request holds its lock. A first
definition reads the row twice: to refuse if there is one, and again in `set_pin`, after its
proof was consumed (`SetReadAgain`). A row that was not there then is inserted and may meet the
primary key (`Insertable`), one that was there is replaced; a proof meets the
key of `consumed_step_up_proofs` (`Unspent`), a payment the ledger's key (`posted`).
`pin[a].by` is the request that chose the PIN: what matters of a PIN is whose it is.

| Action | Code |
|---|---|
| `SetBegin`, `SetReadAgain`, `DefinePin` | first definition, with a proof and six codes |
| `ChangeBegin`, `Verify`, `ChangePin` | change: the old PIN is verified first |
| `ResetBegin`, `ResetPin` | reset by a recovery code |
| `AdminBegin`, `AdminResetPin` | reset by support |
| `TransferBegin`, `MerchantBegin`, `Verify`, `PayAgain`, `Pay` | `transferer_p2p`, `payer_marchand` |
| `Refused` | a refusal, a constraint, or the death of the process: all is rolled back |

### How Processors corresponds to the code

One operation from its routing to its end. `request` is a configuration and a command, which no
step changes; `provider` and `returned` are what really became of charge, transfer and refund.
The operators `PaystackInitialize`, `PawapayPayout`, `JekoVerify` and so on are the adapters'
methods, from the kind of answer (`Replies`: a timeout, an error page, JSON without what is
looked for, ...) to a status and a reference. `Call` chooses what arrived at the provider and
what came back; `Rejected` and `LoginUncertain` end before the call; `VerifyAnswered`,
`VerifyMissed`, `VerifyPayout` and `Webhook` feed reports to `AttemptAfter` as reconciliation
and webhooks do. `Hiding` names the answers that may hide a request that was carried out. The
payer pays what was asked, more or less (`Deviations`), and may pay a Paystack charge after it
was reported abandoned (`provider.late`). A refusal whose body has an id of its own is "coded":
Jeko's adapter saves that id as the reference (`JekoReference`).

### How Settlements corresponds to the code

| Action | Code |
|---|---|
| `Begin` | `execute`: `find_replay` by id and key, the fingerprint |
| `Insert` | the command's row, or its constraint |
| `Lock`, `Post`, `Write` | `record_settlement`: the payment's lock, what is outstanding, `post` by reference |
| `Retry` | `retry_callback` |
| `Commit`, `RolledBack` | the one commit of command, result and effect |
| `Capture`, `Refund`, `Payout`, `Deliver`, `Midnight` | what other components book in the meantime (captures and refunds under the payment's lock), the delivery of callbacks, the next day |

A payment is captured once by the first of its events, and again by others after a refund,
since its status is then no longer `succeeded`; its refunds may reach its whole amount,
although its fee is not given back.

A request of the command line has no command row: after `Begin` it goes straight to `Lock`.
`AccountingSummary` (by groups of service, processor and flow) and `UnsettledDelta` are the two
reports, as functions of the journals.

`CommandPromise` is the same back office with each command carried out in one step: `Settle`
takes what it names from what is owed or finds its reference known, `Retry` takes a callback
that was given up, and neither repeats a command. `Settlements` is mapped to it by its
committed rows (`Promise`), so that only `Commit`, `Capture`, `Refund` and `Deliver` may be
more than stutters (`CommandsAreAtomic`).

### How WalletEvents corresponds to the code

| Action | Code |
|---|---|
| `Complete`, `Book`, `Undo` | `_publish_completed` inside the transaction, and its commit |
| `ScanByJob`, `Start`, `Publish`, `Mark`, `RelayCommit` | `relay_outbox_events`, from the housekeeping job and from each start of a process |
| `Victim` | two relays that wait for each other's rows: PostgreSQL ends one |
| `Crash`, `BusFails`, `JobCrashes` | faults, at most `MaxFaults` of them |
| `Tell`, `Handle`, `Finish` | Pub/Sub, and one handler of `subscribers.py` per piece of news: what it reads, and its one commit |
| `AskForAccount` | `compte_de` or a backfill of a user, next to the handlers |

### How Exchange corresponds to the code

`Begin` is `convertir` up to its transactions (rate, rounding, position accounts), `Known` and
`Post` are `LedgerService.transfer`, once for each of the two, with the key's look-up and the
lock of the account debited; `Commit` and `Crash` end the session. `posts[r]` are the
transactions of a request that is not committed: they keep others with the same key waiting.
`Quote` is `poser`. A rate is a fraction; `Stored` is what the column keeps of it, eight places
(`Places`), so that of an inverse `currency_conversions` has a rounded one.

## 3. Runs

Every run finishes with its properties holding.

| Run | Instance | What it shows |
|---|---|---|
| `Payments` | one intent of amount 3 that may be cancelled, refunds of 2, 1 and 1, webhooks, a worker that may die, charges that succeed after they were reported failed, one refund that may be carried out behind an error page | refunds stay within the capture but for that one (`RefundsWithinCapture`), what says paid was charged, captured and announced (`PaidIsBacked`), the refinement of `PaymentPromise` (`PromiseKept`) |
| `SupportRefunds` | two support refunds and a direct one on one intent, the same webhooks and worker | the audit never says more than ledger and provider (`AuditIsTrue`) |
| `Payments_pair` | two intents in one reconciliation batch, webhooks, no refund; `i2` may be cancelled | one capture, failed means not charged, `i1` paid for ever and recovered once collected, unless it is shut out (liveness) |
| `OutboxDelivery` | two events, two workers, two attempts, one replay; the lease of `m2` may end while it is being sent | delivered was received, one sender at a time (`m1`), every event is dealt with (liveness) |
| `Payouts` | two payouts, two workers; `p2` may be in both runs at once and its gateway answers with error pages | booked and announced as paid only when paid, one verdict, of `p1` heard once, recovery of `p1` (liveness) |
| `Settlements` | two requests at once among six orders: two amounts that exhaust a payment, one key with two contents, one reference for two payments, a retry, the command line; two payments, the first with a fee, captured again after refunds that give all of it back; a payout, two days | settlements fit, each command takes effect as in one step (the refinement of `CommandPromise`) and once, reports add up |
| `Processors` | all sixteen configurations, collections and payouts with and without channel and network, every kind of answer, payments of too much and too little and with fractions of a franc, fees, a charge paid after it was abandoned | routing, success is money, failure is none, what is open is found again (liveness) |
| `Wallet` | one account with money for one debit, a transfer, two withdrawals and one of two deposits on it, of which `d2` has a gateway that states no amounts; `w1` is sent twice, may be handled by two processes at once and its gateway may fail; one checker; its user may be suspended | no overdraft, credited deposits were collected and are credited once, what `w2` paid out was debited, a suspended user's balance does not shrink |
| `WalletPin` | three wallets: one whose PIN changes while a transfer, its retry and another with its proof are under way, one defined twice and by support and reset twice with one code, one with an old hash | proofs are spent once, replaced PINs stay away, who comes later is not served again |
| `WalletEvents` | two processes and the job, two payments, one fault; a phone that passes from one user to another while a backfill runs | published was sent, every booked payment is sent while relays are run (liveness), the news is kept |
| `Exchange` | two conversions of 25 francs from an account of 40, one sent again, one the other way, a rate that changes | both transactions or neither, no account below zero, replay at the recorded rate |
| `Fund` | a campaign of 3 that investments of 2, 1, 1 and 1 more than fill: `w2` with a key that the wallet may have for something else, `o2` requested twice and with a callback that may be lost ten times; a loan repaid in up to two calls | raised is what was invested, each investment is funded once, instalments add up, a paid order becomes an investment or its callbacks end as dead letters (liveness) |

Bounds, and why they are enough. Two intents: payments interact only through the batch of a
reconciliation run (its locks end together, and an exception ends it for all), which two show.
Three refunds of 2, 1, 1 out of 3: some pairs fit and some do not. One delivery of each webhook
event in process at a time (`MaxHandlers = 1`), but any number of successive deliveries. Two
workers: the outbox and payout code is symmetric in them, and each hazard is between two.
`MaxAttempts = 2` (the code has more): a first failure, a last one, and with `MaxReplays = 1`
one beyond. `announced` in `Payouts` is counted up to 2, since only "more than once" matters.
`Settlements` gives each of its two requests any of six orders, so that every pair of them
meets; the requests are alike (`Alike`, a symmetry), and the second day has only refunds and
settlements (`SecondDay`), since captures and payouts change the reports of their day in the
same way on each. `WalletPin` has one of its three wallets used in each behaviour (`OneWallet`)
and `Wallet` one of its two deposits (`OneDeposit`): wallets share nothing, and the deposits
differ in their gateway only. `BatchLimit` is 2 in `Payments_pair`, so that a batch of both and
one of the older alone occur, and `ShutOut` means the payment that is stuck in front.
`Processors` has no bound but the values of its amounts: one operation does not meet another.
`MaxFaults = 1` in `WalletEvents`: a fault at any point, of any process; the histories of
`MCStarts` are two because payments and news share only the processes' starts and ends. In
`Exchange` 40 covers one conversion of 25 and not two, and 655.957 francs a euro leave
remainders both ways and an inverse that four places round (`Places`; the code has eight). In
`Fund` the last of the investments finds the goal reached, or exceeds it. A second event about
one payment, a second loan of the pool and repayments sent again are not in the run; the proofs
have any number of them. None of these bounds is in the proofs, which hold for any value.

The type invariants (`TypeOK` of each module, `PayoutsTypeOK` and so on where modules are
proved about together) hold on the same instances; for `Payments`,
`OutboxDelivery`, `Payouts`, `Processors`, `Wallet`, `Exchange` and `Fund` they are theorems,
the proofs of `Settlements` and `WalletPin` prove a `WellTyped` of their own.

### Hypotheses

Some constants are not bounds but say under which circumstances a property is stated, because
outside of them the code does not have it (section 6):

* `Cancellable = {i2}` and `Refunds = {}` in `Payments_pair`: `PaidIsForever` and
  `ChargedIsRecovered` are about payments that nobody may cancel, and with refunds
  `CaptureOnce` does not hold. `WorkerCrashes = FALSE` there: a worker that dies each time
  before its commit recovers nothing. `LateSuccess = FALSE` there: no provider reports a
  success after a failure.
* `ShutOut` in `ChargedIsRecovered`: as many older attempts that stay open as a run takes, or
  an older payment that was cancelled and yet paid, at which each run raises, may keep a
  payment from being reconciled for ever. The property says recovered, or shut out from some
  time on.
* `ErrorPages` in `Payments`: refunds that a gateway may carry out behind an error page. The
  adapters call these failed, and a failed refund frees its amount; `RefundsWithinCapture`
  counts the money of all others, and allows that of a failed one only for these.
* `Slow` in `OutboxDelivery`, `Overlapped` and `GatewayErrors` in `Payouts`: `SingleSender`,
  `DeliveredIsFinal` and `PaidIsConfirmed` leave these out, and what `OneVerdict` says of
  hearing once leaves out `Overlapped`.
* `Contended`, `Unreliable` and `Abandonable` in `Wallet`: operations that two processes may
  handle at once, whose gateway call may fail and yet be carried out, and deposits whose
  gateway calls a payment failed that can still be made. `PaidOutIsDebited` leaves the first
  two out, and so does `CreditedIsCollected` with the first in what it says of crediting once;
  the proofs of `CreditedIsCollected` and `FailedIsUncollected` allow any such sets.
  `Unstated`: deposits whose gateway states no amount are credited whatever was collected.
* `Resent`, `Retried`, `Shared` and `Unreachable` in `Fund`: orders requested again are left
  out of `PaidBecomesInvestment`, keys of repayments that the ledger may know already (sent
  again, or of another transaction: `MayBeFound`) out of what `InstalmentsAddUp` says of the
  amounts paid, and keys of investments that clients also use elsewhere out of what
  `InvestedIsFunded` says of money taken. All other properties include them. `Unreachable` are
  callbacks that may fail ten times although their order is there.
* `Serial` in `WalletPin`: of a wallet with an old hash (`Legacy`) requests must not meet for
  `PinMovesForward`.
* `Hiding` in `Processors`: which answers may hide that a request was carried out. In the run
  these are the timeouts. The error pages of payouts and refunds and unreadable answers to a
  refund must not be among them, since the adapters take these for refusals
  (`FailureIsNoMoney`); its proof assumes no more than that (`Plain`), the other proofs
  nothing. A charge that is paid after it was abandoned is exempt from it, and from
  `MoneyIsSeen`, which also asks for the amount to be the one asked for and for a fee that can
  be read. `Echoes = {"ours"}`: CinetPay's look-up names the identifier it was asked for.
* `News` and `Ask` in `WalletEvents`: the proof of `NewsIsKept` is for histories that are
  `OrderlyNews`. A user is registered once and before anything else is told of him
  (`RegisteredFirst`); whoever had the number a user ends with has his own last one before
  (`LastPhonesAreFree`); a user is registered with a number nobody was told to have, or with
  the one he ends with (`FirstPhonesAreFree`); and a request for an account asks for its user's
  last number, with which nobody else was registered, or for none where the last one comes with
  an update (`AsksAreCurrent`). The run's history is such a one, in which a number passes from
  one user to another; TLC evaluates it (`NewsAreOrderly`). Section 6 says what happens
  otherwise.
* `Flow` in `Settlements`: no payment calls itself a payout (`ReportsAddUp`, run and proof).

`CHECK_DEADLOCK FALSE` everywhere: a system whose payments are all settled stops.

### Fairness

`ops/__main__.py:124-147` loops for ever over one cycle per interval and catches what a cycle
raises. That gives, in `Payments_pair`, `OutboxDelivery` and `Payouts`: a run that has started
takes its next step (weak fairness of `Reconcile`), and a candidate that is listed again and
again is once in the batch, asked about and settled (strong fairness, per payment, payout or
event, because crashes and competing workers disable these steps in between). In
`Payments_pair` a batch is the oldest attempts and no others, so that this is asked only of
those among them: nothing says that a payment behind a full batch is ever reached (`ShutOut`).
We assume that a
provider is not unreachable for one payment for ever. `LeaseExpires` is weakly fair: time
passes. Nothing is assumed of webhooks (all may be lost), of clients, or of the provider
settling a charge. `Processors` assumes the same of one operation: reconciliation asks again
and again and is answered in the end (strong, since error pages come between).

`Fund` relies on what `OutboxDelivery` shows, that the callback is sent until it is taken or a
dead letter. `GiveUp` makes it one, after ten failures: where its order is not there, or where
nothing of the fund answers (`Unreachable`). What remains is that one of ten attempts that
reach the fund is served, about 17 minutes apart from first to last: strong fairness of
`Receive`, because other investments hold the campaign in between, and of `Apply`, because a
transaction that began may be undone (`ReceiveRolledBack`). That a wallet request ends is weak
fairness of `InvestEnd \/ InvestRolledBack`. That the back office ever has a dead letter sent
again is not assumed.

In `WalletEvents` a relay that runs goes on (`RelayStep`, weakly fair). That one is run is not
assumed: the repository has no loop that does it. It is run when a process starts
(`main.py:83`), by a command or by an admin's request (`ops/__main__.py:213`, `:254`,
`routers.py:540`), and in housekeeping comes after a sweep that may raise
(`ops/maintenance.py:406`). `BookedIsSent` therefore ends with the news sent, or with its row
waiting while no relay is run (`LeftWaiting`).

## 4. Proofs

TLAPS checks the following for every value of the constants that satisfies the modules'
`ASSUME`s. All the safety properties the runs check are theorems.

### Sums

Much of what matters here is about totals: what was refunded, raised, settled, owed. `Sums`
counts units: `SumOf(S, amount)` is the number of pairs of an element `x` of `S` and a number
of `1 .. amount[x]`, and `BalanceOf` the difference of what comes in and what goes out. For TLC
this is the sum; for the provers it is a cardinality, whose laws are in the library, where a
fold would be a recursion that they cannot reason about. `SumLemmas` proves what the
components need: the total of nothing and of one element, of two disjoint sets, of a part
(`SumOfMore`), of a set by groups (`SumOfParts`), of two amounts per element (`SumOfBoth`), and
after one amount changed. Where a law goes over the subsets of a set one element at a time,
`GoodOfAll` takes the place of induction: among the sizes of bad subsets there would be a least
one (`Least`, from the well-foundedness of `<`), and no step leads to it.

### Theorems

* `PaymentsProofs`. `TypeCorrect`; `PaidBacked` (`PaidIsBacked`) and `RefundBooked`
  (`RefundsBooked`) with cancel calls, refunds and crashes of every kind; `PaidForever` where
  nobody may cancel; `CapturedOnce` where there are no refunds. The inductive invariant is
  `TypeOK` with `NewsIsTrue` (whoever holds news of a success holds it rightly, because a
  charge is opened once and stays as it settled), `RefundsInFlight` (a refund in flight owns
  its pending row and its payment was captured), then the properties themselves. `PaidIsBacked`
  alone is not inductive: a webhook request or a verdict in memory could carry a success of a
  charge that was never paid. `PaidForever` needs `CreateComesFirst`: the blind save at the end
  of create can only overwrite a payment that nobody can have confirmed, since its reference is
  not stored yet. `CapturedOnce` needs `CapturedSaysSo`: without refunds a captured intent
  still says succeeded, which is what `was_succeeded` asks. `RefundedWithinCapture`
  (`RefundsWithinCapture`) has refunds of any number and amounts, by `RefundsFit`: those asked,
  accepted and done fit together in the amount, each is of a captured payment, and the provider
  returns no money but for these and, of those called failed, for `ErrorPages`.
  `RefundsWithinCapture` alone is about money returned; a refund checked and not yet sent would
  break it later. `FailedUncharged` (`FailedIsUncharged`, where `LateSuccess = FALSE`) is by
  `FailureIsTrue`: a failure in a row, a webhook, an answer or a verdict is final at the
  provider; a create call that failed leaves no charge behind, and a cancel that saved its
  stale copy does not say failed. `PaymentsKeepPromise` (`PromiseKept`) is the refinement of
  `PaymentPromise`: each step maps to its `Collect`, `Book` or `GiveBack` or to a stutter. Both
  invariants above are needed, the first for bookings and `RefundsFit` for what is given back.
* `PaymentsProofs`, on support refunds. `SupportImplementsPayments`: each step of
  `SupportRefunds` is a step of `Payments` or a stutter, so that every theorem about payments
  carries over; `AuditTrue` (`AuditIsTrue`) and `OneAnswerEver` by `Audit`: what a support
  action was told is what its refund's row says, or said of an uncertain one.
* `WorkerProofs`, outbox. `DeliveredReceived`, `Bounded`, by `AttemptsLeft` (a row that may
  still be tried has an attempt left, in the table and in the memory of a slow worker);
  `OneSender` by `HeldIsLeased`. `DeliveredStays` (`DeliveredIsFinal`, an action property that
  no run checks) from the same: who still holds a row that does not outlast its lease holds it
  as it is, so nobody takes a delivered event back or counts a failure from an old number.
* `WorkerProofs`, payouts. `SucceededPaid` and `OneVerdictEver`, by `NewsIsTrue` of that
  module; that of a payout no two runs read at once the module hears what the row says, and
  once, is by `RunsApart` (one batch has the row, as it is in the table).
* `WorkerProofs`, processors, for any configurations, deviations, replies, fees and amounts.
  `RoutesAreSound` (`RoutingIsSound`): the least of the priorities of those able is taken, and
  a registered adapter that names a network ranks before the sandbox. `SuccessesAreMoney`
  (`SuccessIsMoney`) and `FailuresAreNoMoney` (`FailureIsNoMoney`, under `Plain`) by `Money`,
  whose part `Charged` says that a provider knows of nothing before the call and pays out no
  less than it was asked to. Of what a payer pays nothing is said: it is the comparison of
  amounts that must find out. Most of the proof is about the conversions: that what each
  adapter reads of an amount in hundredths, and of a fee that it rounds up, cannot pass for
  more money than was paid.
* `WorkerProofs`, wallet events. `PublishedIsSent` (`PublishedWasSent`) by `EventsInv`: a relay
  has given to the bus what it is about to mark and what it has marked, also if its transaction
  is then chosen as a deadlock's victim and the row is pending again. `EventTypes` is the type
  invariant.
* `WorkerProofs`, what processes hear. `NewsKept` (`NewsIsKept`) for any users, processes,
  requests, crashes and news that are `OrderlyNews`, by `NewsInv`. Each process handles the
  news in their order, so that one number says how far it is (`Handled`, `InOrder`); the
  processes are not in step, and a transaction that one of them refuses is lost to it for good.
  Three parts say why nothing is lost to all. `FirstHeard`: until somebody is done with a
  registration its number is nobody's, or goes to a user who was told to have it earlier, so
  the first process that ends it leaves an account. `LastHeard`: when all have passed what
  comes before a user's last number, either he has it or some process will yet give it to him
  and has read him as he is; nobody else has it then, since he gave it up in news that all have
  passed. The delicate case is a process late with older news of that user: it may still take
  the number away, but then it is one that is not done with the last itself.
  `SuspensionHeard` does the same for a suspension behind a registration. None of them is
  inductive without the others, nor without `PhonesTold` (a number in a row was told of its
  user) and `FoundIsThere` (an account that a transaction read is not gone). That a user's
  news have a last one is proved from the well-foundedness of `<` (`LastIsLast`).
* `WalletProofs`, for any accounts, amounts, operations, requests per key and checkers, with
  contended, unreliable and abandonable operations. `TypeCorrect`; `NeverOverdrawn`
  (`NoOverdraft`), `MoneyWaits` (`ReservedIsThere`) and `FrozenStays` (`FrozenKeeps`) from
  `IInv`: a call that creates a withdrawal holds its account's lock (`CallsInv`), only one
  request does (`OneLock`), and so the balance still covers it when it commits (`Reserved`);
  what webhooks and checkers hold exists, so that they only ever give money (`RowsInv`).
  `NoOverdraft` alone is not inductive: the money is taken at the commit, long after it was
  counted. `CreditsAreCollected` and `FailuresAreUncollected` follow from `DepositsInv`: rows,
  webhooks and checkers all speak of the order that the row names, and what they say of it
  cannot become false. That a deposit which one process at a time handles is credited once is
  its part `Once`: while a webhook or a checker is at work on it, nobody else is, and the row
  it read is still pending. `PayoutsAreDebited` (`PaidOutIsDebited`) has withdrawals that one
  process handles at a time through a gateway that answers, by `WithdrawalsInv`: an order that
  may be paid out is that of the one request at work or the one the row names, and nobody takes
  a withdrawal for failed unless that order was refused. With `NoOverdraft`'s lock the debit is
  then there, and stays.
* `SettlementsProofs`, for any number of requests, orders, payments and days. `CarriedOutOnce`
  (`CommandOnce`) by `OneOpen`: of requests for the same command at most one has its row
  inserted, and none while a committed row stands in its way. `CommandOnce` alone is not
  inductive, since the row is inserted long before it is committed. `CompletedIsBooked`
  (`CommandsAreBooked`) by `BookedWhenDone`: a settlement's journal is its request's last act,
  so a request that finds its reference known has found somebody else's. `SettledWithinOwed`
  (`SettlementsFit`, an action property) by `StillOwed`: the payment's row has one holder from
  the sum to the commit, so that what a request found to be owed still is; captures and
  refunds, which take the same lock, wait for it. `SummariesAddUp` (`ReportsAddUp`) holds in
  each state whose journals are ascribed to payments or payouts (`Ascribed`): the groups of the
  accounting summary part the day's journals, and within a group the outstanding amount is the
  sum of what the journals add and take. Fees, repeated captures and refunds are any: what is
  owed may be negative, and then nothing is settled.
  `CommandsTakeEffectAtOnce` (`CommandsAreAtomic`) is the refinement of `CommandPromise`: the
  commit of a request is the one abstract step, whatever was committed between its look-up and
  that, and every other step of a request is a stutter. At the commit `OneOpen` says that the
  command is new, `StillOwed` that what it takes is still owed, and `RowsAreHeld` that the
  callback it queues is still one that was given up, since a retry keeps that row from its
  update to its commit. A capture is a step of the promise with its fee taken off, a refund one
  that takes off what it gives; `Ascribed` says which event or refund each journal is from, so
  that each is such a step once.
* `WalletPinProofs`. `ProofsSpentOnce` (`ProofsAreSpent`) by `OneVerified`: a verified PIN is a
  locked row, so one request of an account is verified at a time and what it found out about
  its key stays so; without it a retry could spend its own proof on a transfer that is already
  posted. `PinForward` (`PinMovesForward`) by `PinHistory` and `ReadHistory` (an old hash is
  there from the start and nothing makes one), and, for serial wallets, `ReadIsCurrent`.
  `ServedOnce` (`ServesOnce`) by `Served`: a PIN that was defined is never undefined again, and
  a code that was used stays so, so that a request which began after that found it out when it
  read; of those that read before nothing of the kind can be said.
* `ExchangeProofs`. `ConversionsAreWhole` (`BothLegs`) by `PostsInOrder` (how far a request has
  come says what it has posted) and `KeyIsTaken` (uncommitted transactions keep others from
  posting with their key). The one case that is not immediate is a retry that finds the first
  transaction of its key committed and goes on to the second: it finds that one too.
  `SourcesAreCovered` (`SourcesCover`) by `Books`: `LocksHeld` (nobody else has an account
  debited while a debit is not committed) and `FundsInv` (the balance covers what is committed
  with what one request is about to add). `RemaindersAreSmall` (`RemainderIsSmall`) is
  arithmetic about `Money.convertir` over rates and exponents (`ConvertirIsNear`), together
  with `RecordsInv`: what is posted is what the conversion's row says at the rate computed
  with, of which the row keeps a rounded one (`Stored`), at most half a place away. `Minor`
  gives the minor units per major unit of a currency, 10 to its exponent.
* `FundProofs`, for any campaigns, keys, orders, calls, news and loans. `RaisedInvested`
  (`RaisedIsInvested`) by `LockHeld`: who holds a campaign's row holds it alone and read what
  it still says, without which a concurrent callback's addition would be lost. `InvestedFunded`
  (`InvestedIsFunded`) by `Funded`: the key of a counted investment is in the ledger, and, if
  it is of no other use, was debited its amount when it came there, or the investment belongs
  to an order that its payment closed, and what is being added belongs to an order still open;
  of the payments module it uses `PaymentPromise` only. `LoansAddUp` (`InstalmentsAddUp`) by
  `GrantedBooks`: the dues, the last of which takes the remainder, add up to principal and
  interest for every rate and number of months, nothing is paid above its due, and what is paid
  is what was received, but for repayments with a known key (`MayBeFound`). `TypeCorrect` says
  with it that no pool goes below zero.

### Only model-checked

* Liveness, which needs ENABLED: `ChargedIsRecovered`, `EveryEventIsDealtWith`,
  `PaidIsConfirmed`, `PaidBecomesInvestment`, `BookedIsSent`, `MoneyIsSeen`.
* What a recursive definition computes for every input. There is none in the modules that are
  proved about: sums are cardinalities, a last element is a `CHOOSE` whose existence is proved.

## 5. Plan

Done: every component of section 1 has its module, and every safety property its proof. What
is left, in this order:

1. `Settlements` with the capture, refund and payout steps of `Payments` and `Payouts` in place
   of its own `Capture`, `Refund` and `Payout`: that those are such steps is a refinement worth
   proving.
2. The liveness of the sweep on an instance without debits, and the worker's cycle as one loop.

## 6. What the code does that one might not expect

Met while modelling; the hypotheses of section 3 and the notes of "hazards" refer to these.

*Payments.*
* A cancel call that read a pending payment cancels it after its capture, and the end of a
  create call revives a cancelled intent: both save what they read (`Cancellable`).
* A success webhook after a partial refund books and announces the capture a second time:
  `was_succeeded` (`webhooks.py:101`) asks for the status `succeeded`, which a refund has
  replaced.
* A candidate whose report does not apply raises out of the reconciliation loop
  (`reconciliation.py:82`) and is the oldest again next time: the candidates behind it are
  never reached. A payment that was cancelled and yet paid is such a one (`ShutOut`).
* A reconciliation run takes the 100 attempts with the oldest `updated_at`
  (`repositories.py:212`). A candidate that is skipped (unknown, of another amount) or whose
  report changes nothing keeps its `updated_at` and its place: 100 of them that stay open, say
  payers of PawaPay who never answered, shut newer charges out for ever (`ShutOut`).
* A refund that a gateway's error page answers (any HTTP status from 400,
  `pawapay_processor.py:417`, `paystack_processor.py:275`) is failed, although the gateway may
  carry it out. A failed refund no longer counts (`repositories.py:344`), so that the next one
  may give back more than was captured (`ErrorPages`).
* A create or payout call that dies before it saved the provider's reference leaves a charge or
  transfer that no run looks up: hence the saved reference in `ChargedIsRecovered` and
  `PaidIsConfirmed`.
* Two concurrent refunds that return everything leave the intent `partially_refunded` with one
  of the two amounts (`refunds.py:109`), since each saves the intent it read before its first
  commit ended the lock.
* A refund accepted for later is announced to support as failed (`support_router.py:281`); a
  support request that dies between its last two commits is never answered.
* A gateway's error page on a PawaPay transfer order is a failed payout
  (`pawapay_processor.py:325`), although the transfer may be carried out (`GatewayErrors`,
  `Hiding`).
* A batch of deliveries that outlasts its lease takes a delivered event back to pending
  (`Slow`); overlapping payout runs take a final status back (`Overlapped`).
* One cycle of the worker runs payments, payouts and deliveries in this order, in one `try`
  (`ops/__main__.py:129`): what raises in the first keeps the others from running in every
  cycle in which it recurs.

*Back office.* A settlement whose reference is known posts nothing and yet completes, whatever
payment or amount the reference was booked for (`payments/infra/repositories.py:562`);
`CommandPromise` has it so, and `CommandsAreBooked` says who booked it. A refund after a
settlement may leave a payment with less than was settled, and one of the whole amount of a
payment that bore a fee leaves what is outstanding negative: `refunds.py:77` asks for the
amount and not for what is left of it. Rows carry the start of their transaction as their time,
so that yesterday's report may still change after midnight. A payment whose metadata call its
flow "payout" is summed with the payouts of the accounting summary.

*Routing and adapters.* A payout goes to the first adapter by priority that can carry it, and
the sandbox (100) ranks before CinetPay (110) and Jeko (120): outside tests a payout that the
sandbox takes and PawaPay does not is refused, although one of those could carry it
(`payouts.py:109`). CinetPay's look-up takes the identifier from the answer
(`cinetpay_processor.py:365`): where it is CinetPay's own, reconciliation compares it in vain
and the payment stays open (`Echoes`). A login of CinetPay's that times out saves the reference
"login". Jeko's look-ups need Jeko's identifier: an answer that was lost leaves nothing to look
up by. What a refused Jeko request returns as its id is the error's own
(`insufficient_balance`, say), and is saved as the provider's reference
(`jeko_processor.py:193`, `:286`), which is unique per processor
(`payments/infra/models.py:93`, `:334`): a second refusal with that id cannot be saved, the
request fails, and its attempt or payout stays open without a reference that a run would look
up. A payment of less than was asked, or of more, is skipped by reconciliation and refused by
webhooks for ever (`reconciliation.py:71`, `webhooks.py:90`), as is one whose fee Jeko states
with a fraction of a franc, though it was paid in full: its look-up says unknown
(`jeko_processor.py:233`). A Paystack charge that its payer abandoned is called failed
(`paystack_processor.py:338`) and may be paid all the same. CinetPay's and Jeko's refunds raise
`NotImplementedError` after the refund's row was committed, which then stays pending.

*Wallet.*
* Two concurrent withdrawal requests with one key debit once and order two payouts: the second
  is told that it is a replay and ignores it (`use_cases.py:660`; `Contended`).
* Webhook and sweep, or two checkers, credit one deposit twice, or complete and reverse one
  withdrawal (`Contended`).
* A withdrawal whose gateway call times out or whose process dies is rolled back although the
  payout may go through (`Unreliable`, `use_cases.py:685`).
* A deposit whose gateway answers a look-up without an amount is credited with what was asked
  for (`use_cases.py:800`; `Unstated`).
* An `abandoned` deposit is final, and a later payment of it is never credited (`Abandonable`).
* A request that had read the account before its suspension still debits it; `FrozenKeeps`
  leaves it out. A suspension freezes the user's account of the type `user` only, and nothing
  if the account does not exist yet.
* The count of wrong PINs is rolled back with the refusal (`wallet/infra/repositories.py:464`):
  no PIN is ever locked. A payment that rehashes an old PIN writes the PIN it read over one
  chosen meanwhile (`use_cases.py:222`; `Legacy`, `Serial`). Two concurrent resets may use one
  recovery code, which is for one use (`wallet/infra/models.py:322`).
* Two first definitions of a PIN that meet, or one and a reset by support, may both succeed:
  `set_pin` reads the row again after the proof was consumed (`infra/repositories.py:445`) and
  replaces a PIN that the other committed in between. The first client's PIN is gone, and the
  recovery codes of both are valid. A replay in `payer_marchand` overwrites the
  business reference of the payment.
* The rate that `currency_conversions` keeps of an inverse has eight places
  (`wallet/infra/models.py:244`), while the conversion was computed with 28 digits
  (`exchange_rates.py:30`). 100,000,000 XOF at 655.957 francs a euro post 15,244,902 cents, and
  the recorded 0.00152449 gives 15,244,900: a history of large amounts does not replay to the
  unit, as `models.py:199` has it.
* A conversion sent again after the rate changed writes a second row of `currency_conversions`
  with amounts nobody booked (`exchange.py:122`), and two requests may create a position
  account each. No HTTP route calls `convertir`.
* No loop of the repository runs the relay of the wallet's events: between starts, commands and
  requests by an admin what is booked waits, and a housekeeping run in which the sweep raises
  does not get to it (`ops/maintenance.py:406`).
* Payments are announced before they are committed, and again by a relay that crashed before
  its commit; news told while every process is down is lost. `NewsIsKept` is about processes
  that were up.
* Each process handles each piece of news, and a late one writes what it heard over what others
  have made of later news (`subscribers.py:42`). Where a number comes back into use this loses
  accounts and numbers. v is registered with q and moves on, u is registered with q and moves
  on: a process that is late with v's registration gives v the number q again, and u's
  registration is refused everywhere, so that u never has an account. Or: u has o, v has p, v
  moves to q, u moves to p, v moves to r, x takes q: two processes that are behind refuse each
  other's writes, and u ends with o. `OrderlyNews` leaves these histories out.
* A request that creates an account without a number, between what a registration's handler
  reads and its commit, makes that commit fail on the account; the number told is lost unless
  an update brings another.

*Fund.* An order requested again after its payment succeeded is stored as succeeded and never
becomes an investment (`payment_use_cases.py:112`; `Resent`). A repayment sent again with its
key is debited once and counted twice (`fund/application/use_cases.py:375`; `Retried`). An
investment from the wallet with the key of an earlier deposit, withdrawal or transfer of any
user is made without a debit: the ledger returns that transaction (`ledger.py:218`), whose
amount `debiter` then overwrites (`wallet_service.py:44`), and no investment has it yet; a
repayment with such a key counts as paid. `transferer_p2p` checks for this
(`wallet/application/use_cases.py:449`). After ten attempts the callback of a payment is a dead
letter and the investment is not made until the back office has it sent again. An
investment is admitted while the campaign is below its goal, whatever its amount, and a paid
one is applied whatever the campaign has become: a campaign may raise more than its goal.

## 7. Not modelled

* Amounts of payments other than those of refunds in `Payments` (they are in `Processors`);
  clock times, ages and delays.
* Request building, signatures, phone formats, HTTP clients of wallet gateways and providers:
  I/O. What comes back is modelled.
* Authentication, service tokens, configuration: stateless checks of each request. QR codes: an
  encoding without state.
* Logging, metrics, read-only queries other than the two daily reports, schemas, migrations,
  deployment. The constraints of the schema that models rely on are named under "Conventions".
* Database failures other than the loss of a transaction.
* The liveness of the wallet's sweep: a look-up that raises ends it (`ops/maintenance.py:202`),
  and the same row may end each later one. Safety under it is in `Wallet` (`CheckStops`); with
  fairness the instance is beyond what TLC finishes.
* The coupling of the three workers in one cycle, described in section 6: each is modelled with
  the fairness of a cycle that reaches it.
* Two operations at one provider at once in `Processors`: adapters keep no state between calls,
  and operations meet in the unique index of provider references only (section 6, Jeko).
