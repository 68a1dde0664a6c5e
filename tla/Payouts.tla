------------------------------ MODULE Payouts -------------------------------
(***************************************************************************)
(* Payouts to third parties (PayoutUseCases): the create call, two         *)
(* transactions around the transfer order it gives a provider, and the     *)
(* workers that ask the provider how the transfer ended.  A worker holds   *)
(* the rows it read in memory and writes them back from there.             *)
(***************************************************************************)
EXTENDS Naturals

CONSTANTS
  Payouts,        \* the payouts modules may order
  Runs,           \* the payment worker and maintenance commands beside it
  Overlapped,     \* the payouts a run may read while another still holds them
  GatewayErrors   \* those whose order an HTTP error may answer and yet be carried out

ASSUME PayoutsAssumption ==
  /\ Overlapped \subseteq Payouts
  /\ GatewayErrors \subseteq Payouts

VARIABLES
  payout,      \* payouts rows: status and provider_reference
  calling,     \* create calls between their two transactions
  answer,      \* what the provider told such a call
  batch,       \* rows a worker's run read and has not dealt with yet
  fresh,       \* no commit yet in the run: the batch's row locks are held
  verdict,     \* the answer to the run's last verify_payout (at most one)
  journals,    \* payouts with a ledger journal
  announced,   \* payout.<status> rows in the outbox, counted up to 2
  transfer     \* external: the provider's transfer

createVars == <<calling, answer>>
workerVars == <<batch, fresh, verdict>>
effects == <<journals, announced>>
payoutVars == <<payout, createVars, workerVars, effects, transfer>>

Absent == "absent"
Open == {"pending", "processing"}
Final == {"succeeded", "failed"}
Reported == {"processing", "succeeded", "failed"}
\* No reference, one verify_payout can look up, or our own where the provider
\* only knows its own: a look-up then always says "processing".
Refs == {"none", "known", "foreign"}
Row == [status : Open \union Final \union {Absent}, ref : Refs]
Candidate == [payout : Payouts, status : Open, ref : Refs \ {"none"}]
CallStates == {"idle", "calling", "answered", "ended"}
Transfers == {"none", "open", "paid", "declined"}

InBatch(w, p) == \E c \in batch[w] : c.payout = p
Locked(p) == \E w \in Runs : fresh[w] /\ InBatch(w, p)

PayoutsInit ==
  /\ payout = [p \in Payouts |-> [status |-> Absent, ref |-> "none"]]
  /\ calling = [p \in Payouts |-> "idle"]
  /\ answer = [p \in Payouts |-> [status |-> Absent, ref |-> "none"]]
  /\ batch = [w \in Runs |-> {}]
  /\ fresh = [w \in Runs |-> FALSE]
  /\ verdict = [w \in Runs |-> {}]
  /\ journals = {}
  /\ announced = [p \in Payouts |-> [s \in Reported |-> 0]]
  /\ transfer = [p \in Payouts |-> "none"]

\* Mutant: a transfer that is under way is booked.
Booked_Accepted(p, status) == IF status # "failed" THEN journals \union {p} ELSE journals

\* PayoutAccountingService.record_success, whose reference is posted once.
Booked(p, status) == IF status = "succeeded" THEN journals \union {p} ELSE journals

\* One more outbox row: an event of its own, with an event id of its own.
Announce(p, status) ==
  announced' = [announced EXCEPT ![p][status] = IF @ = 2 THEN 2 ELSE @ + 1]

-----------------------------------------------------------------------------
(* The provider (external) *)

\* _execute on an order whose outcome it does not know: an exception nobody foresaw
\* leaves no reference at all.
Unsure == {[status |-> "processing", ref |-> r] : r \in Refs}

\* Replies to an order it carries out, may not have got, or does not carry out.
OrderReplies(p, outcome) ==
  CASE outcome = "open" ->
         {[status |-> "processing", ref |-> "known"]} \union Unsure
           \union IF p \in GatewayErrors THEN {[status |-> "failed", ref |-> "known"]} ELSE {}
    [] outcome = "paid" -> {[status |-> "succeeded", ref |-> "known"]}
    [] outcome = "declined" -> {[status |-> "failed", ref |-> "known"]} \union Unsure
    [] outcome = "none" -> {[status |-> "failed", ref |-> "none"]} \union Unsure

\* What verify_payout returns; a transfer it cannot find is "processing" too.
Verifiable(c) ==
  IF c.ref = "foreign" THEN "processing"
  ELSE CASE transfer[c.payout] = "paid" -> "succeeded"
         [] transfer[c.payout] = "declined" -> "failed"
         [] OTHER -> "processing"

ProviderSettles(p) ==
  /\ transfer[p] = "open"
  /\ \E outcome \in {"paid", "declined"} : transfer' = [transfer EXCEPT ![p] = outcome]
  /\ UNCHANGED <<payout, createVars, workerVars, effects>>

-----------------------------------------------------------------------------
(* create *)

\* First transaction: the idempotency barrier.  A repeated key stops here.
CreateBegin(p) ==
  /\ payout[p].status = Absent
  /\ payout' = [payout EXCEPT ![p] = [status |-> "pending", ref |-> "none"]]
  /\ calling' = [calling EXCEPT ![p] = "calling"]
  /\ UNCHANGED <<answer, workerVars, effects, transfer>>

\* _execute: every outcome of the order becomes a result to save.
Execute(p) ==
  /\ calling[p] = "calling"
  /\ \E outcome \in Transfers :
       /\ transfer' = [transfer EXCEPT ![p] = outcome]
       /\ \E reply \in OrderReplies(p, outcome) : answer' = [answer EXCEPT ![p] = reply]
  /\ calling' = [calling EXCEPT ![p] = "answered"]
  /\ UNCHANGED <<payout, workerVars, effects>>

\* Second transaction: status, journal and event together.
CreateEnd(p) ==
  /\ calling[p] = "answered"
  /\ payout' = [payout EXCEPT ![p] = answer[p]]
  /\ journals' = Booked(p, answer[p].status)
  /\ Announce(p, answer[p].status)
  /\ calling' = [calling EXCEPT ![p] = "ended"]
  /\ UNCHANGED <<answer, workerVars, transfer>>

\* The process dies between the two transactions.
CreateLost(p) ==
  /\ calling[p] \in {"calling", "answered"}
  /\ calling' = [calling EXCEPT ![p] = "ended"]
  /\ UNCHANGED <<payout, answer, workerVars, effects, transfer>>

-----------------------------------------------------------------------------
(* reconcile *)

\* Mutants: failed rows too, only pending rows.
Reconcilable_Failed(p) ==
  payout[p].status \in Open \union {"failed"} /\ payout[p].ref # "none"
Reconcilable_Pending(p) == payout[p].status = "pending" /\ payout[p].ref # "none"

Reconcilable(p) == payout[p].status \in Open /\ payout[p].ref # "none"

\* pending_for_reconciliation skips rows that another run has locked; rows it has
\* read and no longer locks are taken again, unless the runs do not overlap there.
RunStart(w, S) ==
  /\ batch[w] = {}
  /\ S # {}
  /\ \A p \in S : Reconcilable(p) /\ ~Locked(p)
  /\ \A p \in S \ Overlapped, v \in Runs : ~InBatch(v, p)
  /\ batch' = [batch EXCEPT ![w] =
                 {[payout |-> p, status |-> payout[p].status, ref |-> payout[p].ref] : p \in S}]
  /\ fresh' = [fresh EXCEPT ![w] = TRUE]
  /\ UNCHANGED <<payout, createVars, verdict, effects, transfer>>

RunVerify(w, c) ==
  /\ c \in batch[w]
  /\ verdict[w] = {}
  /\ verdict' = [verdict EXCEPT ![w] = {[about |-> c, report |-> Verifiable(c)]}]
  /\ UNCHANGED <<payout, createVars, batch, fresh, effects, transfer>>

\* Every commit of the run releases all its locks.
Advance(w, c) ==
  /\ batch' = [batch EXCEPT ![w] = @ \ {c}]
  /\ fresh' = [fresh EXCEPT ![w] = FALSE]
  /\ verdict' = [verdict EXCEPT ![w] = {}]
  /\ UNCHANGED <<createVars, transfer>>

\* The look-up fails, or no processor is registered for the row.
RunSkip(w, c) ==
  /\ c \in batch[w]
  /\ verdict[w] = {}
  /\ Advance(w, c)
  /\ UNCHANGED <<payout, effects>>

IsNews(v) == v.report # v.about.status

\* The row in memory, moved to what the provider said, replaces the row in the
\* table; the module is told when that differs from the row in memory.
RunApply(w, v) ==
  LET p == v.about.payout IN
  /\ v \in verdict[w]
  /\ payout' = [payout EXCEPT ![p] = [status |-> v.report, ref |-> v.about.ref]]
  /\ journals' = Booked(p, v.report)
  /\ IF IsNews(v) THEN Announce(p, v.report) ELSE UNCHANGED announced
  /\ Advance(w, v.about)

\* The worker dies, or verify_payout raises something else: the run is over.
RunStops(w) ==
  /\ batch[w] # {}
  /\ batch' = [batch EXCEPT ![w] = {}]
  /\ fresh' = [fresh EXCEPT ![w] = FALSE]
  /\ verdict' = [verdict EXCEPT ![w] = {}]
  /\ UNCHANGED <<payout, createVars, effects, transfer>>

-----------------------------------------------------------------------------
Create(p) == CreateBegin(p) \/ Execute(p) \/ CreateEnd(p) \/ CreateLost(p)
Run(w) ==
  \/ \E S \in SUBSET Payouts : RunStart(w, S)
  \/ \E c \in batch[w] : RunVerify(w, c) \/ RunSkip(w, c)
  \/ \E v \in verdict[w] : RunApply(w, v)
  \/ RunStops(w)

PayoutsNext ==
  \/ \E p \in Payouts : Create(p) \/ ProviderSettles(p)
  \/ \E w \in Runs : Run(w)

PayoutsSpec == PayoutsInit /\ [][PayoutsNext]_payoutVars

\* The worker loops for ever (ops/__main__.py) and looks at every row it may:
\* neither its crashes nor the provider's failures hit the same row for ever.
PayoutsFairness ==
  \A p \in Payouts :
    /\ SF_payoutVars(\E w \in Runs, S \in SUBSET Payouts : p \in S /\ RunStart(w, S))
    /\ SF_payoutVars(\E w \in Runs : \E c \in batch[w] : c.payout = p /\ RunVerify(w, c))
    /\ SF_payoutVars(\E w \in Runs : \E v \in verdict[w] : v.about.payout = p /\ RunApply(w, v))

PayoutsLiveSpec == PayoutsSpec /\ PayoutsFairness

-----------------------------------------------------------------------------
(* Properties *)

\* Every variable stays in its domain.
PayoutsTypeOK ==
  /\ payout \in [Payouts -> Row]
  /\ calling \in [Payouts -> CallStates]
  /\ answer \in [Payouts -> Row]
  /\ batch \in [Runs -> SUBSET Candidate]
  /\ fresh \in [Runs -> BOOLEAN]
  /\ verdict \in [Runs -> SUBSET [about : Candidate, report : Reported]]
  /\ \A w \in Runs : \A v \in verdict[w] : v.about \in batch[w]
  /\ journals \subseteq Payouts
  /\ announced \in [Payouts -> [Reported -> 0 .. 2]]
  /\ transfer \in [Payouts -> Transfers]

\* A payout is booked in the ledger, or called succeeded, or announced as such,
\* only when the provider did pay; and one that says so is booked and announced,
\* whatever two overlapping reconciliation runs write over each other.
SucceededIsPaid ==
  \A p \in Payouts :
    /\ payout[p].status = "succeeded" => p \in journals
    /\ p \in journals <=> announced[p].succeeded > 0
    /\ p \in journals => transfer[p] = "paid"

\* The module never hears both ends of a payout, and a payout in the ledger never says
\* it failed; of one that no two runs read at once, the module has heard what the row
\* says, once (create, reconcile).
OneVerdict ==
  \A p \in Payouts :
    /\ announced[p].failed > 0 => announced[p].succeeded = 0 /\ p \notin journals
    /\ p \notin Overlapped =>
         \A s \in Final : announced[p][s] = IF payout[p].status = s THEN 1 ELSE 0

\* A transfer the provider paid is confirmed by reconciliation, provided the create
\* call saved a reference the provider knows and no gateway's error page.
PaidIsConfirmed ==
  \A p \in Payouts \ GatewayErrors :
    (transfer[p] = "paid" /\ payout[p].ref = "known") ~> (payout[p].status = "succeeded")

-----------------------------------------------------------------------------
(* Why it holds: the invariant behind SucceededIsPaid and OneVerdict *)

\* Nothing is told before the create call ends, and nobody holds a success of a
\* transfer that was not paid, or a failure of one that may still be: a transfer
\* stays as it settled, and a failed row is never looked at again.
NewsIsTrue ==
  /\ \A p \in Payouts :
       /\ payout[p].status = Absent => calling[p] = "idle"
       /\ calling[p] \in {"idle", "calling"} => transfer[p] = "none"
       /\ calling[p] # "ended" =>
            /\ payout[p].ref = "none"
            /\ p \notin journals /\ announced[p] = [s \in Reported |-> 0]
            /\ \A w \in Runs : \A c \in batch[w] : c.payout # p
       /\ calling[p] = "answered" => answer[p].status \in Reported
       /\ calling[p] = "answered" /\ answer[p].status = "succeeded" => transfer[p] = "paid"
       /\ announced[p].failed > 0 =>
            \/ transfer[p] \in {"none", "declined"}
            \/ /\ payout[p].status = "failed"
               /\ p \notin journals
               /\ \A w \in Runs : \A c \in batch[w] : c.payout # p
  /\ \A w \in Runs : \A v \in verdict[w] :
       /\ v.report = "succeeded" => transfer[v.about.payout] = "paid"
       /\ v.report = "failed" => transfer[v.about.payout] = "declined"
=============================================================================
