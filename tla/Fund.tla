-------------------------------- MODULE Fund --------------------------------
(***************************************************************************)
(* DiddiFund: campaigns, investments paid from the wallet or through a     *)
(* payment, and loans out of a campaign's pool.  A request is one database *)
(* transaction but where the payments module commits in between; those     *)
(* that add to a campaign hold its row lock from the read to the commit.   *)
(* Of payments only PaymentPromise is assumed.                             *)
(***************************************************************************)
EXTENDS Integers, FiniteSets, Sums

CONSTANTS
  Campaigns, Goal,   \* the campaigns and what each wants to raise
  WalletKeys,        \* idempotency keys of investments from the wallet
  OrderKeys,         \* idempotency keys of investments through a payment
  Shared,            \* keys with which clients ask for other transactions too
  Into, Size,        \* the campaign and the amount of an investment
  Calls, First,      \* the requests a client may send with an order's key,
  Resent,            \* more than the first for these keys
  News,              \* the success events the module may be sent of a payment
  Unreachable,       \* those whose ten deliveries may all be lost on the way
  Loans, PoolOf,     \* the loans and the campaign whose pool pays each
  Terms, Permille,   \* principals and months asked for; the rate in thousandths
  RepayKeys, RepaymentOf,            \* keys of repayments and their loans
  MaxRepayment,      \* bound: the largest repayment
  Retried            \* the keys a repayment may be sent again with

Investments == WalletKeys \union OrderKeys
Deliveries == OrderKeys \X News

ASSUME FundAssumption ==
  /\ Goal \in [Campaigns -> Nat \ {0}]
  /\ WalletKeys \intersect OrderKeys = {} /\ WalletKeys \intersect Deliveries = {}
  /\ WalletKeys \intersect RepayKeys = {} /\ Shared \subseteq WalletKeys \union RepayKeys
  /\ IsFiniteSet(Investments)
  /\ Into \in [Investments -> Campaigns] /\ Size \in [Investments -> Nat \ {0}]
  /\ First \in Calls /\ Resent \subseteq OrderKeys /\ Unreachable \subseteq Deliveries
  /\ PoolOf \in [Loans -> Campaigns] /\ RepaymentOf \in [RepayKeys -> Loans]
  /\ \A l \in Loans : Terms[l] \subseteq (Nat \ {0}) \X (1 .. 60)
  /\ Permille \in Nat
  /\ MaxRepayment \in Nat /\ Retried \subseteq RepayKeys

VARIABLES
  campaign,    \* fund.campaigns rows: status and raised_amount
  invested,    \* fund.investments: the rows of each key
  posted,      \* the keys of these requests that wallet.transactions has
  debited,     \* what the wallet took from the payer for them
  pool,        \* the balance of each campaign's technical account
  order,       \* fund.payment_orders: status, by key
  inbox,       \* fund.payment_event_inbox
  dead,        \* the dead letters among the callbacks of the payments module
  reading,     \* requests holding a campaign's lock, and the sum they read
  call,        \* start_investment requests, and the status the payment showed
  asked,       \* payment intents created for fund
  collected, booked,   \* external: the payments, as PaymentPromise has them
  loan,        \* fund.loans rows
  schedule,    \* fund.repayment_schedule: what is due and paid, by number
  received     \* what the pool received in repayments of a loan

campaignVars == <<campaign, invested, pool, reading>>
orderVars == <<order, inbox, dead, call, asked>>
ledger == <<posted, debited>>
payments == <<collected, booked>>
loanVars == <<loan, schedule, received>>
vars == <<campaignVars, ledger, orderVars, payments, loanVars>>

Orchestrator == INSTANCE PaymentPromise WITH
  Bills <- OrderKeys, Price <- 0, givenBack <- [o \in OrderKeys |-> 0]

Absent == "absent"
CampaignRow == [status : {Absent, "draft", "active", "closed"}, raised : Nat]
OrderStatuses == {Absent, "open", "succeeded"}   \* open: any other status
LoanRow == [status : {Absent, "pending", "disbursed", "repaying", "closed"},
            principal : Nat, months : Nat, total : Nat]
Instalment == [due : Nat, paid : Nat]
CallState == [at : {"idle", "admitted", "collected", "ended"},
              seen : OrderStatuses]
Nowhere == -1

Init ==
  /\ campaign = [c \in Campaigns |-> [status |-> Absent, raised |-> 0]]
  /\ invested = [k \in Investments |-> 0]
  /\ posted = {}
  /\ debited = [k \in WalletKeys \union RepayKeys |-> 0]
  /\ pool = [c \in Campaigns |-> 0]
  /\ order = [o \in OrderKeys |-> Absent]
  /\ inbox = {}
  /\ dead = {}
  /\ reading = [x \in WalletKeys \union Deliveries |-> Nowhere]
  /\ call = [o \in OrderKeys |-> [k \in Calls |-> [at |-> "idle", seen |-> Absent]]]
  /\ asked = {}
  /\ Orchestrator!Init
  /\ loan = [l \in Loans |-> [status |-> Absent, principal |-> 0, months |-> 0, total |-> 0]]
  /\ schedule = [l \in Loans |-> <<>>]
  /\ received = [l \in Loans |-> 0]

-----------------------------------------------------------------------------
(* Campaigns *)

CreateCampaign(c) ==
  /\ campaign[c].status = Absent
  /\ campaign' = [campaign EXCEPT ![c].status = "draft"]
  /\ UNCHANGED <<invested, pool, reading, ledger, orderVars, payments, loanVars>>

\* The back office moves campaigns on in the database; no code of src does.
BackOfficeMoves(c) ==
  /\ \E m \in {<<"draft", "active">>, <<"active", "closed">>} :
       /\ campaign[c].status = m[1]
       /\ campaign' = [campaign EXCEPT ![c].status = m[2]]
  /\ UNCHANGED <<invested, pool, reading, ledger, orderVars, payments, loanVars>>

Target(x) == IF x \in WalletKeys THEN Into[x] ELSE Into[x[1]]

\* Mutant: the campaign is read without its lock.
Free_Always(c) == TRUE

\* get_for_update: nobody else is between its read and its commit.
Free(c) == \A x \in DOMAIN reading : Target(x) = c => reading[x] = Nowhere

\* The row read is written back with the investment added.
Invests(x, k) ==
  /\ invested' = [invested EXCEPT ![k] = @ + 1]
  /\ campaign' = [campaign EXCEPT ![Into[k]].raised = reading[x] + Size[k]]

-----------------------------------------------------------------------------
(* investir: from the wallet *)

InvestBegin(w) ==
  /\ reading[w] = Nowhere
  /\ Free(Into[w])
  /\ campaign[Into[w]].status = "active"
  /\ campaign[Into[w]].raised < Goal[Into[w]]
  /\ reading' = [reading EXCEPT ![w] = campaign[Into[w]].raised]
  /\ UNCHANGED <<campaign, invested, pool, ledger, orderVars, payments, loanVars>>

\* Mutant: an investment made before is not looked for.
Replayed_Never(w) == FALSE

\* debiter answers with the transaction of the key, and it has an investment.
Replayed(w) == w \in posted /\ invested[w] > 0

\* External to this module: another transaction of the wallet gets the key.
OthersPost(k) ==
  /\ k \in Shared \ posted
  /\ posted' = posted \union {k}
  /\ UNCHANGED <<campaignVars, debited, orderVars, payments, loanVars>>

\* ledger.transfer: a key that is there, whatever its transaction was for, moves nothing.
Debited(k, amount) == IF k \in posted THEN 0 ELSE amount

\* debiter does not tell whether it did.
Debit(k, c, amount) ==
  /\ posted' = posted \union {k}
  /\ debited' = [debited EXCEPT ![k] = @ + Debited(k, amount)]
  /\ pool' = [pool EXCEPT ![c] = @ + Debited(k, amount)]

InvestEnd(w) ==
  /\ reading[w] # Nowhere
  /\ Debit(w, Into[w], Size[w])
  /\ IF Replayed(w) THEN UNCHANGED <<campaign, invested>> ELSE Invests(w, w)
  /\ reading' = [reading EXCEPT ![w] = Nowhere]
  /\ UNCHANGED <<orderVars, payments, loanVars>>

\* The investor lacks the money, or the process dies.
InvestRolledBack(w) ==
  /\ reading[w] # Nowhere
  /\ reading' = [reading EXCEPT ![w] = Nowhere]
  /\ UNCHANGED <<campaign, invested, pool, ledger, orderVars, payments, loanVars>>

-----------------------------------------------------------------------------
(* start_investment: through a payment *)

Goes(o, k, at, seen) == call' = [call EXCEPT ![o][k] = [at |-> at, seen |-> seen]]

\* The campaign is read without a lock and not again.
StartRead(o, k) ==
  /\ call[o][k].at = "idle"
  /\ k = First \/ o \in Resent
  /\ order[o] = Absent
  /\ campaign[Into[o]].status = "active"
  /\ Size[o] <= Goal[Into[o]] - campaign[Into[o]].raised
  /\ Goes(o, k, "admitted", Absent)
  /\ UNCHANGED <<campaignVars, ledger, order, inbox, dead, asked, payments, loanVars>>

PaymentStatus(o) == IF o \in booked THEN "succeeded" ELSE "open"

\* create_collection commits the intent, or finds the one of the key.
StartCollect(o, k) ==
  /\ call[o][k].at = "admitted"
  /\ asked' = asked \union {o}
  /\ Goes(o, k, "collected", PaymentStatus(o))
  /\ UNCHANGED <<campaignVars, ledger, order, inbox, dead, payments, loanVars>>

\* The unique key lets the first insert win.
StartCommit(o, k) ==
  /\ call[o][k].at = "collected"
  /\ order' = [order EXCEPT ![o] = IF @ = Absent THEN call[o][k].seen ELSE @]
  /\ Goes(o, k, "ended", Absent)
  /\ UNCHANGED <<campaignVars, ledger, inbox, dead, asked, payments, loanVars>>

StartLost(o, k) ==
  /\ call[o][k].at \in {"admitted", "collected"}
  /\ Goes(o, k, "ended", Absent)
  /\ UNCHANGED <<campaignVars, ledger, order, inbox, dead, asked, payments, loanVars>>

\* External: the payer pays, the payments module books it.
PaymentMoves(o) ==
  /\ o \in asked
  /\ Orchestrator!Collect(o) \/ Orchestrator!Book(o)
  /\ UNCHANGED <<campaignVars, ledger, orderVars, loanVars>>

-----------------------------------------------------------------------------
(* apply_event: the callback of the payments module, sent until it is taken or *)
(* a dead letter                                                            *)

\* Mutant: only active campaigns take it.
MayReceive_Active(o, n) ==
  o \in booked /\ <<o, n>> \notin inbox \union dead /\ campaign[Into[o]].status = "active"

\* Only booked payments are announced; a repeated event stops at the inbox, one
\* without an order is refused, one of an order being dealt with waits.
MayReceive(o, n) == o \in booked /\ <<o, n>> \notin inbox \union dead

Counted(o) == order[o] = "succeeded"

Receivable(o, n) ==
  /\ MayReceive(o, n)
  /\ order[o] # Absent
  /\ \A m \in News : reading[<<o, m>>] = Nowhere

\* The investment is there: the event is taken, and that is all.
ReceiveAgain(o, n) ==
  /\ Receivable(o, n)
  /\ Counted(o)
  /\ inbox' = inbox \union {<<o, n>>}
  /\ UNCHANGED <<campaignVars, ledger, order, dead, call, asked, payments, loanVars>>

Receive(o, n) ==
  /\ Receivable(o, n)
  /\ ~Counted(o)
  /\ Free(Into[o])
  /\ reading' = [reading EXCEPT ![<<o, n>>] = campaign[Into[o]].raised]
  /\ UNCHANGED <<campaign, invested, pool, ledger, orderVars, payments, loanVars>>

\* The campaign need not be active, nor below its goal, any more.
Apply(o, n) ==
  /\ reading[<<o, n>>] # Nowhere
  /\ Invests(<<o, n>>, o)
  /\ order' = [order EXCEPT ![o] = "succeeded"]
  /\ inbox' = inbox \union {<<o, n>>}
  /\ reading' = [reading EXCEPT ![<<o, n>>] = Nowhere]
  /\ UNCHANGED <<pool, ledger, dead, call, asked, payments, loanVars>>

\* The process dies, or the database undoes what it did.
ReceiveRolledBack(o, n) ==
  /\ reading[<<o, n>>] # Nowhere
  /\ reading' = [reading EXCEPT ![<<o, n>>] = Nowhere]
  /\ UNCHANGED <<campaign, invested, pool, ledger, orderVars, payments, loanVars>>

\* The tenth attempt failed: the order was not there, or no answer came.
GiveUp(o, n) ==
  /\ MayReceive(o, n)
  /\ order[o] = Absent \/ <<o, n>> \in Unreachable
  /\ dead' = dead \union {<<o, n>>}
  /\ UNCHANGED <<campaignVars, ledger, order, inbox, call, asked, payments, loanVars>>

\* retry_callback: the back office has a dead letter sent again.
RetryCallback(o, n) ==
  /\ <<o, n>> \in dead
  /\ dead' = dead \ {<<o, n>>}
  /\ UNCHANGED <<campaignVars, ledger, order, inbox, call, asked, payments, loanVars>>

-----------------------------------------------------------------------------
(* Loans *)

HalfUp(a, b) == (2 * a + b) \div (2 * b)   \* a / b, rounded

\* calculer_conditions; the schedule divides again, and cuts off.
TotalOf(principal) == HalfUp(principal * (1000 + Permille), 1000)
Simulated(total, months) == HalfUp(total, months)

\* Mutant: the schedule is built from the instalment that was simulated.
Monthly_Simulated(total, months) == Simulated(total, months)

Monthly(total, months) == total \div months

\* construire_echeancier: the last instalment takes what is left.
Schedule(total, months) ==
  [n \in 1 .. months |->
     [due |-> IF n = months THEN total - (months - 1) * Monthly(total, months)
              ELSE Monthly(total, months),
      paid |-> 0]]

RequestLoan(l) ==
  /\ loan[l].status = Absent
  /\ campaign[PoolOf[l]].status # Absent
  /\ \E t \in Terms[l] :
       loan' = [loan EXCEPT ![l] = [status |-> "pending", principal |-> t[1], months |-> t[2],
                                    total |-> TotalOf(t[1])]]
  /\ UNCHANGED <<campaignVars, ledger, orderVars, payments, schedule, received>>

\* The table admits no instalment of nothing: such a loan stays pending.
Payable(s) == \A n \in DOMAIN s : s[n].due > 0

\* crediter: the balance of a pool is checked.
Affordable(l) == pool[PoolOf[l]] >= loan[l].principal

\* decaisser
Disburse(l) ==
  LET s == Schedule(loan[l].total, loan[l].months) IN
  /\ loan[l].status = "pending"
  /\ Affordable(l)
  /\ Payable(s)
  /\ pool' = [pool EXCEPT ![PoolOf[l]] = @ - loan[l].principal]
  /\ schedule' = [schedule EXCEPT ![l] = s]
  /\ loan' = [loan EXCEPT ![l].status = "disbursed"]
  /\ UNCHANGED <<campaign, invested, reading, ledger, orderVars, payments, received>>

Unpaid(s) == {n \in DOMAIN s : s[n].paid < s[n].due}
First_(S) == CHOOSE n \in S : \A m \in S : n <= m

\* The keys under which debiter may find a transaction: that of the first request, or
\* another one.
MayBeFound == Retried \union (Shared \intersect RepayKeys)

Fits(s, n, amount) == amount <= s[n].due - s[n].paid

\* rembourser: the instalment is credited whether or not debiter found the key.
Repay(l, r, amount) ==
  LET n == First_(Unpaid(schedule[l]))
      s == [schedule[l] EXCEPT ![n].paid = @ + amount]
  IN
  /\ loan[l].status \in {"disbursed", "repaying", "closed"}
  /\ r \in posted => r \in MayBeFound
  /\ Unpaid(schedule[l]) # {}
  /\ Fits(schedule[l], n, amount)
  /\ Debit(r, PoolOf[l], amount)
  /\ received' = [received EXCEPT ![l] = @ + Debited(r, amount)]
  /\ schedule' = [schedule EXCEPT ![l] = s]
  /\ loan' = [loan EXCEPT ![l].status = IF Unpaid(s) = {} THEN "closed" ELSE "repaying"]
  /\ UNCHANGED <<campaign, invested, reading, orderVars, payments>>

-----------------------------------------------------------------------------
Next ==
  \/ \E c \in Campaigns : CreateCampaign(c) \/ BackOfficeMoves(c)
  \/ \E w \in WalletKeys : InvestBegin(w) \/ InvestEnd(w) \/ InvestRolledBack(w)
  \/ \E o \in OrderKeys : PaymentMoves(o)
  \/ \E o \in OrderKeys, k \in Calls :
       StartRead(o, k) \/ StartCollect(o, k) \/ StartCommit(o, k) \/ StartLost(o, k)
  \/ \E k \in Shared : OthersPost(k)
  \/ \E o \in OrderKeys, n \in News :
       \/ ReceiveAgain(o, n) \/ Receive(o, n) \/ Apply(o, n) \/ ReceiveRolledBack(o, n)
       \/ GiveUp(o, n) \/ RetryCallback(o, n)
  \/ \E l \in Loans : RequestLoan(l) \/ Disburse(l)
  \/ \E r \in RepayKeys, a \in 1 .. MaxRepayment : Repay(RepaymentOf[r], r, a)

\* While an event is no dead letter the delivery worker sends it (OutboxDelivery), and
\* a callback that finds its order is taken in one of its ten attempts: GiveUp has the
\* exceptions.  PostgreSQL serves those who wait for a row; no transaction stays open.
Fairness ==
  /\ \A o \in OrderKeys, n \in News : SF_vars(Receive(o, n)) /\ SF_vars(Apply(o, n))
  /\ \A w \in WalletKeys : WF_vars(InvestEnd(w) \/ InvestRolledBack(w))

Spec == Init /\ [][Next]_vars /\ Fairness

-----------------------------------------------------------------------------
(* Properties *)

TypeOK ==
  /\ campaign \in [Campaigns -> CampaignRow]
  /\ invested \in [Investments -> Nat]
  /\ posted \subseteq WalletKeys \union RepayKeys
  /\ debited \in [WalletKeys \union RepayKeys -> Nat]
  /\ pool \in [Campaigns -> Nat]
  /\ order \in [OrderKeys -> OrderStatuses]
  /\ inbox \subseteq Deliveries /\ dead \subseteq Deliveries
  /\ reading \in [WalletKeys \union Deliveries -> Nat \union {Nowhere}]
  /\ call \in [OrderKeys -> [Calls -> CallState]]
  /\ booked \subseteq collected /\ collected \subseteq asked /\ asked \subseteq OrderKeys
  /\ loan \in [Loans -> LoanRow]
  /\ \A l \in Loans : \A n \in DOMAIN schedule[l] : schedule[l][n] \in Instalment
  /\ received \in [Loans -> Nat]

InvestedIn(c) ==
  SumOf({k \in Investments : Into[k] = c}, [k \in Investments |-> invested[k] * Size[k]])

\* A campaign's raised amount is the sum of its investments, whoever adds to it
\* at the same time: wallet requests, callbacks of payments, repeated ones.
RaisedIsInvested == \A c \in Campaigns : campaign[c].raised = InvestedIn(c)

\* Behind every investment is money of its own: its payment was collected, or the
\* wallet took its amount from the investor, once, if the client used its key for
\* nothing else; and never are there two investments on one.
InvestedIsFunded ==
  \A k \in Investments : invested[k] > 0 =>
    /\ invested[k] = 1
    /\ k \in OrderKeys => k \in collected
    /\ k \in WalletKeys \ Shared => debited[k] = Size[k]

\* The instalments of a loan add up to what the borrower owes, none is zero, and
\* none but the last differs from what the simulation announced by more than
\* rounding; where no repayment was sent again, or with the key of another
\* transaction, what they count as paid is what the pool received, a closed loan was
\* repaid to the last unit, and none got more.
InstalmentsAddUp == \A l \in Loans : loan[l].status \notin {Absent, "pending"} =>
  LET s == schedule[l]
      paid == SumOf(DOMAIN s, [n \in DOMAIN s |-> s[n].paid])
  IN
  /\ SumOf(DOMAIN s, [n \in DOMAIN s |-> s[n].due]) = loan[l].total
  /\ \A n \in DOMAIN s : 0 < s[n].due /\ s[n].due <= s[loan[l].months].due
  /\ \A n \in DOMAIN s \ {loan[l].months} :
       s[n].due - Simulated(loan[l].total, loan[l].months) \in {-1, 0}
  /\ (\A r \in MayBeFound : RepaymentOf[r] # l) =>
       /\ paid = received[l]
       /\ paid <= loan[l].total
       /\ (loan[l].status = "closed") = (paid = loan[l].total)

\* A payment that was booked becomes an investment once its order is there, even
\* if the callback came before the order did, unless each callback about it was
\* given up after ten attempts; orders requested again are left out: the second
\* request may take a paid payment for one already counted.
PaidBecomesInvestment == \A o \in OrderKeys \ Resent :
  (o \in booked /\ order[o] # Absent) ~> (invested[o] = 1 \/ {o} \X News \subseteq dead)

=============================================================================
