------------------------------- MODULE Wallet -------------------------------
(***************************************************************************)
(* The wallet: deposits, withdrawals and transfers (WalletUseCases,        *)
(* LedgerService), Paystack's webhook, and the reconciliation of pending   *)
(* operations by the periodic sweep or by hand.  A balance is the sum of   *)
(* committed ledger entries.  One HTTP request is one database             *)
(* transaction, the gateway call included; a session keeps every row as it *)
(* first read it, a later SELECT ... FOR UPDATE notwithstanding.           *)
(***************************************************************************)
EXTENDS Integers, FiniteSets

CONSTANTS
  Accounts, Deposits, Withdrawals, Transfers,
  owner,          \* the account of each operation
  payee,          \* the account a transfer credits
  size,           \* the amount of each operation
  opening,        \* the balances to begin with
  Calls,          \* the requests a client may send with the operation's key
  First,          \* the only one it sends
  Resent,         \* unless for these operations
  Checkers,       \* the cron's sweep, and reconciliations by hand
  Contended,      \* the operations two processes may handle at the same time
  Unreliable,     \* those whose gateway call may fail and yet be carried out
  Abandonable,    \* the deposits reported as failed while they can still be paid
  Unstated,       \* those whose gateway answers a look-up without an amount
  Suspendable     \* the accounts whose user may be suspended

Ops == Deposits \union Withdrawals \union Transfers
Asked == Deposits \union Withdrawals    \* carried out by a provider
Debits == Withdrawals \union Transfers

ASSUME WalletAssumption ==
  /\ Deposits \intersect Debits = {} /\ Withdrawals \intersect Transfers = {}
  /\ owner \in [Ops -> Accounts]
  /\ payee \in [Transfers -> Accounts]
  /\ \A t \in Transfers : payee[t] # owner[t]
  /\ size \in [Ops -> Nat]
  /\ opening \in [Accounts -> Nat]
  /\ First \in Calls
  /\ Resent \subseteq Ops /\ Contended \subseteq Ops
  /\ Unreliable \subseteq Asked
  /\ Abandonable \subseteq Deposits /\ Unstated \subseteq Deposits
  /\ Suspendable \subseteq Accounts

VARIABLES
  frozen,     \* accounts of suspended users
  balance,    \* per account, what its committed entries add up to
  row,        \* status of the committed transactions row
  ref,        \* its provider_reference, named by the call that obtained it
  credits,    \* how often the operation credited its owner
  call,       \* the requests
  order,      \* external: what the provider was asked, per call
  inbox,      \* webhook_inbox rows, and the status a webhook under way read
  batch,      \* rows a checker read and has not dealt with yet
  verdict     \* the gateway's answer about one of them (at most one)

ledger == <<balance, row, credits>>
checkerVars == <<batch, verdict>>
vars == <<frozen, ledger, ref, call, order, inbox, checkerVars>>

Absent == "absent"
NoCall == "none"
Final == {"completed", "failed", "reversed"}
Status == Final \union {"pending"}
\* seen: the row as the request read it; active: so was the account;
\* locks: it holds the account's row lock.
Call == [at : {"idle", "read", "calling", "done"}, seen : Status \union {Absent},
         active : BOOLEAN, locks : BOOLEAN]
Fresh == [at |-> "idle", seen |-> Absent, active |-> TRUE, locks |-> FALSE]
Done == [at |-> "done", seen |-> Absent, active |-> TRUE, locks |-> FALSE]
Orders == {"none", "open", "paid", "odd", "refused"}   \* odd: paid another amount
Reports == {"pending", "completed", "mismatch", "failed"}
Events == {"success", "failed"}
Pending == [op : Asked, ref : Calls]

Init ==
  /\ frozen = {}
  /\ balance = opening
  /\ row = [o \in Ops |-> Absent]
  /\ ref = [o \in Asked |-> NoCall]
  /\ credits = [o \in Asked |-> 0]
  /\ call = [o \in Ops |-> [k \in Calls |-> Fresh]]
  /\ order = [o \in Asked |-> [k \in Calls |-> "none"]]
  /\ inbox = [d \in Deposits |-> [e \in Events |-> "none"]]
  /\ batch = [c \in Checkers |-> {}]
  /\ verdict = [c \in Checkers |-> {}]

Handling(d) == \E e \in Events : inbox[d][e] \in Status
Held(o) ==
  \/ \E k \in Calls : call[o][k].at \in {"read", "calling"}
  \/ o \in Deposits /\ Handling(o)
  \/ \E c \in Checkers : \E b \in batch[c] : b.op = o
MayTake(o) == o \in Contended \/ ~Held(o)

\* Mutant: nobody's lock keeps a debit waiting.
Free_Always(a) == TRUE

\* get_for_update: nobody else holds the account's row lock.
Free(a) == \A o \in Debits, k \in Calls : owner[o] = a => ~call[o][k].locks

MaySend(o, k) == call[o][k].at = "idle" /\ (k = First \/ o \in Resent)
Goes(o, k, c) == call' = [call EXCEPT ![o][k] = c]
Ends(o, k) == Goes(o, k, Done)

-----------------------------------------------------------------------------
(* confirmer_operation and echouer_operation *)

StatusAfter(o, report) ==
  CASE report = "completed" -> "completed"
    [] report = "failed" -> IF o \in Deposits THEN "failed" ELSE "reversed"
    [] OTHER -> "pending"

\* Entries in the owner's favour: a deposit confirmed, a withdrawal reversed.
Credits(o, report) == report = IF o \in Deposits THEN "completed" ELSE "failed"

\* The status that counts is the one the session read when it loaded the row.
Writes(seen, report) ==
  \/ seen = Absent
  \/ seen = "pending" /\ report \in {"completed", "failed"}

\* What a transaction that ends with this report commits: the row and its
\* entries; seen is Absent in the one that creates them, which debits withdrawals.
\* The key reversal:{id} makes a second reversal fail.
Settle(o, seen, report) ==
  IF Writes(seen, report)
  THEN /\ o \in Withdrawals /\ Credits(o, report) => credits[o] = 0
       /\ row' = [row EXCEPT ![o] = StatusAfter(o, report)]
       /\ credits' = [credits EXCEPT ![o] = IF Credits(o, report) THEN @ + 1 ELSE @]
       /\ balance' = [balance EXCEPT ![owner[o]] =
            @ + (IF Credits(o, report) THEN size[o] ELSE 0)
              - (IF o \in Withdrawals /\ seen = Absent THEN size[o] ELSE 0)]
  ELSE UNCHANGED ledger

-----------------------------------------------------------------------------
(* The provider (external) *)

ProviderSettles(o, k) ==
  /\ order[o][k] = "open"
  /\ \E s \in {"paid", "refused"} \union IF o \in Deposits THEN {"odd"} ELSE {} :
       order' = [order EXCEPT ![o][k] = s]
  /\ UNCHANGED <<frozen, ledger, ref, call, inbox, checkerVars>>

\* initier_depot, initier_retrait: mostly taken note of, or refused, or done at once.
Answers(o, k) ==
  {"pending"} \union (IF order[o][k] = "paid" THEN {"completed"} ELSE {})
              \union (IF order[o][k] = "refused" THEN {"failed"} ELSE {})

\* Mutants: whatever is not paid has failed; the amount is not compared.
Verifiable_Pessimistic(o, k) ==
  {CASE order[o][k] = "paid" -> "completed" [] order[o][k] = "odd" -> "mismatch"
     [] OTHER -> "failed"}
Verifiable_AnyAmount(o, k) ==
  {CASE order[o][k] \in {"paid", "odd"} -> "completed" [] order[o][k] = "refused" -> "failed"
     [] OTHER -> "pending"}

\* verifier_depot, verifier_retrait, and the comparison of amounts that follows: a
\* reconciliation skips it for an answer without an amount.
Verifiable(o, k) ==
  CASE order[o][k] = "paid" -> {"completed"}
    [] order[o][k] = "odd" -> {"mismatch"} \union IF o \in Unstated THEN {"completed"} ELSE {}
    [] order[o][k] = "refused" -> {"failed"}
    [] OTHER -> {"pending"} \union IF o \in Abandonable THEN {"failed"} ELSE {}

-----------------------------------------------------------------------------
(* deposer *)

\* The row is inserted before the gateway is called: another request with the key
\* waits for the index until this one's transaction ends.
DepositCall(d, k) ==
  /\ MaySend(d, k)
  /\ row[d] = Absent
  /\ \A j \in Calls : call[d][j].at # "calling"
  /\ Goes(d, k, [call[d][k] EXCEPT !.at = "calling"])
  /\ order' = [order EXCEPT ![d][k] = "open"]
  /\ UNCHANGED <<frozen, ledger, ref, inbox, checkerVars>>

-----------------------------------------------------------------------------
(* retirer, transferer_p2p *)

\* compte_de and the look-up of the key.  A key already known ends here.
DebitRead(o, k) ==
  /\ MaySend(o, k)
  /\ row[o] = Absent
  /\ MayTake(o)
  /\ Goes(o, k, [call[o][k] EXCEPT !.at = "read", !.active = owner[o] \notin frozen])
  /\ UNCHANGED <<frozen, ledger, ref, order, inbox, checkerVars>>

\* Mutant: the account's status is not looked at.
Debitable_Frozen(o, k) == Free(owner[o]) /\ balance[owner[o]] >= size[o]

\* _load_debitable and ensure_sufficient, under the row lock.
Debitable(o, k) ==
  /\ Free(owner[o])
  /\ call[o][k].active
  /\ balance[owner[o]] >= size[o]

\* The entries are in the open transaction, or those of the key's owner are found
\* there; either way the gateway is called with the lock held.
WithdrawCall(w, k) ==
  /\ call[w][k].at = "read"
  /\ Debitable(w, k)
  /\ Goes(w, k, [call[w][k] EXCEPT !.at = "calling", !.seen = row[w], !.locks = TRUE])
  /\ order' = [order EXCEPT ![w][k] = "open"]
  /\ UNCHANGED <<frozen, ledger, ref, inbox, checkerVars>>

\* transfer's own look-up of the key finds it: no check, no lock, and the gateway
\* is called all the same.
WithdrawReplay(w, k) ==
  /\ call[w][k].at = "read"
  /\ row[w] # Absent
  /\ Goes(w, k, [call[w][k] EXCEPT !.at = "calling", !.seen = row[w]])
  /\ order' = [order EXCEPT ![w][k] = "open"]
  /\ UNCHANGED <<frozen, ledger, ref, inbox, checkerVars>>

TransferPost(t, k) ==
  /\ call[t][k].at = "read"
  /\ Debitable(t, k)
  /\ IF row[t] = Absent
     THEN /\ row' = [row EXCEPT ![t] = "completed"]
          /\ balance' = [balance EXCEPT ![owner[t]] = @ - size[t], ![payee[t]] = @ + size[t]]
     ELSE UNCHANGED <<row, balance>>
  /\ Ends(t, k)
  /\ UNCHANGED <<frozen, credits, ref, order, inbox, checkerVars>>

\* AccountNotActive, InsufficientBalance.
DebitRefused(o, k) ==
  /\ call[o][k].at = "read"
  /\ Free(owner[o])
  /\ ~Debitable(o, k)
  /\ Ends(o, k)
  /\ UNCHANGED <<frozen, ledger, ref, order, inbox, checkerVars>>

\* The end of deposer and retirer, and the commit.
Answered(o, k) ==
  /\ call[o][k].at = "calling"
  /\ \E report \in Answers(o, k) : Settle(o, call[o][k].seen, report)
  /\ ref' = [ref EXCEPT ![o] = k]
  /\ Ends(o, k)
  /\ UNCHANGED <<frozen, order, inbox, checkerVars>>

\* GatewayUnavailable, a reversal that exists, a crash: everything is rolled back.
RolledBack(o, k) ==
  /\ call[o][k].at = "calling"
  /\ o \in Unreliable \/ order[o][k] = "refused"
  /\ Ends(o, k)
  /\ UNCHANGED <<frozen, ledger, ref, order, inbox, checkerVars>>

-----------------------------------------------------------------------------
(* on_user_suspended *)

Freeze(a) ==
  /\ a \notin frozen
  /\ Free(a)
  /\ frozen' = frozen \union {a}
  /\ UNCHANGED <<ledger, ref, call, order, inbox, checkerVars>>

-----------------------------------------------------------------------------
(* paystack_webhook *)

Announced(d, e) ==
  LET s == order[d][ref[d]] IN
  IF e = "success" THEN s \in {"paid", "odd"}
  ELSE s = "refused" \/ (s = "open" /\ d \in Abandonable)

\* A reference nobody knows yet leaves no trace; a key in the inbox stops here, and
\* two deliveries of one event cannot both insert theirs.
WebhookRead(d, e) ==
  /\ row[d] # Absent
  /\ Announced(d, e)
  /\ inbox[d][e] = "none"
  /\ MayTake(d)
  /\ inbox' = [inbox EXCEPT ![d][e] = row[d]]
  /\ UNCHANGED <<frozen, ledger, ref, call, order, checkerVars>>

WebhookApply(d, e) ==
  /\ inbox[d][e] \in Status
  /\ Settle(d, inbox[d][e], IF e = "failed" THEN "failed"
                            ELSE IF order[d][ref[d]] = "odd" THEN "mismatch" ELSE "completed")
  /\ inbox' = [inbox EXCEPT ![d][e] = "processed"]
  /\ UNCHANGED <<frozen, ref, call, order, checkerVars>>

\* The request dies; Paystack may send the event again.
WebhookLost(d, e) ==
  /\ inbox[d][e] \in Status
  /\ inbox' = [inbox EXCEPT ![d][e] = "none"]
  /\ UNCHANGED <<frozen, ledger, ref, call, order, checkerVars>>

-----------------------------------------------------------------------------
(* reconcile_pending_paystack_deposits, reconcile_transaction *)

Reconcilable(o) == row[o] = "pending"

\* The sweep takes all that is pending, a reconciliation by hand one operation.
CheckStart(c, S) ==
  /\ batch[c] = {}
  /\ S # {}
  /\ \A o \in S : Reconcilable(o) /\ MayTake(o)
  /\ Cardinality(S) = 1 \/ \A o \in Asked : Reconcilable(o) => o \in S
  /\ batch' = [batch EXCEPT ![c] = {[op |-> o, ref |-> ref[o]] : o \in S}]
  /\ UNCHANGED <<frozen, ledger, ref, call, order, inbox, verdict>>

CheckVerify(c, b) ==
  /\ b \in batch[c]
  /\ verdict[c] = {}
  /\ \E report \in Verifiable(b.op, b.ref) :
       verdict' = [verdict EXCEPT ![c] = {[about |-> b, report |-> report]}]
  /\ UNCHANGED <<frozen, ledger, ref, call, order, inbox, batch>>

\* One commit per operation; the rows of the batch stay as they were read.
CheckApply(c, v) ==
  /\ v \in verdict[c]
  /\ Settle(v.about.op, "pending", v.report)
  /\ batch' = [batch EXCEPT ![c] = @ \ {v.about}]
  /\ verdict' = [verdict EXCEPT ![c] = {}]
  /\ UNCHANGED <<frozen, ref, call, order, inbox>>

\* A look-up or a reversal raises: nothing catches it and the run is over.
CheckStops(c) ==
  /\ batch[c] # {}
  /\ batch' = [batch EXCEPT ![c] = {}]
  /\ verdict' = [verdict EXCEPT ![c] = {}]
  /\ UNCHANGED <<frozen, ledger, ref, call, order, inbox>>

-----------------------------------------------------------------------------
Request(k) ==
  \/ \E d \in Deposits : DepositCall(d, k)
  \/ \E o \in Debits : DebitRead(o, k) \/ DebitRefused(o, k)
  \/ \E w \in Withdrawals : WithdrawCall(w, k) \/ WithdrawReplay(w, k)
  \/ \E t \in Transfers : TransferPost(t, k)
  \/ \E o \in Asked : Answered(o, k) \/ RolledBack(o, k)
Webhook(d) == \E e \in Events : WebhookRead(d, e) \/ WebhookApply(d, e) \/ WebhookLost(d, e)
Check(c) ==
  \/ \E S \in SUBSET Asked : CheckStart(c, S)
  \/ \E b \in batch[c] : CheckVerify(c, b)
  \/ \E v \in verdict[c] : CheckApply(c, v)
  \/ CheckStops(c)

Next == \/ \E k \in Calls : Request(k)
        \/ \E o \in Asked, k \in Calls : ProviderSettles(o, k)
        \/ \E d \in Deposits : Webhook(d)
        \/ \E a \in Suspendable : Freeze(a)
        \/ \E c \in Checkers : Check(c)

Spec == Init /\ [][Next]_vars

-----------------------------------------------------------------------------
(* Properties *)

\* Every variable stays in its domain.
TypeOK ==
  /\ frozen \subseteq Accounts
  /\ balance \in [Accounts -> Int]
  /\ row \in [Ops -> Status \union {Absent}]
  /\ ref \in [Asked -> Calls \union {NoCall}]
  /\ \A o \in Asked : row[o] # Absent => ref[o] \in Calls
  /\ credits \in [Asked -> Nat]
  /\ call \in [Ops -> [Calls -> Call]]
  /\ order \in [Asked -> [Calls -> Orders]]
  /\ inbox \in [Deposits -> [Events -> Status \union {"none", "processed"}]]
  /\ batch \in [Checkers -> SUBSET Pending]
  /\ verdict \in [Checkers -> SUBSET [about : Pending, report : Reports]]
  /\ \A c \in Checkers : \A v \in verdict[c] : v.about \in batch[c]

\* No debit ever takes more than there is, whatever transfers and withdrawals of
\* one account run at once and however long a gateway keeps one of them waiting.
NoOverdraft == \A a \in Accounts : balance[a] >= 0

\* A withdrawal whose gateway call is under way has its money: it is still in the
\* balance, and nobody else can take it before the call has ended.
ReservedIsThere ==
  \A w \in Withdrawals, k \in Calls :
    call[w][k].at = "calling" /\ call[w][k].seen = Absent =>
      /\ balance[owner[w]] >= size[w]
      /\ \A o \in Debits, j \in Calls :
           owner[o] = owner[w] /\ call[o][j].locks => o = w /\ j = k

\* Money credited for a deposit was collected: the whole amount of it, unless the
\* gateway does not say how much; and it was credited once, whoever confirmed it and
\* however often, unless two processes handled it at the same time.
CreditedIsCollected ==
  \A d \in Deposits :
    /\ credits[d] > 0 => order[d][ref[d]] \in {"paid"} \union IF d \in Unstated THEN {"odd"} ELSE {}
    /\ d \notin Contended => credits[d] <= 1

\* What a provider pays out was taken from the owner, once, and not given back;
\* unless the gateway call failed or the key was used by two requests at once.
PaidOutIsDebited ==
  \A w \in Withdrawals \ (Contended \union Unreliable), k \in Calls :
    order[w][k] = "paid" =>
      \/ call[w][k].at = "calling" /\ row[w] = Absent
      \/ row[w] \in {"pending", "completed"} /\ ref[w] = k

\* A deposit called failed was not collected, nor will it be.
FailedIsUncollected ==
  \A d \in Deposits \ Abandonable : row[d] = "failed" => order[d][ref[d]] = "refused"

\* A suspended user's balance does not shrink any more, but for requests that had
\* read the account before.
FrozenKeeps ==
  [][\A a \in frozen :
       (\A o \in Debits, k \in Calls :
          owner[o] = a => ~(call[o][k].at \in {"read", "calling"} /\ call[o][k].active))
         => balance'[a] >= balance[a]]_vars

=============================================================================
