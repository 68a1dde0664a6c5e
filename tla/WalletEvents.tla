---------------------------- MODULE WalletEvents ----------------------------
(***************************************************************************)
(* What reaches the wallet over the event bus, and what it sends there.    *)
(* DiddiFreeID's news of users are broadcast to the processes listening at *)
(* that moment; each handles them in order, in transactions of its own,    *)
(* next to the requests that create a missing account.  A completed        *)
(* payment is announced on the bus and kept as a row of outbox_events,     *)
(* which relays send later: one at the start of each process, one when an  *)
(* operator's command or the admin route asks for it.  No loop of the code *)
(* runs relays, so none need come.  Processes crash and the bus fails at   *)
(* most MaxFaults times.                                                   *)
(***************************************************************************)
EXTENDS Integers, FiniteSets, Sequences

CONSTANTS
  Processes,  \* processes of the application
  Job,        \* the relay run by a command, the housekeeping or the admin route
  Payments,   \* wallet operations that complete
  Direct,     \* those made by a request, which has a bus; the others by a sweep
  Limit,      \* rows of one relay
  News,       \* what DiddiFreeID tells, in order
  Requests, Ask,   \* requests that provision an account, and what each asks
  MaxFaults,  \* bound on crashes and failures of the bus
  Starts      \* where the history begins: the payments made, the news told

Nothing == "none"
Users == {News[n].user : n \in DOMAIN News} \union {Ask[r].user : r \in Requests}
Phones == {News[n].phone : n \in DOMAIN News} \union {Ask[r].phone : r \in Requests}

ASSUME WalletEventsAssumption ==
  /\ Job \notin Processes /\ Direct \subseteq Payments /\ Limit \in Nat \ {0}
  /\ Requests \intersect Processes = {}
  /\ Len(News) \in Nat /\ DOMAIN News = 1..Len(News)
  /\ \A n \in DOMAIN News : News[n].kind \in {"registered", "updated", "suspended"}
  /\ \A r \in Requests : Ask[r].kind = "registered"
  /\ MaxFaults \in Nat
  /\ \A s \in Starts : s.made \subseteq Payments /\ s.told \in 0..Len(News)

VARIABLES
  payment,    \* new, open (its transaction has run, uncommitted) or booked
  outbox,     \* status of its committed row
  sent,       \* payments announced on the bus
  relay,      \* rows not yet sent, the one sent but not marked, the rows marked
  worker,     \* state of each process
  told,       \* how many news are out
  inbox,      \* news each process has received and not begun
  task,       \* the transaction each process's listener, or request, is in
  account, phone,   \* committed accounts and user_phones
  missed,     \* a process that listens has not handled every news told
  faults

walletVars == <<payment, outbox, sent, relay>>
userVars == <<told, inbox, task, account, phone, missed>>
eventVars ==
  <<payment, outbox, sent, relay, worker, told, inbox, task, account, phone, missed, faults>>

Relays == Processes \union {Job}
NoRelay == [rows |-> {}, current |-> Nothing, marked |-> {}]
NoTask == [asks |-> 0, account |-> Nothing, phone |-> Nothing]

\* Payments made before were announced, news told before reached nobody.
EventsInit ==
  \E s \in Starts :
    /\ payment = [p \in Payments |-> IF p \in s.made THEN "booked" ELSE "new"]
    /\ outbox = [p \in Payments |-> IF p \in s.made THEN "published" ELSE Nothing]
    /\ sent = s.made
    /\ relay = [r \in Relays |-> NoRelay]
    /\ worker = [w \in Processes |-> "down"]
    /\ told = s.told
    /\ inbox = [w \in Processes |-> <<>>]
    /\ task = [h \in Processes \union Requests |-> NoTask]
    /\ account = [u \in Users |-> Nothing]
    /\ phone = [u \in Users |-> Nothing]
    /\ missed = (s.told > 0)
    /\ faults = 0

Fault == faults < MaxFaults /\ faults' = faults + 1

-----------------------------------------------------------------------------
(* Completed payments *)

\* Mutant: no row for a payment that was announced.
Enqueued_IfUnsent(p) == outbox' = [outbox EXCEPT ![p] = IF p \in sent THEN @ ELSE "pending"]

\* The row of the outbox, in the payment's transaction.
Enqueued(p) == outbox' = [outbox EXCEPT ![p] = "pending"]

\* _publish_completed: announced before the request commits.
Complete(p) ==
  /\ payment[p] = "new"
  /\ payment' = [payment EXCEPT ![p] = "open"]
  /\ sent' = IF p \in Direct THEN sent \union {p} ELSE sent
  /\ UNCHANGED <<outbox, relay, worker, userVars, faults>>

Book(p) ==
  /\ payment[p] = "open"
  /\ payment' = [payment EXCEPT ![p] = "booked"]
  /\ Enqueued(p)
  /\ UNCHANGED <<sent, relay, worker, userVars, faults>>

\* The commit fails: nothing is kept, and the caller comes again.
Undo(p) ==
  /\ payment[p] = "open" /\ Fault
  /\ payment' = [payment EXCEPT ![p] = "new"]
  /\ UNCHANGED <<outbox, sent, relay, worker, userVars>>

-----------------------------------------------------------------------------
(* relay_outbox_events *)

Running(r) == IF r = Job THEN relay[r] # NoRelay ELSE worker[r] = "starting"
Pending == {p \in Payments : outbox[p] = "pending"}

\* pending: up to Limit rows, in no order and without a lock.
Scanned ==
  {rows \in SUBSET Pending :
     /\ Cardinality(rows) <= Limit
     /\ rows = Pending \/ Cardinality(rows) = Limit}

\* Of the housekeeping it is the end: a sweep that raises keeps it from running.
ScanByJob ==
  /\ relay[Job] = NoRelay /\ Pending # {}
  /\ \E rows \in Scanned : relay' = [relay EXCEPT ![Job].rows = rows]
  /\ UNCHANGED <<payment, outbox, sent, worker, userVars, faults>>

Publish(r, p) ==
  /\ p \in relay[r].rows /\ relay[r].current = Nothing
  /\ sent' = sent \union {p}
  /\ relay' = [relay EXCEPT ![r].rows = @ \ {p}, ![r].current = p]
  /\ UNCHANGED <<payment, outbox, worker, userVars, faults>>

\* mark_published: the update waits for another relay that has the row.
Waits(r, q) == relay[r].current # Nothing /\ relay[r].current \in relay[q].marked

Mark(r) ==
  /\ relay[r].current # Nothing
  /\ \A q \in Relays \ {r} : ~Waits(r, q)
  /\ relay' = [relay EXCEPT ![r].current = Nothing, ![r].marked = @ \union {relay[r].current}]
  /\ UNCHANGED <<payment, outbox, sent, worker, userVars, faults>>

\* One commit, after the last row; a starting process then serves requests.
RelayCommit(r) ==
  /\ Running(r) /\ relay[r].rows = {} /\ relay[r].current = Nothing
  /\ outbox' = [p \in Payments |-> IF p \in relay[r].marked THEN "published" ELSE outbox[p]]
  /\ relay' = [relay EXCEPT ![r] = NoRelay]
  /\ worker' = [w \in Processes |-> IF w = r THEN "up" ELSE worker[w]]
  /\ UNCHANGED <<payment, sent, userVars, faults>>

\* A process that goes down takes its relay and the news it had with it.
Down(w) ==
  /\ worker' = [worker EXCEPT ![w] = "down"]
  /\ inbox' = [inbox EXCEPT ![w] = <<>>]
  /\ task' = [task EXCEPT ![w] = NoTask]
  /\ missed' = (missed \/ inbox[w] # <<>> \/ task[w] # NoTask)
  /\ UNCHANGED <<told, account, phone>>

\* Nothing of this relay is kept, and a process that was starting does not.
Ends(r) ==
  /\ IF r = Job THEN UNCHANGED <<worker, userVars>> ELSE Down(r)
  /\ UNCHANGED <<payment, outbox, sent>>

RollsBack(r) == relay' = [relay EXCEPT ![r] = NoRelay] /\ Ends(r)

\* Mutant: a failed publication is passed over, and its row marked.
BusFails_Passes(r) ==
  /\ \E p \in relay[r].rows :
       relay' = [relay EXCEPT ![r].rows = @ \ {p}, ![r].marked = @ \union {p}]
  /\ UNCHANGED <<payment, outbox, sent, worker, userVars>>

BusFails(r) == relay[r].rows # {} /\ relay[r].current = Nothing /\ RollsBack(r)

\* PostgreSQL ends one of two relays that wait for each other, and the other, first in
\* the queue, has the row.
Victim(r) ==
  /\ \E q \in Relays \ {r} :
       /\ Waits(r, q) /\ Waits(q, r)
       /\ relay' = [relay EXCEPT ![r] = NoRelay, ![q].current = Nothing,
                                ![q].marked = @ \union {relay[q].current}]
  /\ Ends(r)
  /\ UNCHANGED faults

JobCrashes == relay[Job] # NoRelay /\ RollsBack(Job)

-----------------------------------------------------------------------------
(* Processes *)

\* lifespan: subscribes, listens, relays.
Start(w) ==
  /\ worker[w] = "down"
  /\ worker' = [worker EXCEPT ![w] = "starting"]
  /\ \E rows \in Scanned : relay' = [relay EXCEPT ![w].rows = rows]
  /\ missed' = (missed \/ told > 0)
  /\ UNCHANGED <<payment, outbox, sent, told, inbox, task, account, phone, faults>>

Crash(w) == worker[w] # "down" /\ RollsBack(w)

-----------------------------------------------------------------------------
(* News of users *)

\* Pub/Sub: to whoever listens.
Tell ==
  /\ told < Len(News) /\ told' = told + 1
  /\ inbox' = [w \in Processes |->
       IF worker[w] = "down" THEN <<>> ELSE Append(inbox[w], told + 1)]
  /\ missed' = (missed \/ \A w \in Processes : worker[w] = "down")
  /\ UNCHANGED <<walletVars, worker, task, account, phone, faults>>

Asks(h) == IF h \in Processes THEN News[task[h].asks] ELSE Ask[h]

\* get_by_user and the phone's row, read before anything is written.
Reads(h, asks, user) ==
  task' = [task EXCEPT ![h] = [asks |-> asks, account |-> account[user], phone |-> phone[user]]]

Handle(w) ==
  /\ task[w] = NoTask /\ inbox[w] # <<>>
  /\ Reads(w, Head(inbox[w]), News[Head(inbox[w])].user)
  /\ inbox' = [inbox EXCEPT ![w] = Tail(@)]
  /\ UNCHANGED <<walletVars, worker, told, account, phone, missed, faults>>

\* compte_de, with no phone, or a backfill of a user as DiddiFreeID has told it.
AskForAccount(r) ==
  /\ task[r] = NoTask
  /\ Ask[r].phone # Nothing => 
       \E n \in 1..told : News[n].user = Ask[r].user /\ News[n].phone = Ask[r].phone
  /\ Reads(r, 1, Ask[r].user)
  /\ UNCHANGED <<walletVars, worker, told, inbox, account, phone, missed, faults>>

Creates(h) == Asks(h).kind = "registered" /\ task[h].account = Nothing
Indexes(h) == Asks(h).kind # "suspended" /\ Asks(h).phone # Nothing

\* Mutant: a phone once indexed is not changed.
WritesPhone_Once(h) == Indexes(h) /\ task[h].phone = Nothing

\* upsert: an update of the same phone writes none.
WritesPhone(h) == Indexes(h) /\ task[h].phone # Asks(h).phone

\* One account of this type, one row and one owner for a phone.
Refused(h) ==
  LET u == Asks(h).user IN
  \/ Creates(h) /\ account[u] # Nothing
  \/ Indexes(h) /\ task[h].phone = Nothing /\ phone[u] # Nothing
  \/ WritesPhone(h) /\ \E v \in Users \ {u} : phone[v] = Asks(h).phone

StatusAfter(h) ==
  CASE Creates(h) -> "active"
    [] Asks(h).kind = "suspended" /\ task[h].account # Nothing -> "frozen"
    [] OTHER -> account[Asks(h).user]

\* on_user_registered, on_user_updated, on_user_suspended: one commit; what the
\* database refuses is rolled back whole, and only logged.
Finish(h) ==
  LET u == Asks(h).user IN
  /\ task[h] # NoTask
  /\ task' = [task EXCEPT ![h] = NoTask]
  /\ \/ Refused(h) /\ UNCHANGED <<account, phone>>
     \/ /\ ~Refused(h)
        /\ account' = [account EXCEPT ![u] = StatusAfter(h)]
        /\ phone' = IF WritesPhone(h) THEN [phone EXCEPT ![u] = Asks(h).phone] ELSE phone
  /\ UNCHANGED <<walletVars, worker, told, inbox, missed, faults>>

-----------------------------------------------------------------------------
Faulty == Fault /\ (JobCrashes \/ \E r \in Relays : BusFails(r) \/ \E w \in Processes : Crash(w))

RelayStep(r) == (\E p \in Payments : Publish(r, p)) \/ Mark(r) \/ RelayCommit(r) \/ Victim(r)

EventsNext ==
  \/ \E p \in Payments : Complete(p) \/ Book(p) \/ Undo(p)
  \/ ScanByJob
  \/ \E r \in Relays : RelayStep(r)
  \/ \E w \in Processes : Start(w) \/ Handle(w)
  \/ \E r \in Requests : AskForAccount(r)
  \/ \E h \in Processes \union Requests : Finish(h)
  \/ Tell
  \/ Faulty

EventsSpec == EventsInit /\ [][EventsNext]_eventVars

\* A relay that runs goes on; whether one is run is up to those who operate it.
FairSpec ==
  /\ EventsSpec
  /\ \A r \in Relays : WF_eventVars(RelayStep(r))

-----------------------------------------------------------------------------
(* Properties *)

EventsTypeOK ==
  /\ payment \in [Payments -> {"new", "open", "booked"}]
  /\ outbox \in [Payments -> {Nothing, "pending", "published"}]
  /\ sent \subseteq Payments
  /\ relay \in [Relays -> [rows : SUBSET Payments, current : Payments \union {Nothing},
                           marked : SUBSET Payments]]
  /\ worker \in [Processes -> {"down", "starting", "up"}]
  /\ told \in 0..Len(News) /\ missed \in BOOLEAN /\ faults \in 0..MaxFaults
  /\ account \in [Users -> {Nothing, "active", "frozen"}]
  /\ phone \in [Users -> Phones \union {Nothing}]

\* A row marked as published was given to the bus, although the bus fails and relays
\* overlap, crash and are chosen as deadlock victims (relay_outbox_events).
PublishedWasSent == \A p \in Payments : outbox[p] = "published" => p \in sent

\* From now on the row of p waits for a relay, and none is run.
LeftWaiting(p) == [](outbox[p] = "pending" /\ \A r \in Relays : ~Running(r))

\* While relays are run at all, a booked payment is announced in the end, whatever of
\* them crash or exclude one another (OutboxEvent: a failed publication can be made
\* again); if not, its row waits for one.
BookedIsSent == \A p \in Payments :
  payment[p] = "booked" ~> (outbox[p] = "published" \/ LeftWaiting(p))

Drained ==
  /\ told = Len(News) /\ ~missed
  /\ \A w \in Processes : inbox[w] = <<>>
  /\ \A h \in Processes \union Requests : task[h] = NoTask

Told(u, kinds) == {n \in DOMAIN News : News[n].user = u /\ News[n].kind \in kinds}

\* The news that give the user a phone, and the last of them.
PhoneNews(u) == {n \in Told(u, {"registered", "updated"}) : News[n].phone # Nothing}
Last(u) == CHOOSE n \in PhoneNews(u) : \A m \in PhoneNews(u) : m <= n
Latest(u) == News[Last(u)].phone

\* When processes that heard all the news have handled them, every user registered has
\* an account, frozen if suspended, and the phone told last: processes that are late and
\* whose transactions refuse one another leave nothing behind (on_user_registered ff.).
NewsIsKept ==
  Drained =>
    \A u \in Users :
      /\ Told(u, {"registered"}) # {} => account[u] # Nothing
      /\ Told(u, {"suspended"}) # {} => account[u] = "frozen"
      /\ PhoneNews(u) # {} => phone[u] = Latest(u)

-----------------------------------------------------------------------------
(* Histories of news that are kept, however late a process is *)

\* The news n registers its user, who is told of by no earlier one.
Registers(n) ==
  /\ News[n].kind = "registered"
  /\ \A m \in DOMAIN News : News[m].user = News[n].user => n <= m

\* A user is registered once, and before anything else is told of him.
RegisteredFirst ==
  \A m \in DOMAIN News : \E n \in 1..m :
    /\ Registers(n) /\ News[n].user = News[m].user
    /\ News[m].kind = "registered" => m = n

\* Whoever had the number a user ends with was given another before that.
LastPhonesAreFree ==
  \A u, v \in Users : \A n \in PhoneNews(u), m \in PhoneNews(v) :
    u # v /\ News[m].phone = Latest(u) => Last(v) < Last(u)

\* A user is registered with a number nobody had, or with the one that he ends with.
FirstPhonesAreFree ==
  \A n \in DOMAIN News :
    Registers(n) /\ n \in PhoneNews(News[n].user) /\ n # Last(News[n].user) =>
      \A m \in 1..n : News[m].phone = News[n].phone => News[m].user = News[n].user

\* Who asks for an account with a number asks for the last, with which nobody else was
\* registered; one without a number could take the place of a registration that has it.
AsksAreCurrent ==
  \A r \in Requests :
    LET u == Ask[r].user IN
    IF Ask[r].phone = Nothing
    THEN PhoneNews(u) # {} => News[Last(u)].kind = "updated"
    ELSE /\ PhoneNews(u) # {} /\ Ask[r].phone = Latest(u)
         /\ \A n \in DOMAIN News :
              News[n].kind = "registered" /\ News[n].phone = Ask[r].phone => News[n].user = u

OrderlyNews == RegisteredFirst /\ LastPhonesAreFree /\ FirstPhonesAreFree /\ AsksAreCurrent
=============================================================================
