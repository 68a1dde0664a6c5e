--------------------------- MODULE OutboxDelivery ---------------------------
(***************************************************************************)
(* The payment outbox and the workers that deliver it (PaymentOutboxRepository, *)
(* PaymentEventDeliveryUseCases).  A worker claims rows under a lease,      *)
(* commits, and sends them one by one; it keeps the claimed rows in memory  *)
(* and writes them back from there, so a worker slower than its lease       *)
(* writes over what another one did meanwhile.                              *)
(***************************************************************************)
EXTENDS Naturals, FiniteSets

CONSTANTS
  Messages,      \* events that may be enqueued
  Routed,        \* those whose client has a callback target
  Workers,       \* the payment worker and relay commands running beside it
  MaxAttempts,   \* failed(): the attempt that makes a dead letter
  MaxReplays,    \* bound: back-office replays of a dead letter
  Slow           \* events whose batch may outlast its lease

ASSUME OutboxAssumption ==
  /\ Routed \subseteq Messages
  /\ IsFiniteSet(Workers)
  /\ MaxAttempts \in Nat \ {0}
  /\ MaxReplays \in Nat
  /\ Slow \subseteq Messages

VARIABLES
  status,     \* outbox rows: status
  attempts,   \* outbox rows: attempts
  leased,     \* rows claimed less than lease_seconds ago
  claimed,    \* rows in a worker's memory, with the attempts they had
  outcome,    \* how the callback the worker has just made ended (at most one)
  replays,    \* back-office replays so far (the code does not count them)
  received    \* external: events the module has acknowledged

vars == <<status, attempts, leased, claimed, outcome, replays, received>>

Statuses == {"absent", "pending", "delivering", "delivered", "dead_letter"}
Claim == [message : Messages, attempts : Nat]
Outcome == [claim : Claim, ok : BOOLEAN]

Holds(w, m) == \E c \in claimed[w] : c.message = m

Init ==
  /\ status = [m \in Messages |-> "absent"]
  /\ attempts = [m \in Messages |-> 0]
  /\ leased = {}
  /\ claimed = [w \in Workers |-> {}]
  /\ outcome = [w \in Workers |-> {}]
  /\ replays = [m \in Messages |-> 0]
  /\ received = {}

\* enqueue, in the transaction of the payment, payout or refund it reports.
Enqueue(m) ==
  /\ status[m] = "absent"
  /\ status' = [status EXCEPT ![m] = "pending"]
  /\ UNCHANGED <<attempts, leased, claimed, outcome, replays, received>>

\* Mutants: leases are not looked at, rows of a dead worker are not claimed again.
Claimable_NoLease(m) == status[m] \in {"pending", "delivering"}
Claimable_Pending(m) == status[m] = "pending"

\* A pending row that is due (time is not modelled), or one whose lease is over.
Claimable(m) ==
  \/ status[m] = "pending"
  \/ status[m] = "delivering" /\ m \notin leased

\* claim() and the commit that releases its row locks.
ClaimRows(w, S) ==
  /\ claimed[w] = {}
  /\ S # {}
  /\ \A m \in S : Claimable(m)
  /\ status' = [m \in Messages |-> IF m \in S THEN "delivering" ELSE status[m]]
  /\ leased' = leased \union S
  /\ claimed' = [claimed EXCEPT ![w] = {[message |-> m, attempts |-> attempts[m]] : m \in S}]
  /\ UNCHANGED <<attempts, outcome, replays, received>>

\* lease_seconds pass.  Unless it is Slow, a live worker is done with the row by then.
LeaseExpires(m) ==
  /\ m \in leased
  /\ m \in Slow \/ \A w \in Workers : ~Holds(w, m)
  /\ leased' = leased \ {m}
  /\ UNCHANGED <<status, attempts, claimed, outcome, replays, received>>

\* One callback: the module may have processed it although the call failed.  A
\* row without a target fails without a call.
Send(w, c) ==
  /\ c \in claimed[w]
  /\ outcome[w] = {}
  /\ \E arrived, ok \in BOOLEAN :
       /\ ok => arrived
       /\ arrived => c.message \in Routed
       /\ received' = IF arrived THEN received \union {c.message} ELSE received
       /\ outcome' = [outcome EXCEPT ![w] = {[claim |-> c, ok |-> ok]}]
  /\ UNCHANGED <<status, attempts, leased, claimed, replays>>

\* Mutant: the last failure ends silently.
AfterFailure_Silent(tried) == IF tried >= MaxAttempts THEN "delivered" ELSE "pending"

\* failed(): the attempt that makes a dead letter.
AfterFailure(tried) == IF tried >= MaxAttempts THEN "dead_letter" ELSE "pending"

\* delivered() or failed() on the row in memory, whatever the table says by now.
Record(w, o) ==
  LET m == o.claim.message
      tried == o.claim.attempts + 1
  IN
  /\ o \in outcome[w]
  /\ IF o.ok
     THEN /\ status' = [status EXCEPT ![m] = "delivered"]
          /\ UNCHANGED attempts
     ELSE /\ status' = [status EXCEPT ![m] = AfterFailure(tried)]
          /\ attempts' = [attempts EXCEPT ![m] = tried]
  /\ leased' = leased \ {m}
  /\ claimed' = [claimed EXCEPT ![w] = @ \ {o.claim}]
  /\ outcome' = [outcome EXCEPT ![w] = {}]
  /\ UNCHANGED <<replays, received>>

\* The worker dies, or an unexpected exception ends its cycle.
WorkerStops(w) ==
  /\ claimed[w] # {}
  /\ claimed' = [claimed EXCEPT ![w] = {}]
  /\ outcome' = [outcome EXCEPT ![w] = {}]
  /\ UNCHANGED <<status, attempts, leased, replays, received>>

\* retry_callback: the back office puts a dead letter back.  attempts stays.
Replay(m) ==
  /\ status[m] = "dead_letter"
  /\ replays[m] < MaxReplays
  /\ replays' = [replays EXCEPT ![m] = @ + 1]
  /\ status' = [status EXCEPT ![m] = "pending"]
  /\ leased' = leased \ {m}
  /\ UNCHANGED <<attempts, claimed, outcome, received>>

Work(w) ==
  \/ \E S \in SUBSET Messages : ClaimRows(w, S)
  \/ \E c \in claimed[w] : Send(w, c)
  \/ \E o \in outcome[w] : Record(w, o)

Next ==
  \/ \E m \in Messages : Enqueue(m) \/ LeaseExpires(m) \/ Replay(m)
  \/ \E w \in Workers : Work(w) \/ WorkerStops(w)

Spec == Init /\ [][Next]_vars

\* The worker loops for ever and does not die in every cycle: a row that stays
\* claimable is claimed, one that is claimed again and again is sent and recorded.
Fairness ==
  \A m \in Messages :
    /\ WF_vars(LeaseExpires(m))
    /\ SF_vars(\E w \in Workers, S \in SUBSET Messages : m \in S /\ ClaimRows(w, S))
    /\ SF_vars(\E w \in Workers : \E c \in claimed[w] : c.message = m /\ Send(w, c))
    /\ SF_vars(\E w \in Workers : \E o \in outcome[w] : o.claim.message = m /\ Record(w, o))

LiveSpec == Spec /\ Fairness

-----------------------------------------------------------------------------
(* Properties *)

\* Every variable stays in its domain.
TypeOK ==
  /\ status \in [Messages -> Statuses]
  /\ attempts \in [Messages -> Nat]
  /\ leased \subseteq Messages
  /\ claimed \in [Workers -> SUBSET Claim]
  /\ outcome \in [Workers -> SUBSET Outcome]
  /\ \A w \in Workers : \A o \in outcome[w] : o.claim \in claimed[w]
  /\ replays \in [Messages -> 0 .. MaxReplays]
  /\ received \subseteq Messages

\* A row only says delivered when the module acknowledged it, whoever wrote last.
DeliveredWasReceived ==
  \A m \in Messages : status[m] = "delivered" => m \in received

\* The claim keeps two workers from sending the same row at once, across crashes
\* and leases, as long as the row's batch does not outlast its lease.
SingleSender ==
  \A m \in Messages \ Slow, v, w \in Workers : Holds(v, m) /\ Holds(w, m) => v = w

\* Retries are bounded, even by workers that write back an old count: a row that
\* exhausted its attempts is tried once more for each replay, and becomes a dead
\* letter only when exhausted.
AttemptsBounded ==
  \A m \in Messages :
    /\ attempts[m] <= MaxAttempts + replays[m]
    /\ status[m] = "dead_letter" => attempts[m] >= MaxAttempts

\* Where a row's batch stays within its lease, a delivery is final and each call that
\* fails counts as one attempt, whichever workers die in between (claim, failed).
DeliveredIsFinal ==
  [][\A m \in Messages \ Slow :
       /\ status[m] = "delivered" => status'[m] = "delivered"
       /\ attempts'[m] \in {attempts[m], attempts[m] + 1}]_vars

\* Every event ends delivered or visible to operations as a dead letter, through
\* any number of crashes and failed calls.
EveryEventIsDealtWith ==
  \A m \in Messages : (status[m] = "pending") ~> (status[m] \in {"delivered", "dead_letter"})

-----------------------------------------------------------------------------
(* Why it holds: the invariants behind AttemptsBounded, SingleSender and DeliveredIsFinal *)

\* A row that may still be tried, in the table or in a worker's memory, has an attempt
\* left, counting its replays; and an acknowledgement was really given.
AttemptsLeft ==
  /\ \A m \in Messages :
       status[m] \in {"absent", "pending", "delivering"} => attempts[m] < MaxAttempts + replays[m]
  /\ \A w \in Workers :
       /\ \A c \in claimed[w] : c.attempts < MaxAttempts + replays[c.message]
       /\ \A o \in outcome[w] : o.ok => o.claim.message \in received

\* Of a worker's rows, those that do not outlast their lease are leased and
\* delivering with the attempts it read; and the worker holds each row once.
HeldIsLeased ==
  \A w \in Workers :
    /\ \A c \in claimed[w] :
         c.message \notin Slow =>
           /\ c.message \in leased /\ status[c.message] = "delivering"
           /\ c.attempts = attempts[c.message]
    /\ \A c, d \in claimed[w] : c.message = d.message => c = d
=============================================================================
