---------------------------- MODULE WorkerProofs ----------------------------
(***************************************************************************)
(* Proofs about what the workers do, and those they talk to: the delivery  *)
(* of outbox events, for any events, workers and limits (OutboxDelivery);  *)
(* the payouts the payment worker asks providers about, whether or not     *)
(* gateways err (Payouts); the adapters through which it asks, for any     *)
(* configurations and amounts (Processors); and the wallet's events, what  *)
(* its relays publish and what is left of the news its processes hear      *)
(* (WalletEvents).  The four share no variable.                            *)
(***************************************************************************)
EXTENDS OutboxDelivery, Payouts, Processors, WalletEvents, WellFoundedInduction, TLAPS

USE OutboxAssumption

-----------------------------------------------------------------------------
(* Outbox: type correctness *)

\* Every step of a worker keeps the types.
LEMMA WorkType ==
  ASSUME TypeOK, NEW w \in Workers, Work(w) \/ WorkerStops(w)
  PROVE  TypeOK'
<1>1. ASSUME NEW S \in SUBSET Messages, ClaimRows(w, S)
      PROVE  TypeOK'
  <2>1. {[message |-> m, attempts |-> attempts[m]] : m \in S} \subseteq Claim
    BY DEF TypeOK, Claim
  <2>2. outcome[w] = {}
    BY <1>1 DEF TypeOK, ClaimRows
  <2>. QED BY <1>1, <2>1, <2>2 DEF TypeOK, ClaimRows, Statuses
<1>2. ASSUME NEW c \in claimed[w], Send(w, c)
      PROVE  TypeOK'
  <2>1. PICK arrived, ok \in BOOLEAN :
          /\ arrived => c.message \in Routed
          /\ received' = IF arrived THEN received \union {c.message} ELSE received
          /\ outcome' = [outcome EXCEPT ![w] = {[claim |-> c, ok |-> ok]}]
    BY <1>2 DEF Send
  <2>2. c \in Claim /\ [claim |-> c, ok |-> ok] \in Outcome
    BY DEF TypeOK, Outcome
  <2>3. received' \subseteq Messages
    BY <2>1, <2>2 DEF TypeOK, Claim
  <2>. QED BY <1>2, <2>1, <2>2, <2>3 DEF TypeOK, Send
<1>3. ASSUME NEW o \in outcome[w], Record(w, o)
      PROVE  TypeOK'
  <2>1. o.claim.message \in Messages /\ o.claim.attempts \in Nat
    BY DEF TypeOK, Outcome, Claim
  <2>2. /\ status' \in [Messages -> Statuses]
        /\ attempts' \in [Messages -> Nat]
    BY <1>3, <2>1 DEF TypeOK, Record, AfterFailure, Statuses
  <2>. QED BY <1>3, <2>2 DEF TypeOK, Record, AfterFailure
<1>4. CASE WorkerStops(w)
  BY <1>4 DEF TypeOK, WorkerStops
<1>. QED BY <1>1, <1>2, <1>3, <1>4 DEF Work

\* Every step on a single row keeps the types.
LEMMA RowType ==
  ASSUME TypeOK, NEW m \in Messages, Enqueue(m) \/ LeaseExpires(m) \/ Replay(m)
  PROVE  TypeOK'
<1>1. CASE Enqueue(m)
  BY <1>1 DEF TypeOK, Enqueue, Statuses
<1>2. CASE LeaseExpires(m)
  BY <1>2 DEF TypeOK, LeaseExpires
<1>3. CASE Replay(m)
  BY <1>3 DEF TypeOK, Replay, Statuses
<1>. QED BY <1>1, <1>2, <1>3

-----------------------------------------------------------------------------
(* Outbox: what holds however slow the workers are *)

Safe == TypeOK /\ AttemptsLeft /\ AttemptsBounded /\ DeliveredWasReceived

\* A worker's step writes no count and no acknowledgement that is not its own.
LEMMA WorkSafe ==
  ASSUME Safe, NEW w \in Workers, Work(w) \/ WorkerStops(w)
  PROVE  AttemptsLeft' /\ AttemptsBounded' /\ DeliveredWasReceived'
<1>. USE DEF Safe
<1>1. ASSUME NEW S \in SUBSET Messages, ClaimRows(w, S)
      PROVE  AttemptsLeft' /\ AttemptsBounded' /\ DeliveredWasReceived'
  <2>1. \A m \in S : attempts[m] < MaxAttempts + replays[m]
    BY <1>1 DEF ClaimRows, Claimable, AttemptsLeft
  <2>2. \A c \in claimed'[w] : c.attempts < MaxAttempts + replays[c.message]
    BY <1>1, <2>1 DEF ClaimRows, TypeOK
  <2>3. \A v \in Workers : v # w => claimed'[v] = claimed[v]
    BY <1>1 DEF ClaimRows, TypeOK
  <2>4. AttemptsLeft'
    BY <1>1, <2>1, <2>2, <2>3 DEF ClaimRows, AttemptsLeft, TypeOK
  <2>. QED BY <1>1, <2>4 DEF ClaimRows, AttemptsBounded, DeliveredWasReceived
<1>2. ASSUME NEW c \in claimed[w], Send(w, c)
      PROVE  AttemptsLeft' /\ AttemptsBounded' /\ DeliveredWasReceived'
  <2>1. PICK arrived, ok \in BOOLEAN :
          /\ ok => arrived
          /\ received' = IF arrived THEN received \union {c.message} ELSE received
          /\ outcome' = [outcome EXCEPT ![w] = {[claim |-> c, ok |-> ok]}]
    BY <1>2 DEF Send
  <2>2. \A v \in Workers : \A o \in outcome'[v] : o.ok => o.claim.message \in received'
    BY <2>1 DEF AttemptsLeft, TypeOK
  <2>3. received \subseteq received'
    BY <2>1
  <2>. QED BY <1>2, <2>2, <2>3 DEF Send, AttemptsLeft, AttemptsBounded, DeliveredWasReceived
<1>3. ASSUME NEW o \in outcome[w], Record(w, o)
      PROVE  AttemptsLeft' /\ AttemptsBounded' /\ DeliveredWasReceived'
  <2> DEFINE m == o.claim.message
             tried == o.claim.attempts + 1
  <2>1. /\ m \in Messages /\ o.claim.attempts \in Nat /\ o.claim \in claimed[w]
        /\ tried <= MaxAttempts + replays[m]
    BY DEF TypeOK, Outcome, Claim, AttemptsLeft
  <2>2. /\ \A n \in Messages : n # m => status'[n] = status[n] /\ attempts'[n] = attempts[n]
        /\ \A v \in Workers : claimed'[v] \subseteq claimed[v] /\ outcome'[v] \subseteq outcome[v]
        /\ UNCHANGED <<replays, received>>
    BY <1>3, <2>1 DEF Record, AfterFailure, TypeOK
  <2>3. CASE o.ok
    <3>1. status'[m] = "delivered" /\ attempts' = attempts /\ m \in received
      BY <1>3, <2>1, <2>3 DEF Record, AfterFailure, TypeOK, AttemptsLeft
    <3>. QED BY <2>1, <2>2, <3>1 DEF AttemptsLeft, AttemptsBounded, DeliveredWasReceived
  <2>4. CASE ~o.ok
    <3>1. /\ attempts'[m] = tried
          /\ status'[m] = IF tried >= MaxAttempts THEN "dead_letter" ELSE "pending"
      BY <1>3, <2>1, <2>4 DEF Record, AfterFailure, TypeOK
    <3>2. status'[m] = "pending" => tried < MaxAttempts + replays[m]
      BY <2>1, <3>1 DEF TypeOK
    <3>3. status'[m] \in {"dead_letter", "pending"}
      BY <3>1
    <3>4. AttemptsLeft'
      BY <2>2, <3>1, <3>2, <3>3 DEF AttemptsLeft
    <3>5. AttemptsBounded' /\ DeliveredWasReceived'
      BY <2>1, <2>2, <3>1, <3>3 DEF AttemptsBounded, DeliveredWasReceived
    <3>. QED BY <3>4, <3>5
  <2>. QED BY <2>3, <2>4 DEF TypeOK, Outcome
<1>4. CASE WorkerStops(w)
  BY <1>4 DEF WorkerStops, TypeOK, AttemptsLeft, AttemptsBounded, DeliveredWasReceived
<1>. QED BY <1>1, <1>2, <1>3, <1>4 DEF Work

\* Nor does a step on a single row.
LEMMA RowSafe ==
  ASSUME Safe, NEW m \in Messages, Enqueue(m) \/ LeaseExpires(m) \/ Replay(m)
  PROVE  AttemptsLeft' /\ AttemptsBounded' /\ DeliveredWasReceived'
<1>. USE DEF Safe
<1>1. CASE LeaseExpires(m)
  BY <1>1 DEF LeaseExpires, AttemptsLeft, AttemptsBounded, DeliveredWasReceived
<1>2. CASE Replay(m)
  <2>1. \A n \in Messages : replays'[n] >= replays[n] /\ replays'[n] \in Nat
    BY <1>2 DEF Replay, TypeOK
  <2>2. replays'[m] = replays[m] + 1 /\ status'[m] = "pending"
    BY <1>2 DEF Replay, TypeOK
  <2>3. \A w \in Workers : \A c \in claimed[w] :
          /\ c.message \in Messages
          /\ c.attempts \in Nat
    BY DEF TypeOK, Claim
  <2>4. AttemptsLeft'
    BY <1>2, <2>1, <2>2, <2>3 DEF Replay, AttemptsLeft, AttemptsBounded, TypeOK
  <2>. QED BY <1>2, <2>1, <2>2, <2>4 DEF Replay, AttemptsBounded, DeliveredWasReceived, TypeOK
<1>3. CASE Enqueue(m)
  BY <1>3 DEF Enqueue, TypeOK, AttemptsLeft, AttemptsBounded, DeliveredWasReceived
<1>. QED BY <1>1, <1>2, <1>3

\* The invariant is inductive, whether or not batches outlast their leases.
THEOREM AlwaysSafe == Spec => []Safe
<1>1. Init => Safe
  BY DEF Init, Safe, TypeOK, AttemptsLeft, AttemptsBounded, DeliveredWasReceived, Statuses
<1>2. Safe /\ [Next]_vars => Safe'
  <2>. SUFFICES ASSUME Safe, [Next]_vars PROVE Safe'
    OBVIOUS
  <2>1. ASSUME NEW m \in Messages, Enqueue(m) \/ LeaseExpires(m) \/ Replay(m)
        PROVE  Safe'
    BY <2>1, RowType, RowSafe DEF Safe
  <2>2. ASSUME NEW w \in Workers, Work(w) \/ WorkerStops(w)
        PROVE  Safe'
    BY <2>2, WorkType, WorkSafe DEF Safe
  <2>3. CASE UNCHANGED vars
    BY <2>3 DEF vars, Safe, TypeOK, AttemptsLeft, AttemptsBounded, DeliveredWasReceived
  <2>. QED BY <2>1, <2>2, <2>3 DEF Next
<1>. QED BY <1>1, <1>2, PTL DEF Spec

\* Every variable stays in its domain.
THEOREM TypeCorrect == Spec => []TypeOK
BY AlwaysSafe, PTL DEF Safe

\* A row says delivered only when the module acknowledged the event.
THEOREM DeliveredReceived == Spec => []DeliveredWasReceived
BY AlwaysSafe, PTL DEF Safe

\* Retries are bounded, with one more for each replay.
THEOREM Bounded == Spec => []AttemptsBounded
BY AlwaysSafe, PTL DEF Safe

-----------------------------------------------------------------------------
(* Outbox: what needs a batch shorter than its lease *)

\* Every step keeps what workers hold leased, delivering and held once.
LEMMA HeldStep ==
  ASSUME TypeOK, HeldIsLeased, SingleSender, [Next]_vars
  PROVE  HeldIsLeased' /\ SingleSender'
<1>h. \A w \in Workers : \A c \in claimed[w] : c.message \in Messages /\ Holds(w, c.message)
  BY DEF TypeOK, Claim, Holds
<1>1. ASSUME NEW m \in Messages, Enqueue(m)
      PROVE  HeldIsLeased' /\ SingleSender'
  BY <1>1, <1>h DEF Enqueue, TypeOK, HeldIsLeased, SingleSender, Holds
<1>2. ASSUME NEW m \in Messages, LeaseExpires(m)
      PROVE  HeldIsLeased' /\ SingleSender'
  BY <1>2, <1>h DEF LeaseExpires, TypeOK, HeldIsLeased, SingleSender, Holds
<1>3. ASSUME NEW m \in Messages, Replay(m)
      PROVE  HeldIsLeased' /\ SingleSender'
  BY <1>3, <1>h DEF Replay, TypeOK, HeldIsLeased, SingleSender, Holds
<1>4. ASSUME NEW w \in Workers, NEW S \in SUBSET Messages, ClaimRows(w, S)
      PROVE  HeldIsLeased' /\ SingleSender'
  <2>1. \A m \in S \ Slow, v \in Workers : ~Holds(v, m)
    BY <1>4 DEF ClaimRows, Claimable, HeldIsLeased, Holds
  <2>2. /\ \A c \in claimed'[w] : c.message \in S /\ c.attempts = attempts[c.message]
        /\ \A c, d \in claimed'[w] : c.message = d.message => c = d
        /\ \A v \in Workers : v # w => claimed'[v] = claimed[v]
    BY <1>4 DEF ClaimRows, TypeOK
  <2>3. HeldIsLeased'
    BY <1>4, <1>h, <2>1, <2>2 DEF ClaimRows, TypeOK, HeldIsLeased
  <2>4. SingleSender'
    BY <2>1, <2>2 DEF SingleSender, Holds
  <2>. QED BY <2>3, <2>4
<1>5. ASSUME NEW w \in Workers, NEW c \in claimed[w], Send(w, c)
      PROVE  HeldIsLeased' /\ SingleSender'
  BY <1>5 DEF Send, HeldIsLeased, SingleSender, Holds
<1>6. ASSUME NEW w \in Workers, NEW o \in outcome[w], Record(w, o)
      PROVE  HeldIsLeased' /\ SingleSender'
  <2> DEFINE m == o.claim.message
  <2>1. /\ o.claim \in claimed[w] /\ m \in Messages /\ Holds(w, m)
    BY <1>h DEF TypeOK
  <2>2. /\ claimed'[w] = claimed[w] \ {o.claim}
        /\ \A v \in Workers : v # w => claimed'[v] = claimed[v]
        /\ leased' = leased \ {m}
        /\ \A n \in Messages : n # m => status'[n] = status[n] /\ attempts'[n] = attempts[n]
    BY <1>6, <2>1 DEF Record, AfterFailure, TypeOK
  <2>3. m \notin Slow => \A v \in Workers : \A c \in claimed'[v] : c.message # m
    BY <2>1, <2>2 DEF HeldIsLeased, SingleSender, Holds
  <2>4. \A v \in Workers : claimed'[v] \subseteq claimed[v]
    BY <2>2
  <2>. QED BY <1>h, <2>2, <2>3, <2>4 DEF HeldIsLeased, SingleSender, Holds
<1>7. ASSUME NEW w \in Workers, WorkerStops(w)
      PROVE  HeldIsLeased' /\ SingleSender'
  BY <1>7 DEF WorkerStops, TypeOK, HeldIsLeased, SingleSender, Holds
<1>8. CASE UNCHANGED vars
  BY <1>8 DEF vars, HeldIsLeased, SingleSender, Holds
<1>. QED BY <1>1, <1>2, <1>3, <1>4, <1>5, <1>6, <1>7, <1>8 DEF Next, Work

\* Rows are held as they should be, in every state.
LEMMA HeldAlways == Spec => [](HeldIsLeased /\ SingleSender)
<1>1. Init => HeldIsLeased /\ SingleSender
  BY DEF Init, HeldIsLeased, SingleSender, Holds
<1>2. TypeOK /\ HeldIsLeased /\ SingleSender /\ [Next]_vars => (HeldIsLeased /\ SingleSender)'
  BY HeldStep
<1>. QED BY <1>1, <1>2, TypeCorrect, PTL DEF Spec

\* No two workers ever hold a row whose batch stays within its lease, so none of these
\* is sent twice at once.
THEOREM OneSender == Spec => []SingleSender
BY HeldAlways, PTL

\* A row that may still be written back is being delivered, so a delivered one stays.
THEOREM DeliveredStays == Spec => DeliveredIsFinal
<1>1. TypeOK /\ HeldIsLeased /\ [Next]_vars =>
        [\A m \in Messages \ Slow :
           /\ status[m] = "delivered" => status'[m] = "delivered"
           /\ attempts'[m] \in {attempts[m], attempts[m] + 1}]_vars
  <2>. SUFFICES ASSUME TypeOK, HeldIsLeased, Next, NEW m \in Messages \ Slow
                PROVE  /\ status[m] = "delivered" => status'[m] = "delivered"
                       /\ attempts'[m] \in {attempts[m], attempts[m] + 1}
    OBVIOUS
  <2>1. ASSUME NEW w \in Workers, NEW o \in outcome[w], Record(w, o)
        PROVE  /\ status[m] = "delivered" => status'[m] = "delivered"
               /\ attempts'[m] \in {attempts[m], attempts[m] + 1}
    <3>1. o.claim \in claimed[w] /\ o.claim.message \in Messages
      BY DEF TypeOK, Claim
    <3>2. CASE o.claim.message = m
      BY <2>1, <3>1, <3>2 DEF Record, HeldIsLeased, TypeOK
    <3>3. CASE o.claim.message # m
      BY <2>1, <3>1, <3>3 DEF Record, TypeOK
    <3>. QED BY <3>2, <3>3
  <2>2. ASSUME NEW w \in Workers, NEW S \in SUBSET Messages, ClaimRows(w, S)
        PROVE  (status[m] = "delivered" => status'[m] = "delivered") /\ attempts' = attempts
    BY <2>2 DEF ClaimRows, Claimable
  <2>3. ASSUME NEW n \in Messages, Enqueue(n) \/ LeaseExpires(n) \/ Replay(n)
        PROVE  (status[m] = "delivered" => status'[m] = "delivered") /\ attempts' = attempts
    BY <2>3 DEF Enqueue, LeaseExpires, Replay, TypeOK
  <2>4. ASSUME NEW w \in Workers, (\E c \in claimed[w] : Send(w, c)) \/ WorkerStops(w)
        PROVE  UNCHANGED <<status, attempts>>
    BY <2>4 DEF Send, WorkerStops
  <2>. QED BY <2>1, <2>2, <2>3, <2>4 DEF Next, Work
<1>. QED BY <1>1, TypeCorrect, HeldAlways, PTL DEF Spec, DeliveredIsFinal

-----------------------------------------------------------------------------
(* Payouts: type correctness *)

\* What the provider may reply is a row the create call can save.
LEMMA RepliesType ==
  ASSUME NEW p, NEW became \in Transfers
  PROVE  OrderReplies(p, became) \subseteq [status : Reported, ref : Refs]
BY DEF Transfers, OrderReplies, Unsure, Reported, Refs

\* The counter of outbox rows keeps its type.
LEMMA TellType ==
  ASSUME PayoutsTypeOK, NEW p \in Payouts, NEW s \in Reported, Announce(p, s)
  PROVE  announced' \in [Payouts -> [Reported -> 0 .. 2]]
BY DEF PayoutsTypeOK, Announce

\* A step of a create call keeps the types, provided an answer was really given.
LEMMA CreateKeepsType ==
  ASSUME PayoutsTypeOK, NewsIsTrue, NEW p \in Payouts, Create(p)
  PROVE  PayoutsTypeOK'
<1>1. CASE CreateBegin(p)
  BY <1>1 DEF PayoutsTypeOK, CreateBegin, Row, Open, Refs, CallStates, workerVars,
              effects
<1>2. CASE Execute(p)
  <2>1. PICK became \in Transfers :
          /\ transfer' = [transfer EXCEPT ![p] = became]
          /\ \E reply \in OrderReplies(p, became) : answer' = [answer EXCEPT ![p] = reply]
    BY <1>2 DEF Execute
  <2>2. PICK reply \in OrderReplies(p, became) : answer' = [answer EXCEPT ![p] = reply]
    BY <2>1
  <2>3. reply \in Row
    BY RepliesType DEF Row, Reported, Final, Open
  <2>. QED BY <1>2, <2>1, <2>2, <2>3
              DEF PayoutsTypeOK, Execute, CallStates, workerVars, effects
<1>3. CASE CreateEnd(p)
  <2>1. answer[p].status \in Reported /\ answer[p] \in Row
    BY <1>3 DEF CreateEnd, Booked, NewsIsTrue, PayoutsTypeOK
  <2>2. announced' \in [Payouts -> [Reported -> 0 .. 2]]
    BY <1>3, <2>1, TellType DEF CreateEnd, Booked
  <2>. QED BY <1>3, <2>1, <2>2 DEF PayoutsTypeOK, CreateEnd, Booked, CallStates, workerVars
<1>4. CASE CreateLost(p)
  BY <1>4 DEF PayoutsTypeOK, CreateLost, CallStates, workerVars, effects
<1>. QED BY <1>1, <1>2, <1>3, <1>4 DEF Create

\* The provider's own step keeps the types.
LEMMA ProviderType ==
  ASSUME PayoutsTypeOK, NEW p \in Payouts, ProviderSettles(p)
  PROVE  PayoutsTypeOK'
BY DEF PayoutsTypeOK, ProviderSettles, Transfers, createVars, workerVars, effects

\* What the provider says of a transfer is one of the three reports.
LEMMA VerifiableType ==
  ASSUME NEW c
  PROVE  Verifiable(c) \in Reported
BY DEF Verifiable, Reported

\* A step of a reconciliation run keeps the types.
LEMMA RunKeepsType ==
  ASSUME PayoutsTypeOK, NEW w \in Runs, Run(w)
  PROVE  PayoutsTypeOK'
<1>1. ASSUME NEW S \in SUBSET Payouts, RunStart(w, S)
      PROVE  PayoutsTypeOK'
  <2>1. \A p \in S : [payout |-> p, status |-> payout[p].status, ref |-> payout[p].ref]
                        \in Candidate
    BY <1>1 DEF PayoutsTypeOK, RunStart, Reconcilable, Candidate, Row
  <2>2. batch' \in [Runs -> SUBSET Candidate]
    BY <1>1, <2>1 DEF PayoutsTypeOK, RunStart
  <2>3. \A v \in verdict[w] : FALSE
    BY <1>1 DEF PayoutsTypeOK, RunStart
  <2>. QED BY <1>1, <2>2, <2>3 DEF PayoutsTypeOK, RunStart, createVars, effects
<1>2. ASSUME NEW c \in batch[w], RunVerify(w, c)
      PROVE  PayoutsTypeOK'
  <2>1. [about |-> c, report |-> Verifiable(c)] \in [about : Candidate, report : Reported]
    BY VerifiableType DEF PayoutsTypeOK
  <2>. QED BY <1>2, <2>1 DEF PayoutsTypeOK, RunVerify, createVars, effects
<1>3. ASSUME NEW c \in batch[w], RunSkip(w, c)
      PROVE  PayoutsTypeOK'
  BY <1>3 DEF PayoutsTypeOK, RunSkip, Advance, createVars, effects
<1>4. ASSUME NEW v \in verdict[w], RunApply(w, v)
      PROVE  PayoutsTypeOK'
  <2>1. /\ v.about.payout \in Payouts /\ v.about.ref \in Refs
        /\ v.report \in Reported
    BY DEF PayoutsTypeOK, Candidate
  <2>2. announced' \in [Payouts -> [Reported -> 0 .. 2]]
    BY <1>4, <2>1, TellType DEF RunApply, Booked, IsNews, PayoutsTypeOK
  <2>3. [status |-> v.report, ref |-> v.about.ref] \in Row
    BY <2>1 DEF Row, Reported, Open, Final
  <2>. QED BY <1>4, <2>1, <2>2, <2>3
              DEF PayoutsTypeOK, RunApply, Booked, IsNews, Advance, createVars
<1>5. CASE RunStops(w)
  BY <1>5 DEF PayoutsTypeOK, RunStops, createVars, effects
<1>. QED BY <1>1, <1>2, <1>3, <1>4, <1>5 DEF Run

-----------------------------------------------------------------------------
(* Payouts: the inductive invariant *)

PayoutInv == PayoutsTypeOK /\ NewsIsTrue /\ SucceededIsPaid

\* A step of a create call keeps the news true and the success backed.
LEMMA CreateKeeps ==
  ASSUME PayoutInv, NEW p \in Payouts, Create(p)
  PROVE  NewsIsTrue' /\ SucceededIsPaid'
<1>. USE DEF PayoutInv
<1>1. CASE CreateBegin(p)
  BY <1>1 DEF PayoutsTypeOK, NewsIsTrue, SucceededIsPaid, CreateBegin, Absent,
              workerVars, effects
<1>2. CASE Execute(p)
  <2>1. PICK became \in Transfers :
          /\ transfer' = [transfer EXCEPT ![p] = became]
          /\ \E reply \in OrderReplies(p, became) : answer' = [answer EXCEPT ![p] = reply]
    BY <1>2 DEF Execute
  <2>2. PICK reply \in OrderReplies(p, became) : answer' = [answer EXCEPT ![p] = reply]
    BY <2>1
  <2>3. reply.status \in Reported
    BY RepliesType
  <2>4. reply.status = "succeeded" => became = "paid"
    BY DEF Transfers, OrderReplies, Unsure
  <2>5. /\ p \notin journals /\ announced[p] = [s \in Reported |-> 0]
        /\ \A w \in Runs : \A c \in batch[w] : c.payout # p
    BY <1>2 DEF Execute, NewsIsTrue
  <2>6. \A w \in Runs : \A v \in verdict[w] : v.about.payout # p
    BY <2>5 DEF PayoutsTypeOK
  <2>. QED BY <1>2, <2>1, <2>2, <2>3, <2>4, <2>5, <2>6
           DEF PayoutsTypeOK, NewsIsTrue, SucceededIsPaid, Execute, workerVars, effects,
               Reported
<1>3. CASE CreateEnd(p)
  <2>1. answer[p].status \in Reported /\ answer[p] \in Row
    BY <1>3 DEF CreateEnd, Booked, NewsIsTrue, PayoutsTypeOK
  <2>2. /\ p \notin journals /\ announced[p] = [s \in Reported |-> 0]
        /\ \A w \in Runs : \A c \in batch[w] : c.payout # p
    BY <1>3 DEF CreateEnd, Booked, NewsIsTrue
  <2>3. /\ \A q \in Payouts : q # p => announced'[q] = announced[q]
        /\ \A s \in Reported : announced'[p][s] = IF s = answer[p].status THEN 1 ELSE 0
    BY <1>3, <2>1, <2>2 DEF CreateEnd, Booked, Announce, PayoutsTypeOK
  <2>4. /\ \A q \in Payouts : q # p => payout'[q] = payout[q] /\ calling'[q] = calling[q]
        /\ payout'[p] = answer[p] /\ calling'[p] = "ended"
        /\ journals' = IF answer[p].status = "succeeded" THEN journals \union {p} ELSE journals
        /\ UNCHANGED <<answer, batch, verdict, transfer>>
    BY <1>3 DEF CreateEnd, Booked, PayoutsTypeOK, workerVars
  <2>5. answer[p].status = "succeeded" => transfer[p] = "paid"
    BY <1>3 DEF CreateEnd, Booked, NewsIsTrue
  <2>6. SucceededIsPaid'
    BY <2>1, <2>2, <2>3, <2>4, <2>5 DEF SucceededIsPaid, Reported
  <2>7. payout'[p].status # Absent
    BY <2>1, <2>4 DEF Reported, Absent
  <2>8. announced'[p].failed > 0 =>
          payout'[p].status = "failed" /\ p \notin journals'
    BY <2>1, <2>2, <2>3, <2>4 DEF Reported
  <2>9. ASSUME NEW q \in Payouts, q # p
        PROVE  q \in journals' <=> q \in journals
    BY <2>4, <2>9
  <2>10. NewsIsTrue'
    BY <2>2, <2>3, <2>4, <2>7, <2>8, <2>9 DEF NewsIsTrue
  <2>. QED BY <2>6, <2>10
<1>4. CASE CreateLost(p)
  BY <1>4 DEF PayoutsTypeOK, NewsIsTrue, SucceededIsPaid, CreateLost, workerVars, effects
<1>. QED BY <1>1, <1>2, <1>3, <1>4 DEF Create

\* So does the provider's own step: it only settles what is open.
LEMMA ProviderKeeps ==
  ASSUME PayoutInv, NEW p \in Payouts, ProviderSettles(p)
  PROVE  NewsIsTrue' /\ SucceededIsPaid'
BY DEF PayoutInv, PayoutsTypeOK, NewsIsTrue, SucceededIsPaid, ProviderSettles, createVars,
       workerVars, effects

\* So does a step of a reconciliation run.
LEMMA RunKeeps ==
  ASSUME PayoutInv, NEW w \in Runs, Run(w)
  PROVE  NewsIsTrue' /\ SucceededIsPaid'
<1>. USE DEF PayoutInv
<1>1. ASSUME NEW S \in SUBSET Payouts, RunStart(w, S)
      PROVE  NewsIsTrue' /\ SucceededIsPaid'
  <2>1. \A p \in S : calling[p] = "ended" /\ payout[p].status # "failed"
    BY <1>1 DEF RunStart, Reconcilable, NewsIsTrue, Open, PayoutsTypeOK
  <2>2. \A c \in batch'[w] : c.payout \in S
    BY <1>1 DEF RunStart, PayoutsTypeOK
  <2>3. \A u \in Runs : u # w => batch'[u] = batch[u]
    BY <1>1 DEF RunStart, PayoutsTypeOK
  <2>. QED BY <1>1, <2>1, <2>2, <2>3
           DEF RunStart, NewsIsTrue, SucceededIsPaid, createVars, effects
<1>2. ASSUME NEW c \in batch[w], RunVerify(w, c)
      PROVE  NewsIsTrue' /\ SucceededIsPaid'
  <2>1. /\ Verifiable(c) = "succeeded" => transfer[c.payout] = "paid"
        /\ Verifiable(c) = "failed" => transfer[c.payout] = "declined"
    BY DEF Verifiable
  <2>2. \A v \in verdict'[w] : v = [about |-> c, report |-> Verifiable(c)]
    BY <1>2 DEF RunVerify, PayoutsTypeOK
  <2>3. \A u \in Runs : u # w => verdict'[u] = verdict[u]
    BY <1>2 DEF RunVerify, PayoutsTypeOK
  <2>. QED BY <1>2, <2>1, <2>2, <2>3
           DEF RunVerify, NewsIsTrue, SucceededIsPaid, createVars, effects
<1>3. ASSUME NEW c \in batch[w], RunSkip(w, c)
      PROVE  NewsIsTrue' /\ SucceededIsPaid'
  BY <1>3 DEF PayoutsTypeOK, RunSkip, Advance, NewsIsTrue, SucceededIsPaid, createVars,
              effects
<1>4. ASSUME NEW v \in verdict[w], RunApply(w, v)
      PROVE  NewsIsTrue' /\ SucceededIsPaid'
  <2> DEFINE p == v.about.payout
  <2>1. /\ p \in Payouts /\ v.about \in batch[w] /\ v.report \in Reported
    BY DEF PayoutsTypeOK, Candidate
  <2>2. calling[p] = "ended"
    BY <2>1 DEF NewsIsTrue
  <2>3. /\ v.report = "succeeded" => transfer[p] = "paid"
        /\ v.report = "failed" => transfer[p] = "declined"
    BY DEF NewsIsTrue
  <2>4. announced[p].failed > 0 => transfer[p] \in {"none", "declined"}
    BY <2>1 DEF NewsIsTrue
  <2>14. /\ announced \in [Payouts -> [Reported -> 0..2]]
         /\ \/ v.report = v.about.status /\ announced' = announced
            \/ Announce(p, v.report)
    <3>1. announced \in [Payouts -> [Reported -> 0..2]]
      BY DEF PayoutsTypeOK
    <3>2. IF IsNews(v) THEN Announce(p, v.report) ELSE UNCHANGED announced
      BY ONLY <1>4 DEF RunApply
    <3>. QED BY ONLY <3>1, <3>2 DEF Announce, IsNews
  <2>5. \A q \in Payouts, s \in Reported :
          /\ q # p \/ s # v.report => announced'[q][s] = announced[q][s]
          /\ announced[q][s] > 0 => announced'[q][s] > 0
    BY ONLY <2>1, <2>14 DEF Announce
  <2>6. v.report = "succeeded" => announced'[p].succeeded > 0
    <3>1. v.about.status # "succeeded"
      BY <2>1 DEF PayoutsTypeOK, Candidate, Open
    <3>. QED BY ONLY <2>1, <2>14, <3>1 DEF Announce, Reported
  <2>7. /\ \A q \in Payouts : q # p => payout'[q] = payout[q]
        /\ payout'[p].status = v.report
    BY <1>4, <2>1 DEF RunApply, Booked, IsNews, PayoutsTypeOK
  <2>8. \A u \in Runs : batch'[u] \subseteq batch[u] /\ verdict'[u] \subseteq verdict[u]
    BY <1>4 DEF RunApply, Booked, IsNews, Advance, PayoutsTypeOK
  <2>9. journals' = IF v.report = "succeeded" THEN journals \union {p} ELSE journals
    BY <1>4 DEF RunApply, Booked, IsNews
  <2>10. UNCHANGED <<calling, answer, transfer>>
    BY <1>4 DEF RunApply, Booked, IsNews, Advance, createVars
  <2>a. SucceededIsPaid'
    <3>1. \A q \in Payouts : q \in journals' => transfer'[q] = "paid"
      BY <2>3, <2>9, <2>10 DEF SucceededIsPaid
    <3>2. \A q \in Payouts : payout'[q].status = "succeeded" => q \in journals'
      BY <2>7, <2>9 DEF SucceededIsPaid
    <3>3. \A q \in Payouts : q \in journals' <=> announced'[q].succeeded > 0
      BY <2>1, <2>5, <2>6, <2>9 DEF SucceededIsPaid, Reported
    <3>. QED BY <3>1, <3>2, <3>3 DEF SucceededIsPaid
  <2>b. NewsIsTrue'
    <3>1. ASSUME NEW q \in Payouts, q # p
          PROVE  /\ payout'[q] = payout[q] /\ announced'[q] = announced[q]
                 /\ q \in journals' <=> q \in journals
      BY <1>4, <2>1, <2>7, <2>9, <3>1 DEF RunApply, Booked, IsNews, Announce, PayoutsTypeOK
    <3>2. announced'[p].failed > 0 => transfer[p] \in {"none", "declined"}
      BY <2>1, <2>3, <2>4, <2>5 DEF Reported
    <3>3. payout'[p].status # Absent
      BY <2>1, <2>7 DEF Reported, Absent
    <3>. QED BY <2>1, <2>2, <2>8, <2>10, <3>1, <3>2, <3>3 DEF NewsIsTrue
  <2>. QED BY <2>a, <2>b
<1>5. CASE RunStops(w)
  BY <1>5 DEF PayoutsTypeOK, RunStops, NewsIsTrue, SucceededIsPaid, createVars, effects
<1>. QED BY <1>1, <1>2, <1>3, <1>4, <1>5 DEF Run

\* The invariant is inductive.
THEOREM Backed == PayoutsSpec => []PayoutInv
<1>1. PayoutsInit => PayoutInv
  BY DEF PayoutsInit, PayoutInv, PayoutsTypeOK, NewsIsTrue, SucceededIsPaid, Row, Refs,
         CallStates, Transfers,
     Reported, Absent
<1>2. PayoutInv /\ [PayoutsNext]_payoutVars => PayoutInv'
  <2>. SUFFICES ASSUME PayoutInv, [PayoutsNext]_payoutVars PROVE PayoutInv'
    OBVIOUS
  <2>1. ASSUME NEW p \in Payouts, Create(p)
        PROVE  PayoutInv'
    BY <2>1, CreateKeepsType, CreateKeeps DEF PayoutInv
  <2>2. ASSUME NEW p \in Payouts, ProviderSettles(p)
        PROVE  PayoutInv'
    BY <2>2, ProviderType, ProviderKeeps DEF PayoutInv
  <2>3. ASSUME NEW w \in Runs, Run(w)
        PROVE  PayoutInv'
    BY <2>3, RunKeepsType, RunKeeps DEF PayoutInv
  <2>4. CASE UNCHANGED payoutVars
    BY <2>4 DEF payoutVars, createVars, workerVars, effects, PayoutInv, PayoutsTypeOK,
                NewsIsTrue, SucceededIsPaid
  <2>. QED BY <2>1, <2>2, <2>3, <2>4 DEF PayoutsNext
<1>. QED BY <1>1, <1>2, PTL DEF PayoutsSpec

\* Every variable stays in its domain.
THEOREM PayoutTypes == PayoutsSpec => []PayoutsTypeOK
BY Backed, PTL DEF PayoutInv

\* A payout that says succeeded was paid, booked and announced, and only paid
\* transfers are booked or announced.
THEOREM SucceededPaid == PayoutsSpec => []SucceededIsPaid
BY Backed, PTL DEF PayoutInv

\* A payout that no two runs read at once is in one batch at most, as its row is; the
\* module has heard what the row says.
RunsApart ==
  \A p \in Payouts \ Overlapped :
    /\ \A w \in Runs : \A c \in batch[w] : c.payout = p =>
         /\ c.status = payout[p].status /\ c.ref = payout[p].ref
         /\ \A v \in Runs \ {w} : ~InBatch(v, p)
    /\ \A s \in Final : announced[p][s] = IF payout[p].status = s THEN 1 ELSE 0

\* A step of a create call announces what it saves, to a module that heard nothing.
LEMMA CreateKeepsApart ==
  ASSUME PayoutInv, RunsApart, NEW p \in Payouts, Create(p)
  PROVE  RunsApart'
<1>1. UNCHANGED batch /\ \A w \in Runs : \A q : InBatch(w, q)' <=> InBatch(w, q)
  BY DEF Create, CreateBegin, Execute, CreateEnd, CreateLost, workerVars, InBatch
<1>2. \A q \in Payouts \ {p} : payout'[q] = payout[q] /\ announced'[q] = announced[q]
  <2>1. CASE CreateEnd(p)
    BY <2>1 DEF CreateEnd, Announce, PayoutInv, PayoutsTypeOK
  <2>. QED BY <2>1 DEF Create, CreateBegin, Execute, CreateLost, effects, PayoutInv, PayoutsTypeOK
<1>3. CASE UNCHANGED <<payout, announced>>
  BY <1>1, <1>3 DEF RunsApart
<1>4. CASE CreateBegin(p) \/ CreateEnd(p)
  <2>1. calling[p] # "ended"
    BY <1>4 DEF CreateBegin, CreateEnd, PayoutInv, NewsIsTrue
  <2>2. /\ announced[p] = [s \in Reported |-> 0]
        /\ \A w \in Runs : \A c \in batch[w] : c.payout # p
    BY <2>1 DEF PayoutInv, NewsIsTrue
  <2>3. \A s \in Final : announced'[p][s] = IF payout'[p].status = s THEN 1 ELSE 0
    <3>1. CASE CreateBegin(p)
      <4>1. payout'[p].status = "pending" /\ announced' = announced
        BY <3>1 DEF CreateBegin, effects, PayoutInv, PayoutsTypeOK
      <4>. QED BY <2>2, <4>1 DEF Final, Reported
    <3>2. CASE CreateEnd(p)
      <4>1. payout'[p] = answer[p] /\ answer[p].status \in Reported /\ Announce(p, answer[p].status)
        BY <3>2 DEF CreateEnd, PayoutInv, PayoutsTypeOK, NewsIsTrue
      <4>2. announced \in [Payouts -> [Reported -> 0..2]]
        BY DEF PayoutInv, PayoutsTypeOK
      <4>. QED BY ONLY <2>2, <4>1, <4>2, p \in Payouts DEF Final, Reported, Announce
    <3>. QED BY <1>4, <3>1, <3>2
  <2>. QED BY <1>1, <1>2, <2>2, <2>3 DEF RunsApart
<1>. QED BY <1>3, <1>4 DEF Create, Execute, CreateLost, effects

\* A run reads rows that no other holds, and announces what it saves.
LEMMA RunKeepsApart ==
  ASSUME PayoutInv, RunsApart, NEW w \in Runs, Run(w)
  PROVE  RunsApart'
<1>1. ASSUME UNCHANGED <<payout, announced>>, \A v \in Runs : batch'[v] \subseteq batch[v]
      PROVE  RunsApart'
  BY <1>1 DEF RunsApart, InBatch
<1>2. CASE RunStops(w) \/ \E c \in batch[w] : RunVerify(w, c) \/ RunSkip(w, c)
  BY <1>1, <1>2 DEF RunStops, RunVerify, RunSkip, Advance, effects, PayoutInv, PayoutsTypeOK
<1>3. ASSUME NEW S \in SUBSET Payouts, RunStart(w, S)
      PROVE  RunsApart'
  <2>1. /\ \A v \in Runs \ {w} : batch'[v] = batch[v]
        /\ batch'[w] = {[payout |-> p, status |-> payout[p].status, ref |-> payout[p].ref] : p \in S}
        /\ UNCHANGED <<payout, announced>>
    BY <1>3 DEF RunStart, effects, PayoutInv, PayoutsTypeOK
  <2>2. \A p \in S \ Overlapped, v \in Runs : ~InBatch(v, p)
    BY <1>3 DEF RunStart
  <2>3. \A c \in batch'[w] : /\ c.payout \in S /\ c.status = payout[c.payout].status
                             /\ c.ref = payout[c.payout].ref
    BY <2>1
  <2>4. ASSUME NEW p \in Payouts \ Overlapped, NEW u \in Runs, NEW c \in batch'[u], c.payout = p
        PROVE  /\ c.status = payout[p].status /\ c.ref = payout[p].ref
               /\ \A v \in Runs \ {u} : ~InBatch(v, p)'
    <3>1. CASE p \in S
      <4>1. u = w
        BY <2>1, <2>2, <2>4, <3>1 DEF InBatch
      <4>2. \A v \in Runs \ {w} : ~InBatch(v, p)'
        BY <2>1, <2>2, <3>1 DEF InBatch
      <4>. QED BY <2>3, <2>4, <4>1, <4>2
    <3>2. CASE p \notin S
      <4>1. u # w /\ c \in batch[u]
        BY <2>1, <2>3, <2>4, <3>2
      <4>2. ~InBatch(w, p)'
        BY <2>3, <3>2 DEF InBatch
      <4>3. \A v \in Runs \ {u, w} : ~InBatch(v, p)'
        BY <2>1, <2>4, <4>1 DEF InBatch, RunsApart
      <4>. QED BY <2>4, <4>1, <4>2, <4>3 DEF RunsApart
    <3>. QED BY <3>1, <3>2
  <2>. QED BY <2>1, <2>4 DEF RunsApart
<1>4. ASSUME NEW x \in verdict[w], RunApply(w, x)
      PROVE  RunsApart'
  <2>. DEFINE p == x.about.payout
  <2>1. /\ p \in Payouts /\ x.about \in batch[w] /\ x.report \in Reported
        /\ x.about.status \in Open /\ batch \in [Runs -> SUBSET Candidate]
        /\ announced \in [Payouts -> [Reported -> 0..2]]
    BY DEF PayoutInv, PayoutsTypeOK, Candidate
  <2>2. /\ batch' = [batch EXCEPT ![w] = @ \ {x.about}]
        /\ payout' = [payout EXCEPT ![p] = [status |-> x.report, ref |-> x.about.ref]]
        /\ IF IsNews(x) THEN Announce(p, x.report) ELSE UNCHANGED announced
    BY <1>4 DEF RunApply, Advance
  <2>3. /\ \A q \in Payouts \ {p} : payout'[q] = payout[q] /\ announced'[q] = announced[q]
        /\ payout'[p].status = x.report
    BY <2>1, <2>2 DEF PayoutInv, PayoutsTypeOK, Announce
  <2>4. /\ \A v \in Runs : batch'[v] \subseteq batch[v]
        /\ batch'[w] = batch[w] \ {x.about}
    BY <2>1, <2>2
  <2>5. ASSUME p \notin Overlapped
        PROVE  /\ \A v \in Runs : ~InBatch(v, p)'
               /\ \A s \in Final : announced'[p][s] = IF payout'[p].status = s THEN 1 ELSE 0
    <3>1. \A c \in batch[w] : c.payout = p => c = x.about
      <4>1. \A c \in batch[w] :
              c.payout = p => c.status = x.about.status /\ c.ref = x.about.ref /\ c \in Candidate
        BY <2>1, <2>5 DEF RunsApart
      <4>. QED BY <2>1, <4>1 DEF Candidate
    <3>2. \A v \in Runs : ~InBatch(v, p)'
      BY <2>1, <2>4, <2>5, <3>1 DEF InBatch, RunsApart
    <3>3. \A s \in Final : announced[p][s] = 0
      <4>1. payout[p].status \in Open
        BY <2>1, <2>5 DEF RunsApart
      <4>. QED BY <2>1, <2>5, <4>1 DEF RunsApart, Open, Final
    <3>4. CASE IsNews(x)
      <4>1. Announce(p, x.report)
        BY <2>2, <3>4
      <4>. HIDE DEF p
      <4>2. \A s \in Final : announced'[p][s] = IF x.report = s THEN 1 ELSE 0
        BY ONLY <2>1, <3>3, <4>1 DEF Announce, Final, Reported
      <4>. QED BY <2>3, <3>2, <4>2
    <3>5. CASE ~IsNews(x)
      <4>1. announced' = announced /\ x.report \notin Final
        BY <2>1, <2>2, <3>5 DEF IsNews, Open, Final
      <4>. QED BY <2>3, <3>2, <3>3, <4>1
    <3>. QED BY <3>4, <3>5
  <2>6. ASSUME NEW q \in Payouts \ Overlapped
        PROVE  /\ \A u \in Runs : \A c \in batch'[u] : c.payout = q =>
                    /\ c.status = payout'[q].status /\ c.ref = payout'[q].ref
                    /\ \A v \in Runs \ {u} : ~InBatch(v, q)'
               /\ \A s \in Final : announced'[q][s] = IF payout'[q].status = s THEN 1 ELSE 0
    <3>1. CASE q = p
      BY <2>5, <3>1 DEF InBatch
    <3>2. CASE q # p
      BY <2>3, <2>4, <3>2 DEF RunsApart, InBatch
    <3>. QED BY <3>1, <3>2
  <2>. QED BY <2>6 DEF RunsApart
<1>. QED BY <1>2, <1>3, <1>4 DEF Run

\* Runs stay apart, in every state.
LEMMA ApartAlways == PayoutsSpec => []RunsApart
<1>1. PayoutsInit => RunsApart
  BY DEF PayoutsInit, RunsApart, Final, Reported, Absent
<1>2. PayoutInv /\ RunsApart /\ [PayoutsNext]_payoutVars => RunsApart'
  <2>. SUFFICES ASSUME PayoutInv, RunsApart, [PayoutsNext]_payoutVars PROVE RunsApart'
    OBVIOUS
  <2>1. CASE UNCHANGED <<payout, announced, batch>>
    BY <2>1 DEF RunsApart, InBatch
  <2>2. ASSUME NEW p \in Payouts, ProviderSettles(p)
        PROVE  RunsApart'
    BY <2>1, <2>2 DEF ProviderSettles, workerVars, effects
  <2>. QED BY <2>1, <2>2, CreateKeepsApart, RunKeepsApart
           DEF PayoutsNext, payoutVars, workerVars, effects
<1>. QED BY <1>1, <1>2, Backed, PTL DEF PayoutsSpec

\* No module hears both ends of a payout, and where runs do not read one row at once it
\* hears of the end the row says, once.
THEOREM OneVerdictEver == PayoutsSpec => []OneVerdict
<1>1. PayoutInv /\ RunsApart => OneVerdict
  BY DEF PayoutInv, PayoutsTypeOK, NewsIsTrue, SucceededIsPaid, RunsApart, OneVerdict, Reported
<1>. QED BY <1>1, Backed, ApartAlways, PTL

-----------------------------------------------------------------------------
(* Processors: the route *)

\* Priority and name order the adapters: any choice among some has a best one.
LEMMA BestIsFirst ==
  ASSUME NEW S \in SUBSET Adapters, S # {}
  PROVE  Best(S) \in S /\ \A b \in S \ {Best(S)} : Before(Best(S), b)
<1>1. \E a \in S : \A b \in S \ {a} : Before(a, b)
  <2>. USE DEF Adapters, Before, Priority
  <2>1. CASE "pawapay" \in S
    BY <2>1
  <2>2. CASE "pawapay" \notin S /\ "paystack" \in S
    BY <2>2
  <2>3. CASE "pawapay" \notin S /\ "paystack" \notin S /\ "sandbox" \in S
    BY <2>3
  <2>4. CASE S \subseteq {"cinetpay", "jeko"} /\ "cinetpay" \in S
    BY <2>4
  <2>5. CASE S \subseteq {"jeko"} /\ "jeko" \in S
    BY <2>5
  <2>6. S \subseteq {"pawapay", "paystack", "cinetpay", "jeko", "sandbox"} /\ \E a \in S : TRUE
    OBVIOUS
  <2>. QED BY <2>1, <2>2, <2>3, <2>4, <2>5, <2>6
<1>. QED BY <1>1 DEF Best

\* What RoutingIsSound says of an adapter.
SoundRoute(a) ==
  /\ a \in Registered /\ Supports(a)
  /\ a = "sandbox" =>
       IF request.direction = "payout" THEN request.local ELSE request.mode = "sandbox"
  /\ (\E b \in request.configured :
        request.network \in Capabilities[b].networks /\ Supports(b)) =>
       request.network \in Capabilities[a].networks /\ a \notin Simulated

\* Configured adapters are real ones.
LEMMA ConfiguredAreReal ==
  ASSUME request \in Command
  PROVE  request.configured \subseteq Adapters \ Simulated
BY ProcessorsAssumption DEF Command, Simulated

\* The adapter that takes a collection is sound: a dedicated one, or the mode.
LEMMA CollectionIsSound ==
  ASSUME request \in Command, request.direction # "payout",
         CollectionRoute \in Adapters
  PROVE  SoundRoute(CollectionRoute)
<1>1. /\ CollectionRoute = Preferred
      /\ Preferred \in Registered /\ Supports(Preferred)
  BY DEF CollectionRoute, Adapters, Nobody
<1>2. CASE Dedicated # {}
  <2>1. Dedicated \subseteq Adapters
    BY ConfiguredAreReal DEF Dedicated, Registered, Simulated
  <2>2. Preferred \in Dedicated
    BY <1>2, <2>1, BestIsFirst DEF Preferred
  <2>. QED BY <1>1, <2>2 DEF SoundRoute, Dedicated, Simulated
<1>3. CASE Dedicated = {}
  <2>1. Preferred = request.mode
    BY <1>3 DEF Preferred
  <2>2. ~ \E b \in request.configured :
            request.network \in Capabilities[b].networks /\ Supports(b)
    BY <1>3, ConfiguredAreReal DEF Dedicated, Registered
  <2>. QED BY <1>1, <2>1, <2>2 DEF SoundRoute
<1>. QED BY <1>2, <1>3

\* A real adapter that names networks and pays out is pawapay.
LEMMA OnlyPawapayIsDedicated ==
  ASSUME request.direction = "payout",
         NEW b \in Adapters \ Simulated, Supports(b),
         request.network \in Capabilities[b].networks
  PROVE  b = "pawapay"
BY DEF Adapters, Simulated, Supports, Capabilities, Paystack, Pawapay,
       Cinetpay, Jeko, Sandbox

\* The adapter that takes a payout is sound: nothing comes before pawapay.
LEMMA PayoutIsSound ==
  ASSUME request \in Command, request.direction = "payout",
         PayoutRoute \in Adapters
  PROVE  SoundRoute(PayoutRoute)
<1>. DEFINE able == {a \in Registered : Supports(a)}
<1>1. /\ able # {} /\ PayoutRoute = Best(able)
      /\ Best(able) \in Simulated => request.local
  BY DEF PayoutRoute, Adapters, Nobody
<1>2. able \subseteq Adapters
  BY ConfiguredAreReal DEF Registered, Adapters
<1>3. Best(able) \in able /\ \A b \in able \ {Best(able)} : Before(Best(able), b)
  BY <1>1, <1>2, BestIsFirst
<1>4. ASSUME NEW b \in request.configured, Supports(b),
             request.network \in Capabilities[b].networks
      PROVE  PayoutRoute = "pawapay" /\ b = "pawapay"
  <2>1. b = "pawapay"
    BY <1>4, ConfiguredAreReal, OnlyPawapayIsDedicated
  <2>2. "pawapay" \in able
    BY <1>4, <2>1 DEF Registered
  <2>3. \A a \in Adapters : ~Before(a, "pawapay")
    BY DEF Adapters, Before, Priority
  <2>4. Best(able) = "pawapay"
    BY <1>2, <1>3, <2>2, <2>3
  <2>. QED BY <1>1, <2>1, <2>4
<1>. HIDE DEF able
<1>5. PayoutRoute \in Registered /\ Supports(PayoutRoute)
  BY <1>1, <1>3 DEF able
<1>6. PayoutRoute = "sandbox" => request.local
  BY <1>1 DEF Simulated
<1>. QED BY <1>4, <1>5, <1>6 DEF SoundRoute, Simulated

RouteInv == request \in Command /\ RoutingIsSound

\* A command goes to an adapter that is registered and can carry it, and to the sandbox
\* only where the sandbox may stand in, for any configuration and preference
\* (ProcessorRegistry.select).  The route is taken once, and the command is never
\* changed.
THEOREM RoutesAreSound == ProcessorsSpec => []RoutingIsSound
<1>1. ProcessorsInit => RouteInv
  BY DEF ProcessorsInit, RouteInv, RoutingIsSound, Adapters, None
<1>2. RouteInv /\ [ProcessorsNext]_processorVars => RouteInv'
  <2>. SUFFICES ASSUME RouteInv, [ProcessorsNext]_processorVars PROVE RouteInv'
    OBVIOUS
  <2>1. CASE request' = request /\ chosen' = chosen
    BY <2>1 DEF RouteInv, RoutingIsSound, Command, Registered, Supports, Simulated,
                Capabilities, Paystack, Pawapay, Cinetpay, Jeko, Sandbox
  <2>2. CASE Route
    <3>1. request' = request /\ request' \in Command
      BY <2>2 DEF Route, RouteInv
    <3>2. ASSUME chosen' \in Adapters
          PROVE  SoundRoute(chosen')
      BY <2>2, <3>2, CollectionIsSound, PayoutIsSound DEF Route, RouteInv
    <3>. QED BY <3>1, <3>2 
         DEF RouteInv, RoutingIsSound, SoundRoute, Registered, Supports, Simulated,
             Capabilities, Paystack, Pawapay, Cinetpay, Jeko, Sandbox
  <2>3. Route \/ (request' = request /\ chosen' = chosen)
    BY DEF ProcessorsNext, processorVars, Rejected, LoginUncertain, CallSandbox, Call, ProviderActs,
           VerifyAnswered, VerifyMissed, VerifyPayout, Webhook, RefundBegin,
           RefundCall, RefundSettles
  <2>. QED BY <2>1, <2>2, <2>3
<1>3. RouteInv => RoutingIsSound
  BY DEF RouteInv
<1>. QED BY <1>1, <1>2, <1>3, PTL DEF ProcessorsSpec

-----------------------------------------------------------------------------
(* Processors: what adapters make of amounts and words *)

\* A whole number of francs is that many hundredths.
LEMMA WholeIsExact ==
  ASSUME NEW c \in Nat
  PROVE  Whole(c) # Unreadable => Whole(c) \in Nat /\ 100 * Whole(c) = c
BY DEF Whole, Unreadable

\* What is read of an amount is never more than the amount.
LEMMA ReadIsCovered ==
  ASSUME NEW c \in Nat, NEW a, Read(a, c) # Unreadable
  PROVE  Read(a, c) \in Nat /\ 100 * Read(a, c) <= c
<1>1. c \div 100 \in Nat /\ 100 * (c \div 100) <= c
  OBVIOUS
<1>. QED BY <1>1, WholeIsExact DEF Read

\* A fee is rounded up.
LEMMA PaystackFeeCovers ==
  ASSUME NEW c \in Nat
  PROVE  PaystackFee(c) \in Nat /\ 100 * PaystackFee(c) >= c
BY DEF PaystackFee

\* The fee that is reported covers the fee that was taken.
LEMMA FeeIsCovered ==
  ASSUME NEW c \in Nat, NEW a, ReadFee(a, c) # Unreadable
  PROVE  ReadFee(a, c) \in Nat /\ (a \in {"paystack", "jeko"} => 100 * ReadFee(a, c) >= c)
<1>1. CASE a = "paystack"
  BY <1>1, PaystackFeeCovers DEF ReadFee
<1>2. CASE a = "jeko"
  BY <1>2, WholeIsExact DEF ReadFee
<1>3. CASE a \notin {"paystack", "jeko"}
  BY <1>3 DEF ReadFee
<1>. QED BY <1>1, <1>2, <1>3

\* Whatever the unit of its API, a provider is asked for hundredths of what the command
\* says.
LEMMA AskedInFull ==
  ASSUME NEW n \in Nat, NEW a
  PROVE  Cents(a, Sent(a, n)) = 100 * n
BY DEF Cents, Sent

Real == Adapters \ Simulated
Begun == {"open", "paid", "failed", "abandoned"}
Verdicts == {"succeeded", "failed", "processing", "unknown"}

\* A look-up says succeeded only of what was paid, and only if what was kept can be read;
\* it says failed only of what failed.
LEMMA VerifiedIsTrue ==
  ASSUME NEW a \in Real, NEW state \in Begun, NEW word \in Words(a, state),
         provider.fee \in Nat
  PROVE  /\ Verified(a, word) \in Verdicts
         /\ Verified(a, word) = "succeeded" =>
              state = "paid" /\ ReadFee(a, provider.fee) # Unreadable
         /\ Verified(a, word) = "failed" => state \in {"failed", "abandoned"}
<1>. USE DEF Begun, Words
<1>1. CASE a = "paystack"
  <2>1. ReadFee(a, provider.fee) # Unreadable
    BY <1>1, PaystackFeeCovers DEF ReadFee, Unreadable
  <2>. QED BY <1>1, <2>1
           DEF Verified, PaystackVerify, PaystackReport, Unanswered, Verdicts
<1>2. CASE a = "pawapay"
  BY <1>2 DEF Verified, PawapayVerify, PawapayReport, Unanswered, Verdicts,
     ReadFee, Unreadable
<1>3. CASE a = "cinetpay"
  BY <1>3 DEF Verified, CinetpayVerify, CinetpayReport, CinetpayFailures, Verdicts,
     ReadFee, Unreadable
<1>4. CASE a = "jeko"
  BY <1>4 DEF Verified, JekoVerify, JekoReport, Verdicts, ReadFee
<1>. QED BY <1>1, <1>2, <1>3, <1>4 DEF Real, Adapters, Simulated

\* A look-up that misses decides nothing.
LEMMA MissedIsOpen ==
  ASSUME NEW a \in Real, NEW word \in Unanswered \union {"NOT_FOUND"},
         word = "NOT_FOUND" => a = "pawapay"
  PROVE  Verified(a, word) \in {"processing", "unknown"}
<1>1. CASE a = "paystack"
  BY <1>1 DEF Verified, PaystackVerify, Unanswered
<1>2. CASE a = "pawapay"
  BY <1>2 DEF Verified, PawapayVerify, Unanswered
<1>3. CASE a = "cinetpay"
  BY <1>3 DEF Verified, CinetpayVerify, CinetpayReport, CinetpayFailures, Unanswered
<1>4. CASE a = "jeko"
  BY <1>4 DEF Verified, JekoVerify, JekoReport, Unanswered
<1>. QED BY <1>1, <1>2, <1>3, <1>4 DEF Real, Adapters, Simulated

\* So do the look-ups of payouts.
LEMMA VerifiedPayoutIsTrue ==
  ASSUME NEW a \in Real, NEW state \in Begun, NEW word \in Words(a, state)
  PROVE  /\ VerifiedPayout(a, word) \in Verdicts
         /\ VerifiedPayout(a, word) = "succeeded" => state = "paid"
         /\ VerifiedPayout(a, word) = "failed" => state = "failed"
<1>. USE DEF Begun, Words, VerifiedPayout, Verdicts
<1>1. CASE a = "pawapay"
  BY <1>1 DEF PawapayVerifyPayout, PawapayReport, Unanswered
<1>2. CASE a = "cinetpay"
  BY <1>2 DEF CinetpayVerifyPayout, CinetpayReport, CinetpayFailures
<1>3. CASE a \in {"jeko", "paystack"}
  BY <1>3 DEF JekoVerifyPayout, JekoReport
<1>. QED BY <1>1, <1>2, <1>3 DEF Real, Adapters, Simulated

\* What the first call makes of a reply: a payer is sent on only if it was accepted, and
\* a payout has succeeded or failed only as the reply says.
LEMMA FirstAnswers ==
  ASSUME NEW a \in Real, NEW reply \in Replies
  PROVE  /\ Initialize(a, reply) \in
              [status : {"requires_action", "unknown", "failed"}, ref : {"ours", "theirs", "code"}]
         /\ Initialize(a, reply).status = "failed" => reply # "accepted"
         /\ CreatePayout(a, reply) \in
              [status : {"succeeded", "processing", "failed"}, ref : {"ours", "theirs", "code"}]
         /\ CreatePayout(a, reply).status = "succeeded" => reply = "done"
         /\ CreatePayout(a, reply).status = "failed" => reply \in HttpErrors \union {"undone"}
<1>1. Opened(reply) \in {"requires_action", "unknown", "failed"}
      /\ (Opened(reply) = "failed" => reply # "accepted")
  BY DEF Opened
<1>2. ASSUME NEW to, NEW ref
      PROVE  Answer(to, ref) = [status |-> to, ref |-> ref]
  BY DEF Answer
<1>5. JekoReference(reply) \in {"ours", "theirs", "code"}
  BY DEF JekoReference
<1>3. /\ Initialize(a, reply) \in
           [status : {"requires_action", "unknown", "failed"}, ref : {"ours", "theirs", "code"}]
      /\ Initialize(a, reply).status = "failed" => reply # "accepted"
  BY <1>1, <1>2, <1>5 DEF Initialize, PaystackInitialize, PawapayInitialize,
     CinetpayInitialize, JekoInitialize
<1>4. /\ CreatePayout(a, reply) \in
           [status : {"succeeded", "processing", "failed"}, ref : {"ours", "theirs", "code"}]
      /\ CreatePayout(a, reply).status = "succeeded" => reply = "done"
      /\ CreatePayout(a, reply).status = "failed" => reply \in HttpErrors \union {"undone"}
  BY <1>2, <1>5 DEF CreatePayout, PawapayPayout, CinetpayPayout, JekoPayout, HttpErrors
<1>. QED BY <1>3, <1>4

-----------------------------------------------------------------------------
(* Processors: money *)

\* Error pages, and answers to refunds that cannot be read, do not hide that money was
\* sent: the code takes them for refusals.
Plain ==
  /\ Hiding \intersect {<<"payout", "error">>, <<"payout", "coded">>} = {}
  /\ Hiding \intersect {<<"refund", "error">>, <<"refund", "coded">>, <<"refund", "garbled">>} = {}

\* A provider knows of the operation once it was called, and of all that it is to pay out.
Charged ==
  /\ attempt.status = "pending" => provider.state = "absent"
  /\ chosen \notin Real => provider.state = "absent"
  /\ chosen \notin Adapters => attempt.status = "pending" /\ refund = None
  /\ (provider.state # "absent" /\ request.direction = "payout") =>
       provider.cents >= 100 * request.amount

Money == ProcessorsTypeOK /\ Charged /\ SuccessIsMoney /\ (Plain => FailureIsNoMoney)

\* A report that is true of the provider can be recorded.
LEMMA RecordsKeep ==
  ASSUME Money, chosen \in Real,
         NEW report \in Verdicts, Records(report),
         report = "succeeded" =>
           /\ provider.state = "paid" /\ Read(chosen, provider.cents) = request.amount
           /\ ReadFee(chosen, provider.fee) # Unreadable,
         report = "failed" => provider.state \in {"failed", "abandoned"},
         UNCHANGED <<request, chosen, refund, link, provider, returned>>
  PROVE  Money'
<1>. DEFINE moved == AttemptAfter(attempt.status, report)
<1>1. /\ moved \in AttemptStatuses
      /\ moved = "pending" => attempt.status = "pending"
      /\ moved = "succeeded" => attempt.status = "succeeded" \/ report = "succeeded"
      /\ moved = "failed" => attempt.status = "failed" \/ report = "failed"
  BY DEF AttemptAfter, AttemptStatuses, Verdicts, Money, ProcessorsTypeOK
<1>2. attempt'.status = moved /\ attempt' \in [status : AttemptStatuses, ref : References]
  BY <1>1 DEF Records, Money, ProcessorsTypeOK
<1>. HIDE DEF moved
<1>3. request.amount \in Nat /\ provider.cents \in Nat /\ provider.fee \in Nat
  BY ProcessorsAssumption DEF Money, ProcessorsTypeOK, Command
<1>4. CASE report = "succeeded" /\ attempt.status # "succeeded"
  <2>1. /\ result'.amount = request.amount
        /\ result'.fee = ReadFee(chosen, provider.fee)
        /\ result' = [amount |-> result'.amount, fee |-> result'.fee]
    BY <1>4 DEF Records
  <2>2. result' \in [amount : Nat, fee : Nat]
    BY <1>3, <1>4, <2>1, FeeIsCovered
  <2>3. request.amount # Unreadable
    BY <1>3 DEF Unreadable
  <2>4. 100 * request.amount <= provider.cents
    BY <1>3, <1>4, <2>3, ReadIsCovered
  <2>5. chosen \in {"paystack", "jeko"} =>
          100 * (result'.amount - result'.fee) <= provider.cents - provider.fee
    BY <1>3, <1>4, <2>1, <2>4, FeeIsCovered
  <2>. QED BY <1>1, <1>2, <1>4, <2>1, <2>2, <2>4, <2>5
           DEF Money, ProcessorsTypeOK, Charged, SuccessIsMoney, FailureIsNoMoney, Real
<1>5. CASE ~(report = "succeeded" /\ attempt.status # "succeeded")
  <2>1. result' = result
    BY <1>5 DEF Records
  <2>. QED BY <1>1, <1>2, <1>5, <2>1
           DEF Money, ProcessorsTypeOK, Charged, SuccessIsMoney, FailureIsNoMoney, Real
<1>. QED BY <1>4, <1>5

\* A route leads to an adapter, or to nobody.
LEMMA RouteType ==
  ASSUME request \in Command
  PROVE  {CollectionRoute, PayoutRoute} \subseteq Adapters \union {Nobody}
<1>1. Registered \subseteq Adapters
  BY ConfiguredAreReal DEF Registered, Adapters
<1>2. CollectionRoute \in Adapters \union {Nobody}
  BY <1>1 DEF CollectionRoute
<1>3. PayoutRoute \in Adapters \union {Nobody}
  <2>. DEFINE able == {a \in Registered : Supports(a)}
  <2>1. able # {} => Best(able) \in Adapters
    BY <1>1, BestIsFirst
  <2>. HIDE DEF able
  <2>2. PayoutRoute \in {Nobody, Best(able)} /\ (able = {} => PayoutRoute = Nobody)
    BY DEF PayoutRoute, able
  <2>. QED BY <2>1, <2>2
<1>. QED BY <1>2, <1>3

\* Choosing an adapter, and refusing a command before a call, move nothing.
LEMMA BeforeTheCall ==
  ASSUME Money,
         Route \/ Rejected \/ LoginUncertain \/ CallSandbox
  PROVE  Money'
<1>1. CASE Route
  <2>1. chosen' \in Adapters \union {Nobody}
    BY <1>1, RouteType DEF Route, Money, ProcessorsTypeOK
  <2>2. attempt.status = "pending" /\ refund = None
    BY <1>1 DEF Route, Money, Charged, Adapters, None
  <2>. QED BY <1>1, <2>1, <2>2
           DEF Route, Money, Charged, ProcessorsTypeOK, SuccessIsMoney, FailureIsNoMoney, None
<1>2. ASSUME NEW to \in {"failed", "processing", "unknown"}, NEW ref \in {None, "login"},
             attempt' = Answer(to, ref), chosen \in Adapters, attempt.status = "pending",
             UNCHANGED <<request, chosen, refund, link, provider, returned, result>>
      PROVE  Money'
  <2>1. attempt' = [status |-> to, ref |-> ref]
    BY <1>2 DEF Answer
  <2>. QED BY <1>2, <2>1
           DEF Money, Charged, ProcessorsTypeOK, SuccessIsMoney, FailureIsNoMoney, AttemptStatuses,
               References
<1>3. CASE Rejected
  BY <1>2, <1>3 DEF Rejected
<1>4. CASE LoginUncertain
  BY <1>2, <1>4 DEF LoginUncertain
<1>5. CASE CallSandbox
  <2>1. /\ attempt' \in [status : {"succeeded", "requires_action"}, ref : {"ours"}]
        /\ chosen \in Adapters \ Real
    BY <1>5 DEF CallSandbox, Answer, Real, Adapters, Simulated
  <2>. QED BY <1>5, <2>1
           DEF CallSandbox, Money, Charged, ProcessorsTypeOK, SuccessIsMoney, FailureIsNoMoney,
               AttemptStatuses, References, Real
<1>. QED BY <1>1, <1>3, <1>4, <1>5

\* The answer to the first call says no more than the provider has done.
LEMMA CallKeeps ==
  ASSUME Money, Call
  PROVE  Money'
<1>1. PICK reply \in Replies, arrived \in BOOLEAN :
        /\ reply \in Received => arrived
        /\ reply \in {"done", "undone"} => request.direction = "payout"
        /\ reply = "refused" => ~arrived
        /\ (arrived /\ reply \notin Received) => <<request.direction, reply>> \in Hiding
        /\ attempt' = IF request.direction = "payout" THEN CreatePayout(chosen, reply)
                      ELSE Initialize(chosen, reply)
        /\ link' = (request.direction = "collection" /\ reply = "accepted")
        /\ provider' = IF arrived
             THEN [state |-> CASE reply = "done" -> "paid" [] reply = "undone" -> "failed"
                               [] OTHER -> "open",
                   cents |-> Cents(chosen, Sent(chosen, request.amount)), fee |-> 0,
                   late |-> FALSE]
             ELSE provider
  BY DEF Call
<1>2. /\ chosen \in Real /\ attempt.status = "pending" /\ provider.state = "absent"
      /\ UNCHANGED <<request, chosen, refund, returned, result>>
  BY DEF Call, Real, Money, Charged
<1>3. /\ request.amount \in Nat
      /\ request.direction = "payout" \/ request.direction = "collection"
  BY ProcessorsAssumption DEF Money, ProcessorsTypeOK, Command
<1>4. /\ provider'.state \in {"absent", "paid", "failed", "open"}
      /\ provider'.state # "absent" <=> arrived
      /\ provider'.state = "paid" <=> arrived /\ reply = "done"
      /\ provider'.state = "failed" <=> arrived /\ reply = "undone"
      /\ arrived => provider'.cents = 100 * request.amount
      /\ provider' \in [state : Movements, cents : Nat, fee : Nat, late : BOOLEAN]
  BY <1>1, <1>2, <1>3, AskedInFull DEF Money, ProcessorsTypeOK, Movements
<1>5. /\ attempt' \in [status : {"requires_action", "unknown", "failed", "succeeded", "processing"},
                       ref : {"ours", "theirs", "code"}]
      /\ attempt'.status = "succeeded" => request.direction = "payout" /\ reply = "done"
      /\ attempt'.status = "failed" =>
           IF request.direction = "payout" THEN reply \in HttpErrors \union {"undone"}
           ELSE reply # "accepted"
  BY <1>1, <1>2, FirstAnswers
<1>6. ProcessorsTypeOK'
  BY <1>1, <1>2, <1>4, <1>5 DEF Money, ProcessorsTypeOK, AttemptStatuses, References
<1>7. Charged'
  BY <1>2, <1>3, <1>4, <1>5 DEF Charged, Money, Real
<1>8. SuccessIsMoney'
  <2>1. "done" \in Received
    BY DEF Received
  <2>. QED BY <1>1, <1>2, <1>3, <1>4, <1>5, <2>1 DEF SuccessIsMoney, Money
<1>9. ASSUME Plain
      PROVE  FailureIsNoMoney'
  <2>1. ASSUME attempt'.status = "failed", request.direction = "payout"
        PROVE  provider'.state \notin {"paid", "open"}
    <3>1. CASE reply \in {"error", "coded"}
      <4>1. ~arrived
        BY <1>1, <1>9, <2>1, <3>1 DEF Plain, Received
      <4>. QED BY <1>4, <4>1
    <3>2. CASE reply = "refused"
      BY <1>1, <1>4, <3>2
    <3>3. CASE reply = "undone"
      BY <1>1, <1>4, <3>3 DEF Received
    <3>. QED BY <1>5, <2>1, <3>1, <3>2, <3>3 DEF HttpErrors
  <2>2. ASSUME attempt'.status = "failed", request.direction = "collection"
        PROVE  provider'.state # "paid" /\ ~link'
    BY <1>1, <1>4, <1>5, <2>2
  <2>. QED BY <1>2, <1>3, <1>9, <2>1, <2>2 DEF FailureIsNoMoney, Money
<1>. QED BY <1>6, <1>7, <1>8, <1>9 DEF Money, Plain

\* What the provider does, it does to an operation that is open, or to a charge that was
\* abandoned.
LEMMA ProviderActsKeep ==
  ASSUME Money, ProviderActs
  PROVE  Money'
<1>1. /\ chosen \in Real /\ provider.state \in {"open", "abandoned"}
      /\ attempt.status # "pending"
      /\ request.direction = "collection" => link
      /\ UNCHANGED <<request, chosen, attempt, refund, link, returned, result>>
  BY DEF ProviderActs, Money, Charged
<1>2. /\ provider' \in [state : {"paid", "failed", "abandoned"}, cents : Nat, fee : Nat,
                         late : BOOLEAN]
      /\ request.direction = "payout" => provider'.cents = provider.cents
      /\ (provider'.state = "paid" /\ provider.state = "abandoned") => provider'.late
  <2>1. provider \in [state : Movements, cents : Nat, fee : Nat, late : BOOLEAN]
    BY DEF Money, ProcessorsTypeOK
  <2>2. CASE \E more \in Deviations \union {0}, fee \in Fees :
               /\ request.direction = "payout" => more = 0
               /\ provider.cents + more > 0
               /\ provider' = [state |-> "paid", cents |-> provider.cents + more, fee |-> fee,
                               late |-> provider.state = "abandoned"]
    <3>1. PICK more \in Deviations \union {0}, fee \in Fees :
            /\ request.direction = "payout" => more = 0
            /\ provider.cents + more > 0
            /\ provider' = [state |-> "paid", cents |-> provider.cents + more, fee |-> fee,
                            late |-> provider.state = "abandoned"]
      BY <2>2
    <3>2. more \in Int /\ fee \in Nat /\ provider.cents \in Nat
      BY <2>1, ProcessorsAssumption
    <3>3. provider.cents + more \in Nat
      BY <3>1, <3>2
    <3>4. /\ provider'.state = "paid" /\ provider'.cents = provider.cents + more
          /\ provider'.late = (provider.state = "abandoned")
      BY <3>1
    <3>5. provider' \in [state : {"paid"}, cents : Nat, fee : Nat, late : BOOLEAN]
      BY <3>1, <3>2, <3>3, Zenon
    <3>6. request.direction = "payout" => provider'.cents = provider.cents
      BY <3>1, <3>2, <3>4
    <3>7. provider' \in [state : {"paid", "failed", "abandoned"}, cents : Nat, fee : Nat,
                         late : BOOLEAN]
      BY <3>5
    <3>. QED BY <3>4, <3>6, <3>7
  <2>3. CASE provider' \in {[provider EXCEPT !.state = "failed"],
                            [provider EXCEPT !.state = "abandoned"]}
    BY <2>1, <2>3
  <2>. QED BY <2>2, <2>3 DEF ProviderActs
<1>3. attempt.status # "succeeded"
  BY <1>1 DEF Money, SuccessIsMoney, Real
<1>4. (Plain /\ attempt.status = "failed") => provider.state = "abandoned"
  BY <1>1 DEF Money, FailureIsNoMoney, Real
<1>5. ProcessorsTypeOK' /\ Charged'
  BY <1>1, <1>2 DEF Money, Charged, ProcessorsTypeOK, Movements
<1>6. SuccessIsMoney'
  BY <1>1, <1>3 DEF Money, SuccessIsMoney, Real
<1>7. Plain => FailureIsNoMoney'
  BY <1>1, <1>2, <1>4 DEF Money, FailureIsNoMoney, Real
<1>. QED BY <1>5, <1>6, <1>7 DEF Money, Plain

\* Look-ups and webhooks report what is true of the provider.
LEMMA ReportsKeep ==
  ASSUME Money,
         VerifyAnswered \/ VerifyMissed \/ VerifyPayout \/ Webhook
  PROVE  Money'
<1>1. /\ provider.fee \in Nat
      /\ provider.state \in Begun \union {"absent"}
  BY DEF Money, ProcessorsTypeOK, Movements, Begun
<1>2. CASE VerifyAnswered
  <2>1. /\ chosen \in Real /\ provider.state \in Begun
        /\ UNCHANGED <<request, chosen, refund, link, provider, returned>>
    BY <1>1, <1>2 DEF VerifyAnswered, Real
  <2>2. PICK word \in Words(chosen, provider.state), ref \in Named(chosen) :
          /\ Verified(chosen, word) = "succeeded" => Matches(ref)
          /\ Records(Verified(chosen, word))
    BY <1>2 DEF VerifyAnswered
  <2>3. Verified(chosen, word) = "succeeded" => Read(chosen, provider.cents) = request.amount
    BY <2>2 DEF Matches
  <2>. QED BY <1>1, <2>1, <2>2, <2>3, VerifiedIsTrue, RecordsKeep
<1>3. CASE VerifyMissed
  <2>1. /\ chosen \in Real
        /\ UNCHANGED <<request, chosen, refund, link, provider, returned>>
    BY <1>3 DEF VerifyMissed, Real
  <2>2. PICK word \in Unanswered \union {"NOT_FOUND"} :
          /\ word = "NOT_FOUND" => chosen = "pawapay"
          /\ Records(Verified(chosen, word))
    BY <1>3 DEF VerifyMissed
  <2>3. Verified(chosen, word) \in Verdicts \ {"succeeded", "failed"}
    BY <2>1, <2>2, MissedIsOpen DEF Verdicts
  <2>. QED BY <2>1, <2>2, <2>3, RecordsKeep
<1>4. CASE VerifyPayout
  <2>1. /\ chosen \in Real /\ provider.state \in Begun /\ request.direction = "payout"
        /\ attempt.status = "processing"
        /\ UNCHANGED <<request, chosen, refund, link, provider, returned, result>>
    BY <1>1, <1>4 DEF VerifyPayout, Real
  <2>2. PICK word \in Words(chosen, provider.state) :
          attempt' = [attempt EXCEPT !.status = VerifiedPayout(chosen, word)]
    BY <1>4 DEF VerifyPayout
  <2>3. /\ attempt' \in [status : Verdicts, ref : References]
        /\ attempt'.status = "succeeded" => provider.state = "paid"
        /\ attempt'.status = "failed" => provider.state = "failed"
    BY <2>1, <2>2, VerifiedPayoutIsTrue DEF Money, ProcessorsTypeOK
  <2>. QED BY <2>1, <2>3
           DEF Money, Charged, ProcessorsTypeOK, SuccessIsMoney, FailureIsNoMoney, Verdicts,
               AttemptStatuses, Real
<1>5. CASE Webhook
  <2>1. /\ chosen = "paystack" /\ provider.state \in {"paid", "failed", "abandoned"}
        /\ UNCHANGED <<request, chosen, refund, link, provider, returned>>
    BY <1>5 DEF Webhook
  <2>2. PICK report :
          /\ \E word \in Words(chosen, provider.state) :
               report = WebhookReport(IF provider.state = "paid" THEN "charge.success"
                                        ELSE "charge.failed", word)
          /\ report = "succeeded" => Matches(attempt.ref)
          /\ Records(report)
    BY <1>5 DEF Webhook
  <2>3. /\ report \in Verdicts
        /\ report = "succeeded" => provider.state = "paid"
        /\ report = "failed" => provider.state \in {"failed", "abandoned"}
    BY <2>1, <2>2 DEF Words, WebhookReport, PaystackReport, Verdicts
  <2>4. ReadFee(chosen, provider.fee) # Unreadable
    BY <1>1, <2>1, PaystackFeeCovers DEF ReadFee, Unreadable
  <2>5. report = "succeeded" => Read(chosen, provider.cents) = request.amount
    BY <2>2 DEF Matches
  <2>6. chosen \in Real
    BY <2>1 DEF Real, Adapters, Simulated
  <2>. QED BY <2>1, <2>2, <2>3, <2>4, <2>5, <2>6, RecordsKeep
<1>. QED BY <1>2, <1>3, <1>4, <1>5

\* A refund is answered as it went, so far.
LEMMA RefundsKeep ==
  ASSUME Money, RefundBegin \/ RefundCall \/ RefundSettles
  PROVE  Money'
<1>1. CASE RefundBegin
  BY <1>1 DEF RefundBegin, Money, Charged, ProcessorsTypeOK, SuccessIsMoney, FailureIsNoMoney,
     RefundStatuses, None
<1>2. CASE RefundCall
  <2>1. PICK reply \in Replies \ {"no_link", "done", "undone"}, arrived \in BOOLEAN,
             word \in RefundWords :
          /\ reply = "accepted" => arrived
          /\ reply = "refused" => ~arrived
          /\ (arrived /\ reply # "accepted") => <<"refund", reply>> \in Hiding
          /\ refund' = IF chosen = "paystack" THEN PaystackRefund(reply, word)
                       ELSE PawapayRefund(reply)
          /\ returned' = IF ~arrived THEN "absent"
                         ELSE CASE word = "processed" -> "paid" [] word = "failed" -> "failed"
                                [] OTHER -> "open"
    BY <1>2 DEF RefundCall
  <2>2. /\ refund = "pending" /\ chosen \in Refundable
        /\ UNCHANGED <<request, chosen, attempt, link, provider, result>>
    BY <1>2 DEF RefundCall
  <2>3. /\ word \in {"processed", "pending", "failed"}
        /\ reply \in HttpErrors \union {"timeout", "garbled", "accepted"}
    BY DEF RefundWords, Replies, HttpErrors
  <2>4. /\ refund' \in {"failed", "processing", "succeeded"}
        /\ refund' = "succeeded" => reply = "accepted" /\ word = "processed"
        /\ refund' = "failed" => \/ reply \in HttpErrors \union {"garbled"}
                                 \/ reply = "accepted" /\ word = "failed"
    BY <2>1, <2>3 DEF PaystackRefund, PawapayRefund, HttpErrors
  <2>5. /\ returned' \in Movements
        /\ refund' = "succeeded" => returned' = "paid"
    BY <2>1, <2>3, <2>4 DEF Movements
  <2>6. ASSUME Plain, refund' = "failed"
        PROVE  returned' \notin {"open", "paid"}
    <3>1. CASE reply \in {"error", "coded", "garbled"}
      <4>1. ~arrived
        BY <2>1, <2>6, <3>1 DEF Plain
      <4>. QED BY <2>1, <4>1
    <3>2. CASE reply = "refused"
      BY <2>1, <3>2
    <3>3. CASE reply = "accepted" /\ word = "failed"
      BY <2>1, <3>3
    <3>. QED BY <2>4, <2>6, <3>1, <3>2, <3>3 DEF HttpErrors
  <2>. QED BY <2>2, <2>4, <2>5, <2>6
           DEF Money, Charged, ProcessorsTypeOK, SuccessIsMoney, FailureIsNoMoney, RefundStatuses,
               Adapters, Refundable, None, Plain
<1>3. CASE RefundSettles
  BY <1>3 DEF RefundSettles, Money, Charged, ProcessorsTypeOK, Movements, SuccessIsMoney,
     FailureIsNoMoney
<1>. QED BY <1>1, <1>2, <1>3

\* The invariant is inductive.
LEMMA MoneyHolds == ProcessorsSpec => []Money
<1>1. ProcessorsInit => Money
  <2>. SUFFICES ASSUME ProcessorsInit PROVE Money
    OBVIOUS
  <2>1. request \in Command
    BY DEF ProcessorsInit
  <2>2. ProcessorsTypeOK
    BY <2>1 DEF ProcessorsInit, ProcessorsTypeOK, AttemptStatuses, References, Movements
  <2>3. chosen \notin Adapters
    BY DEF ProcessorsInit, None, Adapters
  <2>. QED BY <2>2, <2>3 DEF ProcessorsInit, Money, Charged, SuccessIsMoney, FailureIsNoMoney
<1>2. Money /\ [ProcessorsNext]_processorVars => Money'
  <2>. SUFFICES ASSUME Money, [ProcessorsNext]_processorVars PROVE Money'
    OBVIOUS
  <2>1. CASE UNCHANGED processorVars
    BY <2>1 DEF processorVars, Money, ProcessorsTypeOK, Charged, SuccessIsMoney, FailureIsNoMoney,
       Command
  <2>. QED BY <2>1, BeforeTheCall, CallKeeps, ProviderActsKeep, ReportsKeep, RefundsKeep
           DEF ProcessorsNext
<1>. QED BY <1>1, <1>2, PTL DEF ProcessorsSpec

\* Every reachable state of an operation is well typed.
THEOREM RegistryTypes == ProcessorsSpec => []ProcessorsTypeOK
BY MoneyHolds, PTL DEF Money

\* What a real adapter calls succeeded was paid in full, and a refund it calls succeeded
\* was given back, whichever of its calls said so, whatever amounts and fees came with
\* the answer and however much less or more than the price was paid (verify_payment, verify_payout, refund_payment, parse_webhook).
THEOREM SuccessesAreMoney == ProcessorsSpec => []SuccessIsMoney
BY MoneyHolds, PTL DEF Money

\* What a real adapter calls failed moves no money, where no error page hides that it
\* was sent and no charge is paid after it was abandoned (initialize_payment, create_payout, verify_payment, refund_payment).
THEOREM FailuresAreNoMoney ==
  ASSUME Plain
  PROVE  ProcessorsSpec => []FailureIsNoMoney
<1>1. Money => FailureIsNoMoney
  BY DEF Money
<1>. QED BY <1>1, MoneyHolds, PTL

-----------------------------------------------------------------------------
(* Wallet events: what is published was sent *)

RelayState == [rows : SUBSET Payments, current : Payments \union {Nothing},
               marked : SUBSET Payments]

\* A relay has given to the bus what it is about to mark, and what it has marked.
SentBefore(r) ==
  /\ relay[r].marked \subseteq sent
  /\ relay[r].current # Nothing => relay[r].current \in sent

EventsInv ==
  /\ outbox \in [Payments -> {Nothing, "pending", "published"}]
  /\ relay \in [Relays -> RelayState]
  /\ \A r \in Relays : SentBefore(r)
  /\ PublishedWasSent

\* Rows that are pending are rows.
LEMMA ScannedArePayments ==
  ASSUME NEW rows \in Scanned
  PROVE  rows \subseteq Payments
BY DEF Scanned, Pending

\* What becomes of one relay, where it has sent what it is about to mark or has marked.
LEMMA OneRelay ==
  ASSUME EventsInv, NEW r \in Relays, NEW row \in RelayState,
         relay' = [relay EXCEPT ![r] = row],
         UNCHANGED outbox, sent \subseteq sent',
         row.marked \subseteq sent', row.current # Nothing => row.current \in sent'
  PROVE  EventsInv'
BY DEF EventsInv, SentBefore, PublishedWasSent

\* A relay that has nothing has nothing to answer for.
LEMMA RelayEnds ==
  ASSUME EventsInv, NEW r \in Relays, relay' = [relay EXCEPT ![r] = NoRelay],
         UNCHANGED <<outbox, sent>>
  PROVE  EventsInv'
<1>1. NoRelay \in RelayState /\ NoRelay.marked = {} /\ NoRelay.current = Nothing
  BY DEF NoRelay, RelayState
<1>. QED BY <1>1, OneRelay

\* A relay that only starts again with the rows it finds had none before.
LEMMA RelayScans ==
  ASSUME EventsInv, NEW r \in Relays, NEW rows \in Scanned,
         relay' = [relay EXCEPT ![r].rows = rows], UNCHANGED <<outbox, sent>>
  PROVE  EventsInv'
BY ScannedArePayments DEF EventsInv, RelayState, SentBefore, PublishedWasSent

\* Nothing of a relay that rolls back is kept.
LEMMA RollBackKeeps ==
  ASSUME EventsInv, NEW r \in Relays, RollsBack(r)
  PROVE  EventsInv'
BY RelayEnds DEF RollsBack, Ends

\* A relay marks what it sent, and commits what it marked.
LEMMA RelayKeeps ==
  ASSUME EventsInv, NEW r \in Relays, RelayStep(r)
  PROVE  EventsInv'
<1>1. ASSUME NEW p \in Payments, Publish(r, p)
      PROVE  EventsInv'
  <2>. DEFINE row == [relay[r] EXCEPT !.rows = @ \ {p}, !.current = p]
  <2>1. relay' = [relay EXCEPT ![r] = row] /\ sent' = sent \union {p} /\ UNCHANGED outbox
    BY <1>1 DEF Publish, EventsInv
  <2>2. relay[r] \in RelayState /\ SentBefore(r)
    BY DEF EventsInv
  <2>3. row \in RelayState /\ row.current = p /\ row.marked = relay[r].marked
    BY <2>2 DEF RelayState
  <2>. HIDE DEF row
  <2>. QED BY <2>1, <2>2, <2>3, OneRelay DEF SentBefore
<1>2. CASE Mark(r)
  <2>. DEFINE row == [relay[r] EXCEPT !.current = Nothing, !.marked = @ \union {relay[r].current}]
  <2>1. relay' = [relay EXCEPT ![r] = row] /\ UNCHANGED <<outbox, sent>>
    BY <1>2 DEF Mark, EventsInv
  <2>2. relay[r] \in RelayState /\ SentBefore(r) /\ relay[r].current # Nothing
    BY <1>2 DEF EventsInv, Mark
  <2>3. /\ row \in RelayState /\ row.current = Nothing
        /\ row.marked = relay[r].marked \union {relay[r].current}
    BY <2>2 DEF RelayState
  <2>. HIDE DEF row
  <2>. QED BY <2>1, <2>2, <2>3, OneRelay DEF SentBefore
<1>3. CASE RelayCommit(r)
  <2>1. /\ relay' = [relay EXCEPT ![r] = [rows |-> {}, current |-> Nothing, marked |-> {}]]
        /\ UNCHANGED sent
        /\ outbox' = [p \in Payments |-> IF p \in relay[r].marked THEN "published" ELSE outbox[p]]
    BY <1>3 DEF RelayCommit, NoRelay
  <2>2. relay[r].marked \subseteq sent
    BY DEF EventsInv, SentBefore
  <2>3. outbox' \in [Payments -> {Nothing, "pending", "published"}] /\ PublishedWasSent'
    BY <2>1, <2>2 DEF EventsInv, PublishedWasSent
  <2>. QED BY <2>1, <2>3 DEF EventsInv, RelayState, SentBefore
<1>4. CASE Victim(r)
  <2>1. PICK q \in Relays \ {r} :
          /\ Waits(r, q) /\ Waits(q, r)
          /\ relay' = [relay EXCEPT ![r] = NoRelay, ![q].current = Nothing,
                                    ![q].marked = @ \union {relay[q].current}]
    BY <1>4 DEF Victim
  <2>2. UNCHANGED <<outbox, sent>> /\ relay[q].current # Nothing
    BY <1>4, <2>1 DEF Victim, Ends, Waits
  <2>3. \A x \in Relays : relay[x] \in RelayState /\ SentBefore(x)
    BY DEF EventsInv
  <2>. DEFINE row == [relay[q] EXCEPT !.current = Nothing, !.marked = @ \union {relay[q].current}]
  <2>4. /\ relay' \in [Relays -> {relay'[x] : x \in Relays}]
        /\ relay'[q] = row
        /\ \A x \in Relays \ {q} : relay'[x] = IF x = r THEN NoRelay ELSE relay[x]
    BY <2>1 DEF EventsInv
  <2>5. relay[q].current \in Payments /\ relay[q].current \in sent
    BY <2>2, <2>3 DEF RelayState, SentBefore
  <2>6. /\ row \in RelayState /\ row.current = Nothing
        /\ row.marked = relay[q].marked \union {relay[q].current}
    BY <2>3, <2>5 DEF RelayState
  <2>7. NoRelay \in RelayState /\ NoRelay.marked = {} /\ NoRelay.current = Nothing
    BY DEF NoRelay, RelayState
  <2>. HIDE DEF row
  <2>8. \A x \in Relays : relay'[x] \in RelayState /\ SentBefore(x)'
    BY <2>2, <2>3, <2>4, <2>5, <2>6, <2>7 DEF SentBefore
  <2>9. relay' \in [Relays -> RelayState]
    BY <2>4, <2>8
  <2>. QED BY <2>2, <2>8, <2>9 DEF EventsInv, PublishedWasSent
<1>. QED BY <1>1, <1>2, <1>3, <1>4 DEF RelayStep

\* The invariant of what relays publish, in every state.
LEMMA EventsHold == EventsSpec => []EventsInv
<1>1. EventsInit => EventsInv
  <2>. SUFFICES ASSUME EventsInit PROVE EventsInv
    OBVIOUS
  <2>1. PICK s \in Starts :
          /\ outbox = [p \in Payments |-> IF p \in s.made THEN "published" ELSE Nothing]
          /\ sent = s.made
          /\ relay = [r \in Relays |-> NoRelay]
    BY DEF EventsInit
  <2>. QED BY <2>1 DEF EventsInv, RelayState, SentBefore, PublishedWasSent, NoRelay, Nothing
<1>2. EventsInv /\ [EventsNext]_eventVars => EventsInv'
  <2>. SUFFICES ASSUME EventsInv, [EventsNext]_eventVars PROVE EventsInv'
    OBVIOUS
  <2>1. CASE UNCHANGED <<outbox, relay, sent>>
    BY <2>1 DEF EventsInv, RelayState, SentBefore, PublishedWasSent
  <2>2. ASSUME NEW p \in Payments, Complete(p)
        PROVE  EventsInv'
    BY <2>2 DEF Complete, EventsInv, RelayState, SentBefore, PublishedWasSent
  <2>3. ASSUME NEW p \in Payments, Book(p)
        PROVE  EventsInv'
    BY <2>3 DEF Book, Enqueued, EventsInv, RelayState, SentBefore, PublishedWasSent
  <2>4. CASE ScanByJob
    BY <2>4, RelayScans DEF ScanByJob, Relays
  <2>5. ASSUME NEW w \in Processes, Start(w)
        PROVE  EventsInv'
    BY <2>5, RelayScans DEF Start, Relays
  <2>6. CASE Faulty
    BY <2>6, RollBackKeeps
       DEF Faulty, JobCrashes, BusFails, Crash, Relays
  <2>7. ASSUME NEW p \in Payments, Undo(p)
        PROVE  EventsInv'
    BY <2>1, <2>7 DEF Undo
  <2>8. ASSUME NEW w \in Processes, Handle(w)
        PROVE  EventsInv'
    BY <2>1, <2>8 DEF Handle, walletVars
  <2>9. ASSUME NEW r \in Requests, AskForAccount(r)
        PROVE  EventsInv'
    BY <2>1, <2>9 DEF AskForAccount, walletVars
  <2>10. ASSUME NEW h \in Processes \union Requests, Finish(h)
         PROVE  EventsInv'
    BY <2>1, <2>10 DEF Finish, walletVars
  <2>11. CASE Tell
    BY <2>1, <2>11 DEF Tell, walletVars
  <2>12. CASE UNCHANGED eventVars
    BY <2>1, <2>12 DEF eventVars
  <2>. QED BY <2>2, <2>3, <2>4, <2>5, <2>6, <2>7, <2>8, <2>9, <2>10, <2>11, <2>12, RelayKeeps
           DEF EventsNext
<1>. QED BY <1>1, <1>2, PTL DEF EventsSpec

\* A row marked as published was given to the bus, although the bus fails and relays
\* overlap, crash and are chosen as deadlock victims (relay_outbox_events).
THEOREM PublishedIsSent == EventsSpec => []PublishedWasSent
<1>1. EventsInv => PublishedWasSent
  BY DEF EventsInv
<1>. QED BY <1>1, EventsHold, PTL

-----------------------------------------------------------------------------
(* Wallet events: what has been heard is kept *)

\* How many of the news told a process has done with.
Handled(w) ==
  IF task[w] = NoTask THEN told - Len(inbox[w]) ELSE told - Len(inbox[w]) - 1

NewsTyped ==
  /\ told \in 0..Len(News) /\ missed \in BOOLEAN
  /\ worker \in [Processes -> {"down", "starting", "up"}]
  /\ inbox \in [Processes -> Seq(Nat)]
  /\ task \in [Processes \union Requests ->
                 [asks : Nat, account : {Nothing, "active", "frozen"},
                  phone : Phones \union {Nothing}]]
  /\ account \in [Users -> {Nothing, "active", "frozen"}]
  /\ phone \in [Users -> Phones \union {Nothing}]

\* What a process has received and not begun are the last of the news told, in order,
\* and the one it is at comes just before them.  A process that is down has nothing.
InOrder ==
  \A w \in Processes :
    /\ Len(inbox[w]) <= told
    /\ \A i \in 1..Len(inbox[w]) : inbox[w][i] = told - Len(inbox[w]) + i
    /\ task[w] # NoTask => task[w].asks = told - Len(inbox[w]) /\ task[w].asks >= 1
    /\ worker[w] = "down" => inbox[w] = <<>> /\ task[w] = NoTask

\* Each phone was told of its user, and with the news that give one.
PhonesTold ==
  \A u \in Users :
    phone[u] # Nothing =>
      /\ \E m \in PhoneNews(u) : News[m].phone = phone[u]
      /\ \E m \in 1..told : News[m].user = u /\ News[m].phone = phone[u]

\* A request that is at work asks for a phone that was told.
AsksTold ==
  \A r \in Requests :
    task[r] # NoTask /\ Ask[r].phone # Nothing =>
      \E m \in 1..told : News[m].user = Ask[r].user /\ News[m].phone = Ask[r].phone

\* A user with a phone has an account.
PhoneHasAccount == \A u \in Users : phone[u] # Nothing => account[u] # Nothing

\* What a transaction found is still there, perhaps changed.
FoundIsThere ==
  \A h \in Processes \union Requests :
    task[h] # NoTask =>
      /\ task[h].account # Nothing => account[Asks(h).user] # Nothing
      /\ task[h].phone # Nothing => task[h].account # Nothing /\ phone[Asks(h).user] # Nothing

\* Nobody was told to have the number of the registration n before it.
Fresh(n) ==
  /\ Registers(n)
  /\ \A m \in 1..n :
       News[m].phone = News[n].phone => News[m].phone = Nothing \/ News[m].user = News[n].user

\* The first process to be done with the registration n has left an account, and who has
\* its number later has it from a process that was done with n.
FirstHeard ==
  \A n \in 1..told :
    Fresh(n) /\ account[News[n].user] = Nothing =>
      /\ \A w \in Processes : worker[w] # "down" => Handled(w) < n
      /\ \E w \in Processes : Handled(w) < n
      /\ \A v \in Users : v # News[n].user /\ phone[v] # Nothing => phone[v] # News[n].phone

\* The process w has the news n before it, unread.
Awaits(w, n) == told - Len(inbox[w]) < n

\* The process w is at the news n, and what it found is what is there.
Renews(w, n) ==
  /\ task[w] # NoTask /\ task[w].asks = n
  /\ task[w].phone = phone[News[n].user]
  /\ Creates(w) => account[News[n].user] = Nothing

\* Once nobody is behind the last phone told of a user, he has it, or a process that is
\* not misled will give it to him.
LastHeard ==
  \A u \in Users :
    /\ PhoneNews(u) # {} /\ Last(u) <= told
    /\ \A w \in Processes : Handled(w) >= Last(u) - 1
    => phone[u] = Latest(u) \/ \E w \in Processes : Awaits(w, Last(u)) \/ Renews(w, Last(u))

\* The process w is at the suspension n, and found an account to freeze.
Freezes(w, n) == task[w] # NoTask /\ task[w].asks = n /\ task[w].account # Nothing

\* Once nobody is behind a user's registration, a suspension told has frozen the account,
\* or a process will.
SuspensionHeard ==
  \A n, s \in 1..told :
    /\ Registers(n) /\ News[s].user = News[n].user /\ News[s].kind = "suspended"
    /\ \A w \in Processes : Handled(w) >= n
    => account[News[n].user] = "frozen" \/ \E w \in Processes : Awaits(w, s) \/ Freezes(w, s)

KeptInv == ~missed =>
  PhoneHasAccount /\ FoundIsThere /\ FirstHeard /\ LastHeard /\ SuspensionHeard

NewsInv ==
  NewsTyped /\ InOrder /\ (OrderlyNews => PhonesTold /\ AsksTold /\ KeptInv)

\* The last of a user's news that give a phone is one of them.
LEMMA LastIsLast ==
  ASSUME NEW u, PhoneNews(u) # {}
  PROVE  Last(u) \in PhoneNews(u) /\ \A m \in PhoneNews(u) : m <= Last(u)
<1>. DEFINE S == {Len(News) - m : m \in PhoneNews(u)}
<1>1. PhoneNews(u) \subseteq 1..Len(News) /\ Len(News) \in Nat
  BY WalletEventsAssumption DEF PhoneNews, Told
<1>2. S \in SUBSET Nat /\ S # {}
  BY <1>1
<1>3. \E x \in S : \A y \in S : ~ (<<y, x>> \in OpToRel(<, Nat))
  BY <1>2, WFMin, NatLessThanWellFounded
<1>4. PICK x \in S : \A y \in S : ~ (y < x)
  BY <1>2, <1>3 DEF OpToRel
<1>5. PICK n \in PhoneNews(u) : x = Len(News) - n
  OBVIOUS
<1>6. \A m \in PhoneNews(u) : ~ (Len(News) - m < Len(News) - n)
  BY <1>4, <1>5
<1>7. \A m \in PhoneNews(u) : m <= n
  BY <1>1, <1>6
<1>. HIDE DEF S
<1>. QED BY <1>7 DEF Last

\* What is known of the news that give a phone.
LEMMA PhoneNewsAre ==
  ASSUME NEW u, NEW m \in PhoneNews(u)
  PROVE  /\ m \in 1..Len(News) /\ News[m].user = u /\ News[m].phone # Nothing
         /\ News[m].kind \in {"registered", "updated"}
BY WalletEventsAssumption DEF PhoneNews, Told

\* A registration is of a number that nobody was told to have, or of its user's last.
LEMMA FreshOrLast ==
  ASSUME OrderlyNews, NEW n \in DOMAIN News, Registers(n)
  PROVE  Fresh(n) \/ (n \in PhoneNews(News[n].user) /\ n = Last(News[n].user))
<1>. SUFFICES ASSUME ~Fresh(n)
              PROVE  n \in PhoneNews(News[n].user) /\ n = Last(News[n].user)
  OBVIOUS
<1>1. News[n].phone # Nothing
  BY DEF Fresh
<1>2. n \in PhoneNews(News[n].user)
  BY <1>1 DEF PhoneNews, Told, Registers
<1>. QED BY <1>2 DEF OrderlyNews, FirstPhonesAreFree, Fresh

\* The registration of the user that some news is about.
LEMMA Registration ==
  ASSUME OrderlyNews, NEW m \in DOMAIN News
  PROVE  \E n \in 1..m : /\ n \in DOMAIN News /\ Registers(n)
                         /\ News[n].user = News[m].user /\ News[n].kind = "registered"
                         /\ News[m].kind = "registered" => m = n
BY WalletEventsAssumption DEF OrderlyNews, RegisteredFirst, Registers

\* How far a process has come.
LEMMA HandledIs ==
  ASSUME NewsTyped, InOrder, NEW w \in Processes
  PROVE  /\ told \in Nat /\ Handled(w) \in 0..told /\ Len(inbox[w]) \in 0..told
         /\ task[w] = NoTask => Handled(w) = told - Len(inbox[w])
         /\ task[w] # NoTask => /\ task[w].asks \in 1..told /\ Handled(w) = task[w].asks - 1
                                /\ task[w].asks = told - Len(inbox[w])
                                /\ worker[w] # "down"
         /\ worker[w] = "down" => Handled(w) = told
<1>1. told \in Nat /\ Len(inbox[w]) \in Nat /\ Len(inbox[w]) <= told
  BY WalletEventsAssumption DEF NewsTyped, InOrder
<1>4. worker[w] = "down" => Len(inbox[w]) = 0 /\ task[w] = NoTask
  BY DEF InOrder
<1>2. CASE task[w] = NoTask
  BY <1>1, <1>2, <1>4 DEF Handled
<1>3. CASE task[w] # NoTask
  <2>1. task[w].asks = told - Len(inbox[w]) /\ task[w].asks >= 1 /\ worker[w] # "down"
    BY <1>3 DEF InOrder
  <2>. QED BY <1>1, <1>3, <2>1 DEF Handled
<1>. QED BY <1>2, <1>3

\* What a transaction is about.
LEMMA AsksAre ==
  ASSUME NewsTyped, InOrder, NEW h \in Processes \union Requests, task[h] # NoTask
  PROVE  /\ Asks(h).user \in Users
         /\ h \in Processes => /\ task[h].asks \in 1..told /\ task[h].asks \in DOMAIN News
                               /\ Asks(h) = News[task[h].asks]
         /\ h \in Requests => h \notin Processes /\ Asks(h) = Ask[h] /\ Asks(h).kind = "registered"
<1>1. CASE h \in Processes
  <2>1. task[h].asks \in 1..told /\ told \in 0..Len(News) /\ Len(News) \in Nat
    BY <1>1, HandledIs, WalletEventsAssumption DEF NewsTyped
  <2>2. task[h].asks \in DOMAIN News
    BY <2>1, WalletEventsAssumption
  <2>. QED BY <1>1, <2>1, <2>2, WalletEventsAssumption DEF Asks, Users
<1>2. CASE h \in Requests /\ h \notin Processes
  BY <1>2, WalletEventsAssumption DEF Asks, Users
<1>. QED BY <1>1, <1>2, WalletEventsAssumption

\* A commit changes the rows of one user only, and never takes them away.
LEMMA FinishDoes ==
  ASSUME NewsTyped, InOrder, NEW h \in Processes \union Requests, Finish(h),
         NEW u, u = Asks(h).user
  PROVE  /\ u \in Users /\ task[h] # NoTask
         /\ task' = [task EXCEPT ![h] = NoTask]
         /\ UNCHANGED <<worker, told, inbox, missed>>
         /\ \A v \in Users \ {u} : account'[v] = account[v] /\ phone'[v] = phone[v]
         /\ Refused(h) => account'[u] = account[u] /\ phone'[u] = phone[u]
         /\ ~Refused(h) => /\ account'[u] = StatusAfter(h)
                           /\ phone'[u] = IF WritesPhone(h) THEN Asks(h).phone ELSE phone[u]
         /\ account[u] # Nothing => account'[u] # Nothing
         /\ account[u] = "frozen" => account'[u] = "frozen"
         /\ phone'[u] = phone[u] \/ (~Refused(h) /\ WritesPhone(h) /\ phone'[u] = Asks(h).phone)
         /\ phone[u] # Nothing => phone'[u] # Nothing
         /\ account' \in [Users -> {Nothing, "active", "frozen"}]
         /\ phone' \in [Users -> Phones \union {Nothing}]
<1>1. u \in Users /\ task[h] # NoTask
  BY AsksAre DEF Finish
<1>2. task' = [task EXCEPT ![h] = NoTask] /\ UNCHANGED <<worker, told, inbox, missed>>
  BY DEF Finish
<1>3. account \in [Users -> {Nothing, "active", "frozen"}] /\ phone \in [Users -> Phones \union {Nothing}]
  BY DEF NewsTyped
<1>4. /\ Refused(h) => UNCHANGED <<account, phone>>
      /\ ~Refused(h) =>
           /\ account' = [account EXCEPT ![u] = StatusAfter(h)]
           /\ phone' = IF WritesPhone(h) THEN [phone EXCEPT ![u] = Asks(h).phone] ELSE phone
  BY DEF Finish
<1>5. /\ StatusAfter(h) \in {Nothing, "active", "frozen"}
      /\ ~Refused(h) /\ account[u] # Nothing => StatusAfter(h) # Nothing
      /\ ~Refused(h) /\ account[u] = "frozen" => StatusAfter(h) = "frozen"
  BY <1>1, <1>3 DEF StatusAfter, Refused, Nothing
<1>6. WritesPhone(h) => Asks(h).phone # Nothing /\ Asks(h).phone \in Phones
  <2>1. CASE h \in Processes
    BY <1>1, <2>1, AsksAre DEF WritesPhone, Indexes, Phones
  <2>2. CASE h \in Requests
    BY <1>1, <2>2, AsksAre DEF WritesPhone, Indexes, Phones
  <2>. QED BY <2>1, <2>2
<1>. QED BY <1>1, <1>2, <1>3, <1>4, <1>5, <1>6

\* A commit by a process takes it one further; the others are where they were.
LEMMA FinishMoves ==
  ASSUME NewsTyped, InOrder, NEW h \in Processes \union Requests, Finish(h), NEW w \in Processes
  PROVE  Handled(w)' = IF w = h THEN task[h].asks ELSE Handled(w)
<1>1. /\ task' = [task EXCEPT ![h] = NoTask] /\ UNCHANGED <<told, inbox>> /\ task[h] # NoTask
      /\ task \in [Processes \union Requests ->
                     [asks : Nat, account : {Nothing, "active", "frozen"},
                      phone : Phones \union {Nothing}]]
  BY DEF Finish, NewsTyped
<1>2. CASE w = h
  BY <1>1, <1>2, HandledIs DEF Handled
<1>3. CASE w # h
  BY <1>1, <1>3 DEF Handled
<1>. QED BY <1>2, <1>3

\* An update comes after its user's registration has left an account.
LEMMA UpdatesHaveAccount ==
  ASSUME OrderlyNews, NewsInv, ~missed, NEW h \in Processes, task[h] # NoTask,
         Asks(h).kind = "updated", Indexes(h)
  PROVE  account[Asks(h).user] # Nothing
<1>. DEFINE m == task[h].asks
            u == News[m].user
<1>1. /\ m \in 1..told /\ m \in DOMAIN News /\ Asks(h) = News[m] /\ worker[h] # "down"
      /\ Handled(h) = m - 1 /\ told \in Nat
  BY AsksAre, HandledIs DEF NewsInv
<1>2. PICK n \in 1..m : n \in DOMAIN News /\ Registers(n) /\ News[n].user = u /\ News[n].kind = "registered"
  BY <1>1, Registration
<1>3. n \in 1..told /\ n <= m - 1
  BY <1>1, <1>2
<1>4. CASE Fresh(n)
  <2>1. account[u] = Nothing => Handled(h) < n
    BY <1>1, <1>2, <1>3, <1>4 DEF NewsInv, KeptInv, FirstHeard
  <2>. QED BY <1>1, <1>3, <2>1
<1>5. CASE n = Last(u) /\ n \in PhoneNews(u)
  <2>1. m \in PhoneNews(u)
    BY <1>1 DEF PhoneNews, Told, Indexes
  <2>2. m <= n
    BY <1>5, <2>1, LastIsLast
  <2>. QED BY <1>1, <1>3, <2>2
<1>. QED BY <1>2, <1>4, <1>5, FreshOrLast

\* A commit gives no phone to a user who has no account.
LEMMA FinishKeepsAccounts ==
  ASSUME OrderlyNews, NewsInv, ~missed, NEW h \in Processes \union Requests, Finish(h)
  PROVE  PhoneHasAccount' /\ FoundIsThere'
<1>. DEFINE u == Asks(h).user
<1>i. NewsTyped /\ InOrder /\ PhoneHasAccount /\ FoundIsThere
  BY DEF NewsInv, KeptInv
<1>1. /\ u \in Users /\ task[h] # NoTask
      /\ task' = [task EXCEPT ![h] = NoTask]
      /\ UNCHANGED <<worker, told, inbox, missed>>
      /\ \A v \in Users \ {u} : account'[v] = account[v] /\ phone'[v] = phone[v]
      /\ ~Refused(h) => account'[u] = StatusAfter(h)
      /\ account[u] # Nothing => account'[u] # Nothing
      /\ phone'[u] = phone[u] \/ (~Refused(h) /\ WritesPhone(h) /\ phone'[u] = Asks(h).phone)
      /\ phone[u] # Nothing => phone'[u] # Nothing
  BY <1>i, FinishDoes
<1>2. ASSUME ~Refused(h), WritesPhone(h)
      PROVE  account'[u] # Nothing
  <2>1. Indexes(h) /\ Asks(h).kind # "suspended"
    BY <1>2 DEF WritesPhone, Indexes
  <2>2. Asks(h).kind \in {"registered", "updated"} /\ (Asks(h).kind = "updated" => h \in Processes)
    BY <1>1, <1>i, <2>1, AsksAre, WalletEventsAssumption
  <2>3. CASE Asks(h).kind = "updated"
    BY <1>1, <2>1, <2>2, <2>3, UpdatesHaveAccount
  <2>4. CASE Creates(h)
    BY <1>1, <1>2, <2>4 DEF StatusAfter, Nothing
  <2>5. CASE Asks(h).kind = "registered" /\ task[h].account # Nothing
    BY <1>1, <1>i, <2>5 DEF FoundIsThere
  <2>. QED BY <2>2, <2>3, <2>4, <2>5 DEF Creates
<1>3. \A v \in Users : /\ phone'[v] # Nothing => account'[v] # Nothing
                       /\ phone[v] # Nothing => phone'[v] # Nothing
                       /\ account[v] # Nothing => account'[v] # Nothing
  BY <1>1, <1>2, <1>i DEF PhoneHasAccount
<1>4. ASSUME NEW g \in Processes \union Requests, task'[g] # NoTask
      PROVE  /\ g # h /\ task'[g] = task[g] /\ Asks(g)' = Asks(g) /\ Asks(g).user \in Users
             /\ task[g].account # Nothing => account[Asks(g).user] # Nothing
             /\ task[g].phone # Nothing => task[g].account # Nothing /\ phone[Asks(g).user] # Nothing
  <2>1. g # h /\ task'[g] = task[g]
    BY <1>1, <1>4, <1>i DEF NewsTyped
  <2>2. Asks(g)' = Asks(g)
    BY <2>1 DEF Asks
  <2>. QED BY <1>4, <1>i, <2>1, <2>2, AsksAre DEF FoundIsThere
<1>5. PhoneHasAccount'
  BY <1>3 DEF PhoneHasAccount
<1>6. FoundIsThere'
  BY <1>3, <1>4 DEF FoundIsThere
<1>. QED BY <1>5, <1>6

\* News told are news.
LEMMA ToldAreNews ==
  ASSUME NewsTyped, NEW n \in 1..told
  PROVE  n \in DOMAIN News /\ News[n].user \in Users /\ told \in Nat /\ n \in Nat /\ n >= 1
<1>1. told \in 0..Len(News) /\ Len(News) \in Nat /\ DOMAIN News = 1..Len(News)
  BY WalletEventsAssumption DEF NewsTyped
<1>2. n \in DOMAIN News /\ told \in Nat /\ n \in Nat /\ n >= 1
  BY <1>1
<1>. QED BY <1>2 DEF Users

\* A commit leaves what is to be handled as it was.
LEMMA FinishKeepsOrder ==
  ASSUME NewsTyped, InOrder, NEW h \in Processes \union Requests, Finish(h)
  PROVE  NewsTyped' /\ InOrder'
<1>1. /\ task' = [task EXCEPT ![h] = NoTask]
      /\ UNCHANGED <<worker, told, inbox, missed>>
      /\ account' \in [Users -> {Nothing, "active", "frozen"}]
      /\ phone' \in [Users -> Phones \union {Nothing}]
  BY FinishDoes
<1>2. NewsTyped'
  BY <1>1 DEF NewsTyped, NoTask
<1>3. InOrder'
  BY <1>1 DEF NewsTyped, InOrder
<1>. QED BY <1>2, <1>3

\* Who gets a phone by a commit was told of it.
LEMMA FinishKeepsPhonesTold ==
  ASSUME OrderlyNews, NewsInv, NEW h \in Processes \union Requests, Finish(h)
  PROVE  PhonesTold' /\ AsksTold'
<1>. DEFINE u == Asks(h).user
<1>i. NewsTyped /\ InOrder
  BY DEF NewsInv
<1>1. /\ u \in Users /\ task[h] # NoTask
      /\ task' = [task EXCEPT ![h] = NoTask]
      /\ UNCHANGED told
      /\ \A v \in Users \ {u} : phone'[v] = phone[v]
      /\ phone'[u] = phone[u] \/ (WritesPhone(h) /\ phone'[u] = Asks(h).phone)
  BY <1>i, FinishDoes
<1>2. AsksTold'
  BY <1>1, <1>i DEF NewsInv, NewsTyped, AsksTold
<1>3. ASSUME WritesPhone(h)
      PROVE  /\ \E m \in PhoneNews(u) : News[m].phone = Asks(h).phone
             /\ \E m \in 1..told : News[m].user = u /\ News[m].phone = Asks(h).phone
  <2>1. Asks(h).kind # "suspended" /\ Asks(h).phone # Nothing
    BY <1>3 DEF WritesPhone, Indexes
  <2>2. CASE h \in Processes
    <3>1. task[h].asks \in 1..told /\ task[h].asks \in DOMAIN News /\ Asks(h) = News[task[h].asks]
      BY <1>1, <1>i, <2>2, AsksAre
    <3>2. task[h].asks \in PhoneNews(u)
      BY <2>1, <3>1, WalletEventsAssumption DEF PhoneNews, Told
    <3>. QED BY <3>1, <3>2
  <2>3. CASE h \in Requests
    <3>1. Asks(h) = Ask[h]
      BY <1>1, <1>i, <2>3, AsksAre
    <3>2. PhoneNews(u) # {} /\ Ask[h].phone = Latest(u)
      BY <2>1, <2>3, <3>1 DEF OrderlyNews, AsksAreCurrent
    <3>3. Last(u) \in PhoneNews(u) /\ News[Last(u)].phone = Asks(h).phone
      BY <3>1, <3>2, LastIsLast DEF Latest
    <3>4. \E m \in 1..told : News[m].user = Ask[h].user /\ News[m].phone = Ask[h].phone
      BY <1>1, <2>1, <2>3, <3>1 DEF NewsInv, AsksTold
    <3>. QED BY <3>1, <3>3, <3>4
  <2>. QED BY <2>2, <2>3
<1>4. PhonesTold'
  BY <1>1, <1>3 DEF NewsInv, PhonesTold
<1>. QED BY <1>2, <1>4

\* The first process to be done with a fresh registration leaves an account.
LEMMA FirstLeavesAccount ==
  ASSUME OrderlyNews, NewsInv, ~missed, NEW h \in Processes, Finish(h),
         NEW n \in 1..told, Fresh(n), task[h].asks = n
  PROVE  account'[News[n].user] # Nothing
<1>. DEFINE u == News[n].user
<1>i. NewsTyped /\ InOrder /\ task[h] # NoTask
  BY DEF NewsInv, Finish
<1>a. Asks(h) = News[n]
  BY <1>i, AsksAre
<1>1. /\ Asks(h) = News[n] /\ u \in Users /\ task[h] # NoTask
      /\ ~Refused(h) => account'[u] = StatusAfter(h)
      /\ account[u] # Nothing => account'[u] # Nothing
  BY <1>a, <1>i, FinishDoes
<1>. SUFFICES ASSUME account[u] = Nothing PROVE account'[u] # Nothing
  BY <1>1
<1>2. Asks(h).kind = "registered"
  BY <1>1 DEF Fresh, Registers
<1>3. Creates(h)
  BY <1>1, <1>2 DEF NewsInv, KeptInv, FoundIsThere, Creates
<1>4. phone[u] = Nothing
  BY <1>1 DEF NewsInv, KeptInv, PhoneHasAccount
<1>5. \A v \in Users : v # u /\ phone[v] # Nothing => phone[v] # News[n].phone
  BY DEF NewsInv, KeptInv, FirstHeard
<1>6. ~Refused(h)
  BY <1>1, <1>4, <1>5 DEF Refused, WritesPhone, Indexes
<1>. QED BY <1>1, <1>3, <1>6 DEF StatusAfter, Nothing

\* The first to be done with a fresh registration leaves an account behind: nobody
\* yet has its number.
LEMMA FinishKeepsFirstHeard ==
  ASSUME OrderlyNews, NewsInv, ~missed, NEW h \in Processes \union Requests, Finish(h)
  PROVE  FirstHeard'
<1>. DEFINE u == Asks(h).user
<1>i. NewsTyped /\ InOrder /\ FirstHeard
  BY DEF NewsInv, KeptInv
<1>1. /\ u \in Users /\ task[h] # NoTask /\ UNCHANGED <<worker, told, inbox, missed>>
      /\ \A v \in Users \ {u} : account'[v] = account[v] /\ phone'[v] = phone[v]
      /\ account[u] # Nothing => account'[u] # Nothing
      /\ phone'[u] = phone[u] \/ (WritesPhone(h) /\ phone'[u] = Asks(h).phone)
  BY <1>i, FinishDoes
<1>. SUFFICES ASSUME NEW n \in 1..told, Fresh(n), account'[News[n].user] = Nothing
              PROVE  /\ \A w \in Processes : worker[w] # "down" => Handled(w)' < n
                     /\ \E w \in Processes : Handled(w)' < n
                     /\ \A v \in Users : v # News[n].user /\ phone'[v] # Nothing
                                           => phone'[v] # News[n].phone
  BY <1>1 DEF FirstHeard
<1>2. n \in DOMAIN News /\ News[n].user \in Users /\ told \in Nat
  BY <1>i, ToldAreNews
<1>3. account[News[n].user] = Nothing
  BY <1>1, <1>2
<1>4. /\ \A w \in Processes : worker[w] # "down" => Handled(w) < n
      /\ \E w \in Processes : Handled(w) < n
      /\ \A v \in Users : v # News[n].user /\ phone[v] # Nothing => phone[v] # News[n].phone
  BY <1>3, <1>i DEF FirstHeard
<1>5. h \in Processes => task[h].asks \in 1..told /\ task[h].asks < n
  <2>. SUFFICES ASSUME h \in Processes PROVE task[h].asks \in 1..told /\ task[h].asks < n
    OBVIOUS
  <2>1. task[h].asks \in 1..told /\ Handled(h) = task[h].asks - 1 /\ worker[h] # "down"
    BY <1>1, <1>i, HandledIs
  <2>2. task[h].asks # n
    BY FirstLeavesAccount
  <2>. QED BY <1>2, <1>4, <2>1, <2>2
<1>6. \A w \in Processes : Handled(w)' = IF w = h THEN task[h].asks ELSE Handled(w)
  BY <1>i, FinishMoves
<1>7. ASSUME NEW v \in Users, v # News[n].user, phone'[v] # Nothing, phone'[v] = News[n].phone
      PROVE  FALSE
  <2>1. v = u /\ WritesPhone(h) /\ Asks(h).phone = News[n].phone /\ Asks(h).phone # Nothing
    BY <1>1, <1>4, <1>7
  <2>2. CASE h \in Processes
    BY <1>1, <1>2, <1>5, <1>7, <1>i, <2>1, <2>2, AsksAre DEF Fresh
  <2>3. CASE h \in Requests
    <3>1. Asks(h) = Ask[h]
      BY <1>1, <1>i, <2>3, AsksAre
    <3>2. News[n].user = Ask[h].user
      BY <1>2, <2>1, <2>3, <3>1 DEF OrderlyNews, AsksAreCurrent, Fresh, Registers
    <3>. QED BY <1>7, <2>1, <3>1, <3>2
  <2>. QED BY <2>2, <2>3
<1>. QED BY <1>4, <1>5, <1>6, <1>7

\* A commit freezes the account, where it was a suspension's and found one.
LEMMA FinishKeepsSuspensions ==
  ASSUME OrderlyNews, NewsInv, ~missed, NEW h \in Processes \union Requests, Finish(h)
  PROVE  SuspensionHeard'
<1>. DEFINE u == Asks(h).user
<1>i. NewsTyped /\ InOrder /\ SuspensionHeard
  BY DEF NewsInv, KeptInv
<1>1. /\ u \in Users /\ task[h] # NoTask /\ UNCHANGED <<worker, told, inbox, missed>>
      /\ task' = [task EXCEPT ![h] = NoTask]
      /\ \A v \in Users \ {u} : account'[v] = account[v]
      /\ account[u] = "frozen" => account'[u] = "frozen"
      /\ ~Refused(h) => account'[u] = StatusAfter(h)
  BY <1>i, FinishDoes
<1>. SUFFICES ASSUME NEW n \in 1..told, NEW s \in 1..told,
                     Registers(n), News[s].user = News[n].user, News[s].kind = "suspended",
                     \A w \in Processes : Handled(w)' >= n
              PROVE  \/ account'[News[n].user] = "frozen"
                     \/ \E w \in Processes : Awaits(w, s)' \/ Freezes(w, s)'
  BY <1>1 DEF SuspensionHeard
<1>2. n \in DOMAIN News /\ s \in DOMAIN News /\ News[n].user \in Users /\ told \in Nat
  BY <1>i, ToldAreNews
<1>3. \A w \in Processes : Handled(w)' = IF w = h THEN task[h].asks ELSE Handled(w)
  BY <1>i, FinishMoves
<1>4. \A w \in Processes : Awaits(w, s)' = Awaits(w, s)
  BY <1>1 DEF Awaits
<1>5. CASE \A w \in Processes : Handled(w) >= n
  <2>1. \/ account[News[n].user] = "frozen"
        \/ \E w \in Processes : Awaits(w, s) \/ Freezes(w, s)
    BY <1>5, <1>i DEF SuspensionHeard
  <2>2. CASE account[News[n].user] = "frozen"
    BY <1>1, <1>2, <2>2
  <2>3. CASE \E w \in Processes : Awaits(w, s)
    BY <1>4, <2>3
  <2>4. ASSUME NEW w \in Processes, Freezes(w, s), w # h
        PROVE  Freezes(w, s)'
    BY <1>1, <1>i, <2>4 DEF Freezes, NewsTyped
  <2>5. ASSUME h \in Processes, Freezes(h, s)
        PROVE  account'[News[n].user] = "frozen"
    <3>1. Asks(h) = News[s] /\ task[h].account # Nothing
      BY <1>1, <1>i, <2>5, AsksAre DEF Freezes
    <3>2. ~Creates(h) /\ ~Indexes(h) /\ ~WritesPhone(h)
      BY <3>1 DEF Creates, Indexes, WritesPhone
    <3>3. ~Refused(h) /\ StatusAfter(h) = "frozen"
      BY <3>1, <3>2 DEF Refused, StatusAfter
    <3>. QED BY <1>1, <3>1, <3>3
  <2>. QED BY <2>1, <2>2, <2>3, <2>4, <2>5
<1>6. CASE \E w \in Processes : ~ (Handled(w) >= n)
  <2>1. h \in Processes /\ ~ (Handled(h) >= n)
    BY <1>3, <1>6
  <2>2. /\ task[h].asks \in 1..told /\ Handled(h) = task[h].asks - 1
        /\ task[h].asks = told - Len(inbox[h])
    BY <1>1, <1>i, <2>1, HandledIs
  <2>3. task[h].asks = n
    BY <1>2, <1>3, <2>1, <2>2
  <2>4. n < s
    <3>1. n <= s /\ News[n].kind = "registered"
      BY <1>2 DEF Registers
    <3>. QED BY <3>1
  <2>5. Awaits(h, s)
    BY <2>2, <2>3, <2>4 DEF Awaits
  <2>. QED BY <1>4, <2>1, <2>5
<1>. QED BY <1>5, <1>6

\* Once nobody is behind the number a user ends with, nobody else has it.
LEMMA LastIsFree ==
  ASSUME OrderlyNews, NewsInv, ~missed, NEW u \in Users, PhoneNews(u) # {}, Last(u) <= told,
         \A w \in Processes : Handled(w) >= Last(u) - 1,
         NEW v \in Users \ {u}
  PROVE  phone[v] # Latest(u)
<1>. SUFFICES ASSUME phone[v] = Latest(u) PROVE FALSE
  OBVIOUS
<1>i. NewsTyped /\ InOrder /\ LastHeard
  BY DEF NewsInv, KeptInv
<1>1. Last(u) \in PhoneNews(u) /\ Latest(u) # Nothing /\ Last(u) \in Nat /\ told \in Nat
  BY <1>i, LastIsLast, PhoneNewsAre, WalletEventsAssumption DEF Latest, NewsTyped
<1>2. PICK m \in PhoneNews(v) : News[m].phone = Latest(u)
  BY <1>1 DEF NewsInv, PhonesTold
<1>3. Last(v) < Last(u)
  BY <1>1, <1>2 DEF OrderlyNews, LastPhonesAreFree
<1>4. Last(v) \in PhoneNews(v) /\ Last(v) \in Nat
  BY <1>2, LastIsLast, PhoneNewsAre
<1>5. Last(v) <= told /\ \A w \in Processes : Handled(w) >= Last(v)
  <2>1. \A w \in Processes : Handled(w) \in 0..told
    BY <1>i, HandledIs
  <2>. QED BY <1>1, <1>3, <1>4, <2>1
<1>6. phone[v] = Latest(v) \/ \E w \in Processes : Awaits(w, Last(v)) \/ Renews(w, Last(v))
  <2>1. \A w \in Processes : Handled(w) >= Last(v) - 1
    BY <1>4, <1>5, <1>i, HandledIs
  <2>. QED BY <1>2, <1>5, <1>i, <2>1 DEF LastHeard
<1>7. ASSUME NEW w \in Processes, Awaits(w, Last(v)) \/ Renews(w, Last(v))
      PROVE  FALSE
  <2>1. Handled(w) >= Last(v)
    BY <1>5
  <2>2. CASE task[w] = NoTask
    BY <1>4, <1>7, <1>i, <2>1, <2>2, HandledIs DEF Awaits, Renews
  <2>3. CASE task[w] # NoTask
    BY <1>4, <1>7, <1>i, <2>1, <2>3, HandledIs DEF Awaits, Renews
  <2>. QED BY <2>2, <2>3
<1>8. Latest(u) = Latest(v)
  BY <1>6, <1>7
<1>9. Last(u) < Last(v)
  BY <1>1, <1>2, <1>4, <1>8 DEF OrderlyNews, LastPhonesAreFree, Latest
<1>. QED BY <1>1, <1>3, <1>4, <1>9

\* A process at the last number of a user gives it to him, or leaves things to another.
LEMMA LastIsGiven ==
  ASSUME OrderlyNews, NewsInv, ~missed, NEW h \in Processes, Finish(h),
         NEW u \in Users, PhoneNews(u) # {}, Last(u) <= told,
         \A w \in Processes : Handled(w) >= Last(u) - 1,
         task[h].asks = Last(u)
  PROVE  phone'[u] = Latest(u) \/ \E w \in Processes : Awaits(w, Last(u))' \/ Renews(w, Last(u))'
<1>. DEFINE l == Last(u)
<1>i. NewsTyped /\ InOrder /\ LastHeard /\ FoundIsThere
  BY DEF NewsInv, KeptInv
<1>1. l \in PhoneNews(u) /\ News[l].user = u /\ News[l].phone = Latest(u) /\ Latest(u) # Nothing
      /\ News[l].kind \in {"registered", "updated"} /\ l \in Nat
  BY LastIsLast, PhoneNewsAre DEF Latest
<1>2. Asks(h) = News[l] /\ task[h] # NoTask
  BY <1>i, AsksAre DEF Finish
<1>3. /\ task' = [task EXCEPT ![h] = NoTask]
      /\ UNCHANGED <<worker, told, inbox, missed>>
      /\ Refused(h) => account'[u] = account[u] /\ phone'[u] = phone[u]
      /\ ~Refused(h) => /\ account'[u] = StatusAfter(h)
                        /\ phone'[u] = IF WritesPhone(h) THEN Asks(h).phone ELSE phone[u]
  BY <1>1, <1>2, <1>i, FinishDoes
<1>4. Indexes(h) /\ (WritesPhone(h) <=> task[h].phone # Latest(u))
  BY <1>1, <1>2 DEF Indexes, WritesPhone
<1>5. \A v \in Users \ {u} : phone[v] # Latest(u)
  BY LastIsFree
<1>6. phone[u] = Latest(u) \/ \E w \in Processes : Awaits(w, l) \/ Renews(w, l)
  BY <1>i DEF LastHeard
<1>7. CASE ~Refused(h) /\ WritesPhone(h)
  BY <1>1, <1>2, <1>3, <1>7
<1>8. CASE Refused(h) \/ ~WritesPhone(h)
  <2>1. account'[u] = account[u] /\ phone'[u] = phone[u]
    <3>1. CASE Refused(h)
      BY <1>3, <3>1
    <3>2. CASE ~Refused(h) /\ ~WritesPhone(h)
      <4>1. task[h].account # Nothing
        BY <1>1, <1>2, <1>4, <1>i, <3>2 DEF FoundIsThere
      <4>2. StatusAfter(h) = account[u]
        BY <1>1, <1>2, <4>1 DEF StatusAfter, Creates
      <4>. QED BY <1>3, <3>2, <4>2
    <3>. QED BY <1>8, <3>1, <3>2
  <2>2. ASSUME Renews(h, l)
        PROVE  phone[u] = Latest(u)
    <3>1. task[h].phone = phone[u] /\ (Creates(h) => account[u] = Nothing)
      BY <1>1, <2>2 DEF Renews
    <3>2. ~Refused(h)
      BY <1>1, <1>2, <1>5, <3>1 DEF Refused
    <3>. QED BY <1>4, <1>8, <3>1, <3>2
  <2>3. ASSUME NEW w \in Processes, w # h, Renews(w, l)
        PROVE  Renews(w, l)'
    <3>1. task'[w] = task[w]
      BY <1>3, <1>i, <2>3 DEF NewsTyped
    <3>2. Creates(w)' = Creates(w)
      BY <3>1 DEF Creates, Asks
    <3>. QED BY <1>1, <2>1, <2>3, <3>1, <3>2 DEF Renews
  <2>4. \A w \in Processes : Awaits(w, l) => Awaits(w, l)'
    BY <1>3 DEF Awaits
  <2>. QED BY <1>6, <2>1, <2>2, <2>3, <2>4
<1>. QED BY <1>7, <1>8

\* A commit at other news, where nobody is behind the last number of the user.
LEMMA LastIsLeft ==
  ASSUME OrderlyNews, NewsInv, ~missed, NEW h \in Processes \union Requests, Finish(h),
         NEW u \in Users, PhoneNews(u) # {}, Last(u) <= told,
         \A w \in Processes : Handled(w) >= Last(u) - 1,
         h \in Processes => task[h].asks # Last(u)
  PROVE  phone'[u] = Latest(u) \/ \E w \in Processes : Awaits(w, Last(u))' \/ Renews(w, Last(u))'
<1>. DEFINE l == Last(u)
            x == Asks(h).user
<1>i. NewsTyped /\ InOrder /\ LastHeard /\ FoundIsThere
  BY DEF NewsInv, KeptInv
<1>1. l \in PhoneNews(u) /\ News[l].user = u /\ News[l].phone = Latest(u) /\ Latest(u) # Nothing
      /\ News[l].kind \in {"registered", "updated"} /\ l \in Nat /\ l \in DOMAIN News
  BY LastIsLast, PhoneNewsAre, WalletEventsAssumption DEF Latest
<1>2. /\ task[h] # NoTask /\ task' = [task EXCEPT ![h] = NoTask]
      /\ UNCHANGED <<worker, told, inbox, missed>>
      /\ \A v \in Users \ {x} : account'[v] = account[v] /\ phone'[v] = phone[v]
      /\ account[x] # Nothing => account'[x] # Nothing
      /\ Refused(h) => account'[x] = account[x] /\ phone'[x] = phone[x]
      /\ ~Refused(h) => /\ account'[x] = StatusAfter(h)
                        /\ phone'[x] = IF WritesPhone(h) THEN Asks(h).phone ELSE phone[x]
  BY <1>i, FinishDoes
<1>3. phone[u] = Latest(u) \/ \E w \in Processes : Awaits(w, l) \/ Renews(w, l)
  BY <1>i DEF LastHeard
<1>4. \A w \in Processes : Awaits(w, l) => Awaits(w, l)'
  BY <1>2 DEF Awaits
<1>5. ASSUME NEW w \in Processes, Renews(w, l), phone'[u] = phone[u],
             Creates(w) /\ account[u] = Nothing => account'[u] = Nothing
      PROVE  Renews(w, l)'
  <2>1. w # h
    BY <1>5 DEF Renews
  <2>2. task'[w] = task[w]
    BY <1>2, <1>i, <2>1 DEF NewsTyped
  <2>3. Creates(w)' = Creates(w)
    BY <2>2 DEF Creates, Asks
  <2>. QED BY <1>1, <1>5, <2>2, <2>3 DEF Renews
<1>6. CASE x # u
  <2>1. account'[u] = account[u] /\ phone'[u] = phone[u]
    BY <1>2, <1>6
  <2>. QED BY <1>3, <1>4, <1>5, <2>1
<1>7. CASE x = u /\ h \in Processes
  <2>. DEFINE m == task[h].asks
  <2>1. m \in 1..told /\ Asks(h) = News[m] /\ Handled(h) = m - 1
    BY <1>2, <1>7, <1>i, AsksAre, HandledIs
  <2>2. m > l
    BY <1>1, <1>7, <2>1
  <2>3. m \notin PhoneNews(u) /\ m \in DOMAIN News
    BY <1>1, <1>i, <2>1, <2>2, LastIsLast, ToldAreNews
  <2>4. ~Indexes(h) /\ ~WritesPhone(h)
    BY <1>7, <2>1, <2>3, WalletEventsAssumption DEF PhoneNews, Told, Indexes, WritesPhone
  <2>5. Asks(h).kind # "registered"
    <3>. SUFFICES ASSUME News[m].kind = "registered" PROVE FALSE
      BY <2>1
    <3>1. Registers(m)
      BY <2>3, Registration
    <3>2. m <= l
      BY <1>1, <1>7, <2>1, <3>1 DEF Registers
    <3>. QED BY <1>1, <2>1, <2>2, <3>2
  <2>6. phone'[u] = phone[u]
    BY <1>2, <1>7, <2>4
  <2>7. account[u] = Nothing => account'[u] = Nothing
    <3>1. CASE Refused(h)
      BY <1>2, <1>7, <3>1
    <3>2. CASE ~Refused(h)
      <4>1. StatusAfter(h) = account[u] \/ task[h].account # Nothing
        BY <1>7, <2>5 DEF StatusAfter, Creates
      <4>. QED BY <1>2, <1>7, <1>i, <3>2, <4>1 DEF FoundIsThere
    <3>. QED BY <3>1, <3>2
  <2>. QED BY <1>3, <1>4, <1>5, <2>6, <2>7
<1>8. CASE x = u /\ h \in Requests
  <2>1. Asks(h) = Ask[h] /\ Ask[h].user = u /\ Ask[h].kind = "registered"
    BY <1>2, <1>8, <1>i, AsksAre
  <2>2. Ask[h].phone # Nothing => Ask[h].phone = Latest(u)
    BY <1>8, <2>1 DEF OrderlyNews, AsksAreCurrent
  <2>3. Ask[h].phone = Nothing => News[l].kind = "updated"
    BY <1>8, <2>1 DEF OrderlyNews, AsksAreCurrent
  <2>4. phone'[u] = phone[u] \/ phone'[u] = Latest(u)
    BY <1>2, <1>8, <2>1, <2>2 DEF WritesPhone, Indexes
  <2>5. ASSUME NEW w \in Processes, Renews(w, l), Creates(w), account[u] = Nothing,
               account'[u] # Nothing
        PROVE  phone'[u] = Latest(u)
    <3>1. Asks(w) = News[l]
      BY <1>i, <2>5, AsksAre DEF Renews
    <3>2. Ask[h].phone # Nothing
      BY <1>1, <2>3, <2>5, <3>1 DEF Creates
    <3>3. ~Refused(h) /\ task[h].account = Nothing
      BY <1>2, <1>8, <1>i, <2>5 DEF FoundIsThere
    <3>4. task[h].phone = Nothing
      BY <1>2, <1>i, <3>3 DEF FoundIsThere
    <3>5. WritesPhone(h)
      BY <2>1, <3>2, <3>4 DEF WritesPhone, Indexes
    <3>. QED BY <1>2, <1>8, <2>1, <2>2, <3>2, <3>3, <3>5
  <2>. QED BY <1>3, <1>4, <1>5, <2>4, <2>5
<1>. QED BY <1>6, <1>7, <1>8

\* Whoever ends a transaction on a user's phone has put there what its news say, and the
\* last phone told of him comes last to each process.
LEMMA FinishKeepsLastHeard ==
  ASSUME OrderlyNews, NewsInv, ~missed, NEW h \in Processes \union Requests, Finish(h)
  PROVE  LastHeard'
<1>i. NewsTyped /\ InOrder
  BY DEF NewsInv
<1>1. UNCHANGED <<told, inbox>> /\ task[h] # NoTask
  BY DEF Finish
<1>. SUFFICES ASSUME NEW u \in Users, PhoneNews(u) # {}, Last(u) <= told,
                     \A w \in Processes : Handled(w)' >= Last(u) - 1
              PROVE  \/ phone'[u] = Latest(u)
                     \/ \E w \in Processes : Awaits(w, Last(u))' \/ Renews(w, Last(u))'
  BY <1>1 DEF LastHeard
<1>2. \A w \in Processes : Handled(w)' = IF w = h THEN task[h].asks ELSE Handled(w)
  BY <1>i, FinishMoves
<1>3. CASE \A w \in Processes : Handled(w) >= Last(u) - 1
  BY <1>3, LastIsGiven, LastIsLeft
<1>4. CASE \E w \in Processes : ~ (Handled(w) >= Last(u) - 1)
  <2>1. h \in Processes /\ ~ (Handled(h) >= Last(u) - 1) /\ task[h].asks >= Last(u) - 1
    BY <1>2, <1>4
  <2>2. Last(u) \in Nat
    BY LastIsLast, PhoneNewsAre
  <2>3. /\ task[h].asks \in 1..told /\ Handled(h) = task[h].asks - 1 /\ told \in Nat
        /\ task[h].asks = told - Len(inbox[h])
    BY <1>1, <1>i, <2>1, HandledIs
  <2>4. Awaits(h, Last(u))'
    BY <1>1, <2>1, <2>2, <2>3 DEF Awaits
  <2>. QED BY <2>1, <2>4
<1>. QED BY <1>3, <1>4

\* A commit keeps the invariant.
LEMMA FinishKeepsNews ==
  ASSUME NewsInv, NEW h \in Processes \union Requests, Finish(h)
  PROVE  NewsInv'
<1>1. missed' = missed
  BY DEF Finish
<1>. QED BY <1>1, FinishKeepsOrder, FinishKeepsAccounts, FinishKeepsPhonesTold, FinishKeepsFirstHeard,
            FinishKeepsLastHeard, FinishKeepsSuspensions DEF NewsInv, KeptInv

\* What the processes' news depend on: who is down, and what is here.
Quiet ==
  /\ UNCHANGED userVars
  /\ worker' \in [Processes -> {"down", "starting", "up"}]
  /\ \A w \in Processes : worker'[w] = "down" <=> worker[w] = "down"

\* What is only about payments and relays changes nothing that was heard.
LEMMA QuietKeepsNews ==
  ASSUME NewsInv, Quiet
  PROVE  NewsInv'
<1>1. \A w \in Processes : Handled(w)' = Handled(w)
  BY DEF Quiet, userVars, Handled
<1>2. \A h : Asks(h)' = Asks(h) /\ Creates(h)' = Creates(h)
  BY DEF Quiet, userVars, Asks, Creates
<1>3. \A n : \A w \in Processes : /\ Awaits(w, n)' = Awaits(w, n) /\ Renews(w, n)' = Renews(w, n)
                                  /\ Freezes(w, n)' = Freezes(w, n)
  BY <1>2 DEF Quiet, userVars, Awaits, Renews, Freezes
<1>4. /\ NewsTyped' /\ InOrder'
      /\ PhonesTold => PhonesTold'
      /\ AsksTold => AsksTold'
  BY DEF Quiet, userVars, NewsInv, NewsTyped, InOrder, PhonesTold, AsksTold
<1>5. missed' = missed /\ (PhoneHasAccount => PhoneHasAccount') /\ (FoundIsThere => FoundIsThere')
  BY <1>2 DEF Quiet, userVars, PhoneHasAccount, FoundIsThere
<1>6. FirstHeard => FirstHeard'
  BY <1>1 DEF Quiet, userVars, FirstHeard
<1>7. LastHeard => LastHeard'
  BY <1>1, <1>3 DEF Quiet, userVars, LastHeard
<1>8. SuspensionHeard => SuspensionHeard'
  BY <1>1, <1>3 DEF Quiet, userVars, SuspensionHeard
<1>. QED BY <1>4, <1>5, <1>6, <1>7, <1>8 DEF NewsInv, KeptInv

\* A process that goes down having handled what it heard takes nothing with it.
LEMMA DownKeepsNews ==
  ASSUME NewsInv, NEW x \in Processes, Down(x)
  PROVE  NewsInv'
<1>i. NewsTyped /\ InOrder
  BY DEF NewsInv
<1>1. /\ worker' = [worker EXCEPT ![x] = "down"]
      /\ inbox' = [inbox EXCEPT ![x] = <<>>] /\ task' = [task EXCEPT ![x] = NoTask]
      /\ missed' = (missed \/ inbox[x] # <<>> \/ task[x] # NoTask)
      /\ UNCHANGED <<told, account, phone>>
  BY DEF Down
<1>2. NewsTyped'
  <2>1. <<>> \in Seq(Nat) /\ NoTask \in [asks : Nat, account : {Nothing, "active", "frozen"},
                                         phone : Phones \union {Nothing}]
    BY DEF NoTask
  <2>. HIDE DEF NoTask
  <2>. QED BY <1>1, <1>i, <2>1 DEF NewsTyped
<1>3. InOrder'
  <2>1. told \in Nat
    BY <1>i, WalletEventsAssumption DEF NewsTyped
  <2>2. ASSUME NEW w \in Processes, w # x
        PROVE  inbox'[w] = inbox[w] /\ task'[w] = task[w] /\ worker'[w] = worker[w]
    BY <1>1, <1>i, <2>2 DEF NewsTyped
  <2>3. inbox'[x] = <<>> /\ task'[x] = NoTask
    BY <1>1, <1>i DEF NewsTyped
  <2>4. Len(inbox'[x]) = 0 /\ Len(inbox'[x]) <= told
    BY <2>1, <2>3
  <2>. QED BY <1>1, <1>i, <2>2, <2>3, <2>4 DEF InOrder
<1>4. (PhonesTold => PhonesTold') /\ (AsksTold => AsksTold')
  BY <1>1, <1>i, WalletEventsAssumption DEF NewsTyped, PhonesTold, AsksTold
<1>5. ASSUME OrderlyNews, ~missed'
      PROVE  KeptInv'
  <2>1. OrderlyNews /\ ~missed /\ inbox[x] = <<>> /\ task[x] = NoTask
    BY <1>1, <1>5
  <2>2. inbox' = inbox /\ task' = task
    BY <1>1, <1>i, <2>1 DEF NewsTyped
  <2>3. \A w \in Processes : Handled(w)' = Handled(w)
    BY <1>1, <2>2 DEF Handled
  <2>4. \A h : Asks(h)' = Asks(h) /\ Creates(h)' = Creates(h)
    BY <2>2 DEF Asks, Creates
  <2>5. \A n : \A w \in Processes :
          /\ Awaits(w, n)' = Awaits(w, n) /\ Renews(w, n)' = Renews(w, n)
          /\ Freezes(w, n)' = Freezes(w, n)
    BY <1>1, <2>2, <2>4 DEF Awaits, Renews, Freezes
  <2>6. \A w \in Processes : worker'[w] # "down" => worker[w] # "down"
    BY <1>1, <1>i DEF NewsTyped
  <2>7. PhoneHasAccount' /\ FoundIsThere'
    BY <1>1, <2>1, <2>2, <2>4 DEF NewsInv, KeptInv, PhoneHasAccount, FoundIsThere
  <2>8. FirstHeard'
    BY <1>1, <2>1, <2>3, <2>6 DEF NewsInv, KeptInv, FirstHeard
  <2>9. LastHeard'
    BY <1>1, <2>1, <2>3, <2>5 DEF NewsInv, KeptInv, LastHeard
  <2>10. SuspensionHeard'
    BY <1>1, <2>1, <2>3, <2>5 DEF NewsInv, KeptInv, SuspensionHeard
  <2>. QED BY <2>7, <2>8, <2>9, <2>10 DEF KeptInv
<1>. QED BY <1>2, <1>3, <1>4, <1>5 DEF NewsInv, KeptInv

\* Where nothing has been told, there is nothing to keep.
LEMMA NothingTold ==
  ASSUME told = 0, PhoneHasAccount, FoundIsThere
  PROVE  KeptInv
<1>1. \A n : n \notin 1..told
  BY Z3
<1>2. \A u : PhoneNews(u) # {} => ~ (Last(u) <= told)
  BY LastIsLast, PhoneNewsAre
<1>. QED BY <1>1, <1>2 DEF KeptInv, FirstHeard, LastHeard, SuspensionHeard

\* A process that starts has missed what was told before.
LEMMA StartKeepsNews ==
  ASSUME NewsInv, NEW x \in Processes, Start(x)
  PROVE  NewsInv'
<1>1. /\ worker[x] = "down" /\ worker' = [worker EXCEPT ![x] = "starting"]
      /\ missed' = (missed \/ told > 0)
      /\ UNCHANGED <<told, inbox, task, account, phone>>
  BY DEF Start
<1>2. /\ NewsTyped' /\ InOrder'
      /\ PhonesTold => PhonesTold'
      /\ AsksTold => AsksTold'
  BY <1>1 DEF NewsInv, NewsTyped, InOrder, PhonesTold, AsksTold
<1>3. ASSUME OrderlyNews, ~missed'
      PROVE  KeptInv'
  <2>. told \in Nat /\ missed \in BOOLEAN
    BY WalletEventsAssumption DEF NewsInv, NewsTyped
  <2>1. OrderlyNews /\ ~missed /\ told = 0
    <3>1. ~missed /\ ~ (told > 0)
      BY <1>1, <1>3
    <3>. QED BY <1>3, <3>1
  <2>2. \A h : Asks(h)' = Asks(h)
    BY <1>1 DEF Asks
  <2>3. PhoneHasAccount' /\ FoundIsThere'
    BY <1>1, <2>1, <2>2 DEF NewsInv, KeptInv, PhoneHasAccount, FoundIsThere
  <2>4. told' = 0
    BY <1>1, <2>1
  <2>5. \A n : n \notin 1..told'
    BY <2>4
  <2>6. \A u : PhoneNews(u) # {} => ~ (Last(u) <= told')
    BY <2>4, LastIsLast, PhoneNewsAre
  <2>. QED BY <2>3, <2>5, <2>6 DEF KeptInv, FirstHeard, LastHeard, SuspensionHeard
<1>. QED BY <1>2, <1>3 DEF NewsInv, KeptInv

\* What is left before a process when one more is told.
LEMMA OneMore ==
  ASSUME NEW t \in Nat, NEW n \in 0..t
  PROVE  t - n + (n + 1) = t + 1 /\ t - n < t + 1 /\ n + 1 <= t + 1
OBVIOUS

\* News told reach whoever listens.
LEMMA TellKeepsNews ==
  ASSUME NewsInv, Tell
  PROVE  NewsInv'
<1>i. NewsTyped /\ InOrder
  BY DEF NewsInv
<1>1. /\ told' = told + 1
      /\ inbox' = [w \in Processes |->
                     IF worker[w] = "down" THEN <<>> ELSE Append(inbox[w], told + 1)]
      /\ missed' = (missed \/ \A w \in Processes : worker[w] = "down")
      /\ UNCHANGED <<worker, task, account, phone>>
  BY DEF Tell, walletVars
<1>2. told \in Nat /\ told' = told + 1 /\ told' \in 1..Len(News) /\ told' \in Nat
  <2>1. told < Len(News) /\ told' = told + 1
    BY DEF Tell
  <2>2. told \in 0..Len(News) /\ Len(News) \in Nat
    BY <1>i, WalletEventsAssumption DEF NewsTyped
  <2>. QED BY <2>1, <2>2
<1>3. ASSUME NEW w \in Processes, worker[w] # "down"
      PROVE  /\ inbox'[w] = Append(inbox[w], told + 1) /\ inbox'[w] \in Seq(Nat)
             /\ Len(inbox'[w]) = Len(inbox[w]) + 1
             /\ \A i \in 1..Len(inbox[w]) : inbox'[w][i] = inbox[w][i]
             /\ inbox'[w][Len(inbox[w]) + 1] = told + 1
             /\ Handled(w)' = Handled(w)
             /\ told' - Len(inbox'[w]) = told - Len(inbox[w])
  <2>1. inbox[w] \in Seq(Nat) /\ Len(inbox[w]) \in Nat /\ told + 1 \in Nat
    BY <1>2, <1>i, HandledIs DEF NewsTyped
  <2>2. inbox'[w] = Append(inbox[w], told + 1)
    BY <1>1, <1>3
  <2>3. /\ inbox'[w] \in Seq(Nat) /\ Len(inbox'[w]) = Len(inbox[w]) + 1
        /\ \A i \in 1..Len(inbox[w]) : inbox'[w][i] = inbox[w][i]
        /\ inbox'[w][Len(inbox[w]) + 1] = told + 1
    BY <2>1, <2>2
  <2>4. told' - Len(inbox'[w]) = told - Len(inbox[w])
    BY <1>2, <2>1, <2>3
  <2>5. Handled(w)' = Handled(w)
    BY <1>1, <2>4 DEF Handled
  <2>. QED BY <2>2, <2>3, <2>4, <2>5
<1>4. ASSUME NEW w \in Processes, worker[w] = "down"
      PROVE  inbox'[w] = <<>> /\ inbox[w] = <<>> /\ Len(inbox[w]) = 0 /\ Handled(w) = told
             /\ task[w] = NoTask
  <2>1. inbox'[w] = <<>>
    BY <1>1, <1>4
  <2>2. inbox[w] = <<>> /\ task[w] = NoTask /\ Handled(w) = told
    BY <1>4, <1>i, HandledIs DEF InOrder
  <2>3. Len(inbox[w]) = 0
    BY <2>2
  <2>. QED BY <2>1, <2>2, <2>3
<1>5. NewsTyped'
  <2>1. inbox' \in [Processes -> Seq(Nat)]
    <3>1. \A w \in Processes : inbox'[w] \in Seq(Nat)
      <4>1. <<>> \in Seq(Nat)
        OBVIOUS
      <4>. QED BY <1>3, <1>4, <4>1
    <3>. QED BY <1>1, <3>1
  <2>. QED BY <1>1, <1>2, <1>i, <2>1 DEF NewsTyped
<1>6. InOrder'
  <2>. SUFFICES ASSUME NEW w \in Processes
                PROVE  /\ Len(inbox'[w]) <= told'
                       /\ \A i \in 1..Len(inbox'[w]) : inbox'[w][i] = told' - Len(inbox'[w]) + i
                       /\ task[w] # NoTask => /\ task[w].asks = told' - Len(inbox'[w])
                                              /\ task[w].asks >= 1
                       /\ worker[w] = "down" => inbox'[w] = <<>> /\ task[w] = NoTask
    BY <1>1 DEF InOrder
  <2>1. CASE worker[w] = "down"
    <3>1. inbox'[w] = <<>> /\ task[w] = NoTask
      BY <1>4, <2>1
    <3>2. Len(inbox'[w]) = 0
      BY <3>1
    <3>. QED BY <1>2, <3>1, <3>2
  <2>2. CASE worker[w] # "down"
    <3>1. /\ Len(inbox[w]) \in 0..told
          /\ task[w] # NoTask => /\ task[w].asks = told - Len(inbox[w]) /\ task[w].asks \in 1..told
      BY <1>i, HandledIs
    <3>2. \A i \in 1..Len(inbox[w]) : inbox[w][i] = told - Len(inbox[w]) + i
      BY <1>i DEF InOrder
    <3>3. ASSUME NEW i \in 1..Len(inbox'[w])
          PROVE  inbox'[w][i] = told' - Len(inbox'[w]) + i
      <4>1. CASE i \in 1..Len(inbox[w])
        BY <1>3, <2>2, <3>2, <4>1
      <4>2. CASE i = Len(inbox[w]) + 1
        <5>1. inbox'[w][i] = told + 1
          BY <1>3, <2>2, <4>2
        <5>2. told - Len(inbox[w]) + (Len(inbox[w]) + 1) = told + 1
          BY <1>2, <3>1, OneMore
        <5>3. told' - Len(inbox'[w]) = told - Len(inbox[w])
          BY <1>3, <2>2
        <5>. QED BY <4>2, <5>1, <5>2, <5>3, Zenon
      <4>3. Len(inbox'[w]) = Len(inbox[w]) + 1
        BY <1>3, <2>2
      <4>4. i \in 1..Len(inbox[w]) \/ i = Len(inbox[w]) + 1
        BY <3>1, <4>3
      <4>. QED BY <4>1, <4>2, <4>4
    <3>4. Len(inbox'[w]) = Len(inbox[w]) + 1 /\ told' - Len(inbox'[w]) = told - Len(inbox[w])
      BY <1>3, <2>2
    <3>5. Len(inbox'[w]) <= told'
      <4>1. Len(inbox[w]) + 1 <= told + 1
        BY <1>2, <3>1, OneMore
      <4>. QED BY ONLY <1>2, <3>4, <4>1
    <3>. QED BY <2>2, <3>1, <3>3, <3>4, <3>5
  <2>. QED BY <2>1, <2>2
<1>7. ASSUME OrderlyNews
      PROVE  PhonesTold' /\ AsksTold'
  <2>1. \A m \in 1..told : m \in 1..told'
    BY <1>2
  <2>. QED BY <1>1, <1>7, <2>1 DEF NewsInv, PhonesTold, AsksTold
<1>8. ASSUME OrderlyNews, ~missed'
      PROVE  KeptInv'
  <2>1. OrderlyNews /\ ~missed
    BY <1>1, <1>8
  <2>2. PICK x \in Processes : worker[x] # "down"
    BY <1>1, <1>8
  <2>3. \A h : Asks(h)' = Asks(h) /\ Creates(h)' = Creates(h)
    BY <1>1 DEF Asks, Creates
  <2>4. PhoneHasAccount' /\ FoundIsThere'
    BY <1>1, <2>1, <2>3 DEF NewsInv, KeptInv, PhoneHasAccount, FoundIsThere
  <2>5. Handled(x)' < told' /\ \A n \in 1..told' : n <= told \/ n = told'
    <3>1. Handled(x)' = Handled(x) /\ Handled(x) \in 0..told
      BY <1>3, <1>i, <2>2, HandledIs
    <3>. QED BY <1>2, <3>1
  <2>6. \A w \in Processes : Handled(w) \in 0..told /\ Handled(w)' \in Int /\ Handled(w)' >= Handled(w)
    <3>. TAKE w \in Processes
    <3>1. Handled(w) \in 0..told
      BY <1>i, HandledIs
    <3>2. CASE worker[w] = "down"
      <4>1. inbox'[w] = <<>> /\ task'[w] = NoTask
        BY <1>1, <1>4, <3>2
      <4>2. Handled(w)' = told'
        BY <1>2, <4>1 DEF Handled
      <4>. QED BY <1>2, <3>1, <4>2
    <3>3. CASE worker[w] # "down"
      BY <1>3, <3>1, <3>3
    <3>. QED BY <3>2, <3>3
  <2>7. FirstHeard'
    <3>. SUFFICES ASSUME NEW n \in 1..told', Fresh(n), account[News[n].user] = Nothing
                  PROVE  /\ \A w \in Processes : worker[w] # "down" => Handled(w)' < n
                         /\ \E w \in Processes : Handled(w)' < n
                         /\ \A v \in Users : v # News[n].user /\ phone[v] # Nothing
                                               => phone[v] # News[n].phone
      BY <1>1 DEF FirstHeard
    <3>1. CASE n \in 1..told
      <4>1. /\ \A w \in Processes : worker[w] # "down" => Handled(w) < n
            /\ \E w \in Processes : Handled(w) < n
            /\ \A v \in Users : v # News[n].user /\ phone[v] # Nothing
                                  => phone[v] # News[n].phone
        BY <2>1, <3>1 DEF NewsInv, KeptInv, FirstHeard
      <4>2. \A w \in Processes : worker[w] # "down" => Handled(w)' < n
        BY <1>3, <4>1
      <4>. QED BY <2>2, <4>1, <4>2
    <3>2. CASE n = told'
      <4>1. \A w \in Processes : worker[w] # "down" => Handled(w)' < n
        <5>1. \A w \in Processes : worker[w] # "down" => Handled(w)' = Handled(w)
          BY <1>3
        <5>. QED BY <1>2, <2>6, <3>2, <5>1
      <4>2. ASSUME NEW v \in Users, v # News[n].user, phone[v] # Nothing, phone[v] = News[n].phone
            PROVE  FALSE
        <5>1. PICK m \in 1..told : News[m].user = v /\ News[m].phone = phone[v]
          BY <2>1, <4>2 DEF NewsInv, PhonesTold
        <5>2. m \in 1..n
          BY <1>2, <3>2
        <5>. QED BY <4>2, <5>1, <5>2 DEF Fresh
      <4>. QED BY <2>2, <4>1, <4>2
    <3>3. n \in 1..told \/ n = told'
      BY <1>2
    <3>. QED BY <3>1, <3>2, <3>3
  <2>8. ASSUME NEW w \in Processes, NEW n \in 1..told, Awaits(w, n)
        PROVE  Awaits(w, n)'
    <3>1. worker[w] # "down"
      BY <1>2, <1>4, <2>8 DEF Awaits
    <3>. QED BY <1>3, <2>8, <3>1 DEF Awaits
  <2>9. told' - Len(inbox'[x]) < told'
    <3>1. told' - Len(inbox'[x]) = told - Len(inbox[x]) /\ told' = told + 1
      BY <1>2, <1>3, <2>2
    <3>2. told - Len(inbox[x]) < told + 1
      BY <1>2, <1>i, HandledIs, OneMore
    <3>. QED BY <3>1, <3>2, Zenon
  <2>10. \A n : \A w \in Processes : /\ Renews(w, n) => Renews(w, n)'
                                     /\ Freezes(w, n) => Freezes(w, n)'
    BY <1>1, <2>3 DEF Renews, Freezes
  <2>11. LastHeard'
    <3>. SUFFICES ASSUME NEW u \in Users, PhoneNews(u) # {}, Last(u) <= told',
                         \A w \in Processes : Handled(w)' >= Last(u) - 1
                  PROVE  \/ phone[u] = Latest(u)
                         \/ \E w \in Processes : Awaits(w, Last(u))' \/ Renews(w, Last(u))'
      BY <1>1 DEF LastHeard
    <3>1. Last(u) \in Nat /\ Last(u) >= 1
      BY LastIsLast, PhoneNewsAre
    <3>2. CASE Last(u) = told'
      BY <2>2, <2>9, <3>2 DEF Awaits
    <3>3. CASE Last(u) # told'
      <4>1. Last(u) \in 1..told
        BY <1>2, <3>1, <3>3
      <4>2. ASSUME NEW w \in Processes
            PROVE  Handled(w) >= Last(u) - 1
        <5>1. CASE worker[w] = "down"
          BY <1>2, <1>4, <3>1, <4>1, <5>1
        <5>2. CASE worker[w] # "down"
          BY <1>3, <5>2
        <5>. QED BY <5>1, <5>2
      <4>3. \/ phone[u] = Latest(u)
            \/ \E w \in Processes : Awaits(w, Last(u)) \/ Renews(w, Last(u))
        BY <2>1, <4>1, <4>2 DEF NewsInv, KeptInv, LastHeard
      <4>. QED BY <2>8, <2>10, <4>1, <4>3
    <3>. QED BY <3>2, <3>3
  <2>12. SuspensionHeard'
    <3>. SUFFICES ASSUME NEW n \in 1..told', NEW s \in 1..told', Registers(n),
                         News[s].user = News[n].user, News[s].kind = "suspended",
                         \A w \in Processes : Handled(w)' >= n
                  PROVE  \/ account[News[n].user] = "frozen"
                         \/ \E w \in Processes : Awaits(w, s)' \/ Freezes(w, s)'
      BY <1>1 DEF SuspensionHeard
    <3>1. CASE s = told'
      BY <2>2, <2>9, <3>1 DEF Awaits
    <3>2. CASE s # told'
      <4>1. s \in 1..told
        BY <1>2, <3>2
      <4>2. n \in 1..told
        <5>1. n <= s /\ n \in 1..told'
          <6>1. told' \in 0..Len(News) /\ s \in DOMAIN News
            BY <1>2, WalletEventsAssumption
          <6>. QED BY <6>1 DEF Registers
        <5>. QED BY <4>1, <5>1, <1>2
      <4>3. ASSUME NEW w \in Processes
            PROVE  Handled(w) >= n
        <5>1. CASE worker[w] = "down"
          BY <1>2, <1>4, <4>2, <5>1
        <5>2. CASE worker[w] # "down"
          BY <1>3, <5>2
        <5>. QED BY <5>1, <5>2
      <4>4. \/ account[News[n].user] = "frozen"
            \/ \E w \in Processes : Awaits(w, s) \/ Freezes(w, s)
        BY <2>1, <4>1, <4>2, <4>3 DEF NewsInv, KeptInv, SuspensionHeard
      <4>. QED BY <2>8, <2>10, <4>1, <4>4
    <3>. QED BY <3>1, <3>2
  <2>. QED BY <2>4, <2>7, <2>11, <2>12 DEF KeptInv
<1>. QED BY <1>5, <1>6, <1>7, <1>8 DEF NewsInv, KeptInv

\* A registration that everyone is done with has left an account.
LEMMA AccountHeard ==
  ASSUME OrderlyNews, NewsInv, ~missed, NEW n \in 1..told, Registers(n),
         \A w \in Processes : Handled(w) >= n
  PROVE  account[News[n].user] # Nothing
<1>. DEFINE u == News[n].user
<1>i. NewsTyped /\ InOrder /\ FirstHeard /\ LastHeard /\ PhoneHasAccount
  BY DEF NewsInv, KeptInv
<1>1. n \in DOMAIN News /\ u \in Users /\ told \in Nat /\ n \in Nat
  BY <1>i, ToldAreNews
<1>2. \A w \in Processes : Handled(w) \in 0..told
  BY <1>i, HandledIs
<1>3. CASE Fresh(n)
  <2>1. account[u] = Nothing => \E w \in Processes : Handled(w) < n
    BY <1>3, <1>i DEF FirstHeard
  <2>. QED BY <1>1, <1>2, <2>1
<1>4. CASE n \in PhoneNews(u) /\ n = Last(u)
  <2>1. \/ phone[u] = Latest(u)
        \/ \E w \in Processes : Awaits(w, n) \/ Renews(w, n)
    <3>1. \A w \in Processes : Handled(w) >= Last(u) - 1
      BY <1>1, <1>2, <1>4
    <3>. QED BY <1>1, <1>4, <1>i, <3>1 DEF LastHeard
  <2>2. ASSUME NEW w \in Processes, Awaits(w, n) \/ Renews(w, n)
        PROVE  FALSE
    <3>1. CASE task[w] = NoTask
      BY <1>1, <1>i, <2>2, <3>1, HandledIs DEF Awaits, Renews
    <3>2. CASE task[w] # NoTask
      BY <1>1, <1>i, <2>2, <3>2, HandledIs DEF Awaits, Renews
    <3>. QED BY <3>1, <3>2
  <2>3. Latest(u) # Nothing
    BY <1>4, PhoneNewsAre DEF Latest
  <2>. QED BY <1>1, <1>i, <2>1, <2>2, <2>3 DEF PhoneHasAccount
<1>. QED BY <1>1, <1>3, <1>4, FreshOrLast

\* A transaction that begins takes the first of what the process has received.
LEMMA HandleMoves ==
  ASSUME NewsTyped, InOrder, NEW x \in Processes, Handle(x)
  PROVE  \E n \in 1..told :
           /\ task[x] = NoTask /\ worker[x] # "down" /\ n \in DOMAIN News
           /\ News[n].user \in Users
           /\ told - Len(inbox[x]) = n - 1 /\ told - Len(inbox'[x]) = n
           /\ task' = [task EXCEPT ![x] = [asks |-> n, account |-> account[News[n].user],
                                           phone |-> phone[News[n].user]]]
           /\ task'[x].asks = n /\ task'[x] # NoTask
           /\ inbox' = [inbox EXCEPT ![x] = Tail(@)] /\ inbox'[x] \in Seq(Nat)
           /\ Len(inbox'[x]) <= told
           /\ \A i \in 1..Len(inbox'[x]) : inbox'[x][i] = n + i
           /\ Handled(x)' = Handled(x)
           /\ UNCHANGED <<worker, told, account, phone, missed>>
<1>1. /\ task[x] = NoTask /\ inbox[x] # <<>>
      /\ task' = [task EXCEPT ![x] = [asks |-> Head(inbox[x]),
                                      account |-> account[News[Head(inbox[x])].user],
                                      phone |-> phone[News[Head(inbox[x])].user]]]
      /\ inbox' = [inbox EXCEPT ![x] = Tail(@)]
      /\ UNCHANGED <<worker, told, account, phone, missed>>
  BY DEF Handle, Reads
<1>. DEFINE s == inbox[x]
            k == Len(s)
<1>2. /\ s \in Seq(Nat) /\ k \in Nat /\ told \in Nat /\ k <= told /\ worker[x] # "down"
      /\ \A i \in 1..k : s[i] = told - k + i
  BY <1>1, HandledIs DEF InOrder, NewsTyped
<1>3. k >= 1 /\ Head(s) = s[1]
  BY <1>1, <1>2
<1>4. PICK n \in Nat : n = Head(s)
  BY <1>1, <1>2
<1>5. n = told - k + 1 /\ n \in 1..told
  <2>. HIDE DEF s, k
  <2>1. 1 \in 1..k
    BY <1>2, <1>3
  <2>2. s[1] = told - k + 1
    BY <1>2, <2>1
  <2>3. Head(s) = told - k + 1
    BY <1>3, <2>2
  <2>. QED BY <1>2, <1>3, <1>4, <2>3
<1>6. inbox'[x] = Tail(s)
  BY <1>1 DEF NewsTyped
<1>7. Tail(s) \in Seq(Nat) /\ Len(Tail(s)) = k - 1 /\ \A i \in 1..(k - 1) : Tail(s)[i] = s[i + 1]
  BY <1>1, <1>2
<1>8. \A i \in 1..(k - 1) : Tail(s)[i] = n + i
  <2>. HIDE DEF s, k
  <2>. TAKE i \in 1..(k - 1)
  <2>1. i + 1 \in 1..k
    BY <1>2
  <2>2. s[i + 1] = told - k + (i + 1)
    BY <1>2, <2>1
  <2>3. Tail(s)[i] = s[i + 1]
    BY <1>7
  <2>4. told - k + (i + 1) = n + i
    BY <1>2, <1>5
  <2>. QED BY <2>2, <2>3, <2>4, Zenon
<1>9. n \in DOMAIN News /\ News[n].user \in Users
  BY <1>5, ToldAreNews
<1>10. task'[x] = [asks |-> n, account |-> account[News[n].user], phone |-> phone[News[n].user]]
  BY <1>1, <1>4 DEF NewsTyped
<1>11. task'[x].asks = n /\ task'[x] # NoTask
  BY <1>5, <1>10 DEF NoTask
<1>12. told - k = n - 1 /\ told - Len(Tail(s)) = n /\ Len(Tail(s)) <= told
  <2>. HIDE DEF s, k
  <2>. QED BY <1>2, <1>5, <1>7
<1>13. Handled(x)' = Handled(x)
  <2>1. Handled(x) = told - k
    BY <1>1 DEF Handled
  <2>2. Handled(x)' = told - Len(Tail(s)) - 1
    BY <1>1, <1>6, <1>11 DEF Handled
  <2>. HIDE DEF s, k
  <2>. QED BY <1>5, <1>12, <2>1, <2>2
<1>14. task' = [task EXCEPT ![x] = [asks |-> n, account |-> account[News[n].user],
                                    phone |-> phone[News[n].user]]]
  BY <1>1, <1>4
<1>. QED BY <1>1, <1>2, <1>5, <1>6, <1>7, <1>8, <1>9, <1>11, <1>12, <1>13, <1>14

\* A process takes up the next of its news and finds the user as he is.
LEMMA HandleKeepsNews ==
  ASSUME NewsInv, NEW x \in Processes, Handle(x)
  PROVE  NewsInv'
<1>i. NewsTyped /\ InOrder
  BY DEF NewsInv
<1>1. PICK n \in 1..told :
        /\ task[x] = NoTask /\ worker[x] # "down" /\ n \in DOMAIN News
        /\ News[n].user \in Users
        /\ told - Len(inbox[x]) = n - 1 /\ told - Len(inbox'[x]) = n
        /\ task' = [task EXCEPT ![x] = [asks |-> n, account |-> account[News[n].user],
                                        phone |-> phone[News[n].user]]]
        /\ task'[x].asks = n /\ task'[x] # NoTask
        /\ inbox' = [inbox EXCEPT ![x] = Tail(@)] /\ inbox'[x] \in Seq(Nat)
        /\ Len(inbox'[x]) <= told
        /\ \A i \in 1..Len(inbox'[x]) : inbox'[x][i] = n + i
        /\ Handled(x)' = Handled(x)
        /\ UNCHANGED <<worker, told, account, phone, missed>>
  BY <1>i, HandleMoves
<1>2. /\ task'[x].account = account[News[n].user] /\ task'[x].phone = phone[News[n].user]
      /\ \A h \in Processes \union Requests : h # x => task'[h] = task[h]
      /\ \A w \in Processes : w # x => inbox'[w] = inbox[w]
      /\ inbox'[x] \in Seq(Nat) /\ n \in Nat /\ n >= 1 /\ told \in Nat
  <2>1. n \in Nat /\ n >= 1 /\ told \in Nat
    BY <1>i, ToldAreNews
  <2>. QED BY <1>1, <1>i, <2>1 DEF NewsTyped
<1>3. NewsTyped'
  <2>1. inbox' \in [Processes -> Seq(Nat)]
    <3>1. \A w \in Processes : inbox'[w] \in Seq(Nat)
      BY <1>2, <1>i DEF NewsTyped
    <3>2. inbox' = [w \in Processes |-> inbox'[w]]
      BY <1>1, <1>i DEF NewsTyped
    <3>. QED BY <3>1, <3>2
  <2>2. task' \in [Processes \union Requests ->
                     [asks : Nat, account : {Nothing, "active", "frozen"},
                      phone : Phones \union {Nothing}]]
    BY <1>1, <1>2, <1>i DEF NewsTyped
  <2>. QED BY <1>1, <1>i, <2>1, <2>2 DEF NewsTyped
<1>4. InOrder'
  <2>. SUFFICES ASSUME NEW w \in Processes
                PROVE  /\ Len(inbox'[w]) <= told
                       /\ \A i \in 1..Len(inbox'[w]) : inbox'[w][i] = told - Len(inbox'[w]) + i
                       /\ task'[w] # NoTask => /\ task'[w].asks = told - Len(inbox'[w])
                                               /\ task'[w].asks >= 1
                       /\ worker[w] = "down" => inbox'[w] = <<>> /\ task'[w] = NoTask
    BY <1>1 DEF InOrder
  <2>1. CASE w = x
    <3>1. \A i \in 1..Len(inbox'[x]) : inbox'[x][i] = told - Len(inbox'[x]) + i
      BY <1>1, Zenon
    <3>. QED BY <1>1, <1>2, <2>1, <3>1
  <2>2. CASE w # x
    BY <1>2, <1>i, <2>2 DEF InOrder
  <2>. QED BY <2>1, <2>2
<1>5. ASSUME OrderlyNews
      PROVE  PhonesTold' /\ AsksTold'
  <2>1. \A r \in Requests : task'[r] = task[r]
    BY <1>2, WalletEventsAssumption
  <2>. QED BY <1>1, <1>5, <2>1 DEF NewsInv, PhonesTold, AsksTold
<1>6. ASSUME OrderlyNews, ~missed'
      PROVE  KeptInv'
  <2>1. OrderlyNews /\ ~missed
    BY <1>1, <1>6
  <2>2. \A w \in Processes : Handled(w)' = Handled(w)
    BY <1>1, <1>2 DEF Handled
  <2>3. \A h \in Processes \union Requests :
          h # x => Asks(h)' = Asks(h) /\ Creates(h)' = Creates(h)
    BY <1>2 DEF Asks, Creates
  <2>4. Asks(x)' = News[n] /\ (Creates(x)' => account[News[n].user] = Nothing)
    BY <1>1, <1>2 DEF Asks, Creates
  <2>5. ASSUME NEW w \in Processes, NEW m \in 1..told
        PROVE  /\ Awaits(w, m) => Awaits(w, m)' \/ (w = x /\ m = n)
               /\ Renews(w, m) => Renews(w, m)'
               /\ Freezes(w, m) => Freezes(w, m)'
    <3>1. CASE w # x
      BY <1>1, <1>2, <2>3, <2>5, <3>1 DEF Awaits, Renews, Freezes
    <3>2. CASE w = x
      <4>1. Awaits(x, m) => Awaits(x, m)' \/ m = n
        BY <1>1, <1>2 DEF Awaits
      <4>. QED BY <1>1, <3>2, <4>1 DEF Renews, Freezes
    <3>. QED BY <3>1, <3>2
  <2>6. Renews(x, n)'
    BY <1>1, <1>2, <2>4 DEF Renews
  <2>7. PhoneHasAccount'
    BY <1>1, <2>1 DEF NewsInv, KeptInv, PhoneHasAccount
  <2>8. FoundIsThere'
    <3>. SUFFICES ASSUME NEW h \in Processes \union Requests, task'[h] # NoTask
                  PROVE  /\ task'[h].account # Nothing => account[Asks(h).user]' # Nothing
                         /\ task'[h].phone # Nothing => /\ task'[h].account # Nothing
                                                        /\ phone[Asks(h).user]' # Nothing
      BY DEF FoundIsThere
    <3>1. CASE h = x
      BY <1>1, <1>2, <2>1, <2>4, <3>1 DEF NewsInv, KeptInv, PhoneHasAccount
    <3>2. CASE h # x
      BY <1>1, <1>2, <2>1, <2>3, <3>2 DEF NewsInv, KeptInv, FoundIsThere
    <3>. QED BY <3>1, <3>2
  <2>9. FirstHeard'
    BY <1>1, <2>1, <2>2 DEF NewsInv, KeptInv, FirstHeard
  <2>10. LastHeard'
    <3>. SUFFICES ASSUME NEW u \in Users, PhoneNews(u) # {}, Last(u) <= told,
                         \A w \in Processes : Handled(w)' >= Last(u) - 1
                  PROVE  \/ phone[u] = Latest(u)
                         \/ \E w \in Processes : Awaits(w, Last(u))' \/ Renews(w, Last(u))'
      BY <1>1 DEF LastHeard
    <3>1. \/ phone[u] = Latest(u)
          \/ \E w \in Processes : Awaits(w, Last(u)) \/ Renews(w, Last(u))
      BY <2>1, <2>2 DEF NewsInv, KeptInv, LastHeard
    <3>2. Last(u) \in 1..told
      <4>1. Last(u) \in 1..Len(News)
        BY LastIsLast, PhoneNewsAre
      <4>. QED BY <1>2, <4>1, WalletEventsAssumption
    <3>. QED BY <2>5, <2>6, <3>1, <3>2
  <2>11. SuspensionHeard'
    <3>. SUFFICES ASSUME NEW m \in 1..told, NEW s \in 1..told, Registers(m),
                         News[s].user = News[m].user, News[s].kind = "suspended",
                         \A w \in Processes : Handled(w)' >= m
                  PROVE  \/ account[News[m].user] = "frozen"
                         \/ \E w \in Processes : Awaits(w, s)' \/ Freezes(w, s)'
      BY <1>1 DEF SuspensionHeard
    <3>1. \A w \in Processes : Handled(w) >= m
      BY <2>2
    <3>2. \/ account[News[m].user] = "frozen"
          \/ \E w \in Processes : Awaits(w, s) \/ Freezes(w, s)
      BY <2>1, <3>1 DEF NewsInv, KeptInv, SuspensionHeard
    <3>3. s = n => Freezes(x, s)'
      <4>1. account[News[m].user] # Nothing
        BY <2>1, <3>1, AccountHeard
      <4>. QED BY <1>1, <1>2, <4>1 DEF Freezes
    <3>. QED BY <2>5, <3>2, <3>3
  <2>. QED BY <2>7, <2>8, <2>9, <2>10, <2>11 DEF KeptInv
<1>. QED BY <1>3, <1>4, <1>5, <1>6 DEF NewsInv, KeptInv

\* A request that begins asks for a phone that was told.
LEMMA AskKeepsNews ==
  ASSUME NewsInv, NEW r \in Requests, AskForAccount(r)
  PROVE  NewsInv'
<1>i. NewsTyped /\ InOrder
  BY DEF NewsInv
<1>. DEFINE u == Ask[r].user
<1>1. /\ task' = [task EXCEPT ![r] = [asks |-> 1, account |-> account[u], phone |-> phone[u]]]
      /\ Ask[r].phone # Nothing =>
           \E m \in 1..told : News[m].user = Ask[r].user /\ News[m].phone = Ask[r].phone
      /\ UNCHANGED <<worker, told, inbox, account, phone, missed>>
      /\ r \notin Processes /\ u \in Users
  BY WalletEventsAssumption DEF AskForAccount, Reads, Users
<1>2. /\ task'[r] = [asks |-> 1, account |-> account[u], phone |-> phone[u]]
      /\ \A h \in Processes \union Requests : h # r => task'[h] = task[h]
  BY <1>1, <1>i DEF NewsTyped
<1>3. NewsTyped'
  BY <1>1, <1>i DEF NewsTyped
<1>4. \A w \in Processes : task'[w] = task[w]
  BY <1>1, <1>2
<1>5. InOrder'
  BY <1>1, <1>4, <1>i DEF InOrder
<1>6. ASSUME OrderlyNews
      PROVE  PhonesTold' /\ AsksTold'
  BY <1>1, <1>2, <1>6 DEF NewsInv, PhonesTold, AsksTold
<1>7. ASSUME OrderlyNews, ~missed'
      PROVE  KeptInv'
  <2>1. OrderlyNews /\ ~missed
    BY <1>1, <1>7
  <2>2. \A h \in Processes \union Requests : h # r => Asks(h)' = Asks(h) /\ Creates(h)' = Creates(h)
    BY <1>2 DEF Asks, Creates
  <2>3. Asks(r)' = Ask[r]
    BY <1>1 DEF Asks
  <2>4. \A w \in Processes : Handled(w)' = Handled(w) /\ Creates(w)' = Creates(w)
    <3>1. \A w \in Processes : w # r
      BY <1>1
    <3>. QED BY <1>1, <1>4, <2>2, <3>1 DEF Handled
  <2>5. \A n : \A w \in Processes : /\ Awaits(w, n)' = Awaits(w, n) /\ Renews(w, n)' = Renews(w, n)
                                    /\ Freezes(w, n)' = Freezes(w, n)
    BY <1>1, <1>4, <2>4 DEF Awaits, Renews, Freezes
  <2>6. PhoneHasAccount'
    BY <1>1, <2>1 DEF NewsInv, KeptInv, PhoneHasAccount
  <2>7. FoundIsThere'
    <3>. SUFFICES ASSUME NEW h \in Processes \union Requests, task'[h] # NoTask
                  PROVE  /\ task'[h].account # Nothing => account[Asks(h).user]' # Nothing
                         /\ task'[h].phone # Nothing => /\ task'[h].account # Nothing
                                                        /\ phone[Asks(h).user]' # Nothing
      BY DEF FoundIsThere
    <3>1. CASE h = r
      BY <1>1, <1>2, <2>1, <2>3, <3>1 DEF NewsInv, KeptInv, PhoneHasAccount
    <3>2. CASE h # r
      BY <1>1, <1>2, <2>1, <2>2, <3>2 DEF NewsInv, KeptInv, FoundIsThere
    <3>. QED BY <3>1, <3>2
  <2>8. FirstHeard'
    BY <1>1, <2>1, <2>4 DEF NewsInv, KeptInv, FirstHeard
  <2>9. LastHeard'
    BY <1>1, <2>1, <2>4, <2>5 DEF NewsInv, KeptInv, LastHeard
  <2>10. SuspensionHeard'
    BY <1>1, <2>1, <2>4, <2>5 DEF NewsInv, KeptInv, SuspensionHeard
  <2>. QED BY <2>6, <2>7, <2>8, <2>9, <2>10 DEF KeptInv
<1>. QED BY <1>3, <1>5, <1>6, <1>7 DEF NewsInv, KeptInv

\* At first nothing has been heard, and the news told before count as missed.
LEMMA NewsAtFirst ==
  ASSUME EventsInit
  PROVE  NewsInv
<1>1. PICK s \in Starts :
        /\ told = s.told /\ missed = (s.told > 0)
        /\ worker = [w \in Processes |-> "down"] /\ inbox = [w \in Processes |-> <<>>]
        /\ task = [h \in Processes \union Requests |-> NoTask]
        /\ account = [u \in Users |-> Nothing] /\ phone = [u \in Users |-> Nothing]
  BY DEF EventsInit
<1>2. told \in 0..Len(News) /\ told \in Nat
  BY <1>1, WalletEventsAssumption
<1>3. NewsTyped
  <2>1. <<>> \in Seq(Nat) /\ NoTask \in [asks : Nat, account : {Nothing, "active", "frozen"},
                                         phone : Phones \union {Nothing}]
    BY DEF NoTask
  <2>. HIDE DEF NoTask
  <2>. QED BY <1>1, <1>2, <2>1 DEF NewsTyped
<1>4. InOrder
  <2>1. \A w \in Processes : inbox[w] = <<>> /\ task[w] = NoTask
    BY <1>1
  <2>2. Len(<<>>) = 0 /\ \A i : i \notin 1..0
    OBVIOUS
  <2>. QED BY <1>2, <2>1, <2>2 DEF InOrder
<1>5. PhonesTold /\ AsksTold /\ PhoneHasAccount /\ FoundIsThere
  BY <1>1 DEF PhonesTold, AsksTold, PhoneHasAccount, FoundIsThere
<1>6. ~missed => KeptInv
  <2>1. ~missed => told = 0
    <3>1. missed = (told > 0)
      BY <1>1
    <3>2. ~missed => ~ (told > 0)
      BY <3>1, Zenon
    <3>. QED BY <1>2, <3>2
  <2>. QED BY <1>5, <2>1, NothingTold
<1>. QED BY <1>3, <1>4, <1>5, <1>6 DEF NewsInv, KeptInv

\* A relay that ends takes its process down, if it is a process's.
LEMMA EndsKeepsNews ==
  ASSUME NewsInv, NEW r \in Relays, Ends(r)
  PROVE  NewsInv'
<1>1. CASE r = Job
  <2>1. Quiet
    BY <1>1 DEF Ends, Quiet, NewsInv, NewsTyped
  <2>. QED BY <2>1, QuietKeepsNews
<1>2. CASE r # Job
  BY <1>2, DownKeepsNews DEF Ends, Relays
<1>. QED BY <1>1, <1>2

\* A relay may bring its process up, or take it down with it.
LEMMA RelayKeepsNews ==
  ASSUME NewsInv, NEW r \in Relays, RelayStep(r)
  PROVE  NewsInv'
<1>1. CASE Victim(r)
  BY <1>1, EndsKeepsNews DEF Victim
<1>2. CASE RelayCommit(r)
  <2>1. /\ worker' = [w \in Processes |-> IF w = r THEN "up" ELSE worker[w]]
        /\ UNCHANGED userVars
        /\ r # Job => worker[r] = "starting"
    BY <1>2 DEF RelayCommit, Running
  <2>2. Job \notin Processes /\ worker \in [Processes -> {"down", "starting", "up"}]
    BY WalletEventsAssumption DEF NewsInv, NewsTyped
  <2>3. Quiet
    BY <2>1, <2>2 DEF Quiet
  <2>. QED BY <2>3, QuietKeepsNews
<1>3. CASE \E p \in Payments : Publish(r, p)
  <2>1. Quiet
    BY <1>3 DEF Publish, Quiet, NewsInv, NewsTyped
  <2>. QED BY <2>1, QuietKeepsNews
<1>4. CASE Mark(r)
  <2>1. Quiet
    BY <1>4 DEF Mark, Quiet, NewsInv, NewsTyped
  <2>. QED BY <2>1, QuietKeepsNews
<1>. QED BY <1>1, <1>2, <1>3, <1>4 DEF RelayStep

\* When everything told has been handled, it is all kept.
LEMMA NewsInvKeeps ==
  ASSUME OrderlyNews, NewsInv
  PROVE  NewsIsKept
<1>. SUFFICES ASSUME Drained, NEW u \in Users
              PROVE  /\ Told(u, {"registered"}) # {} => account[u] # Nothing
                     /\ Told(u, {"suspended"}) # {} => account[u] = "frozen"
                     /\ PhoneNews(u) # {} => phone[u] = Latest(u)
  BY DEF NewsIsKept
<1>1. /\ NewsTyped /\ InOrder /\ ~missed /\ LastHeard /\ SuspensionHeard
      /\ told = Len(News) /\ told \in Nat /\ DOMAIN News = 1..told
  BY WalletEventsAssumption DEF NewsInv, KeptInv, Drained
<1>2. ASSUME NEW w \in Processes
      PROVE  Handled(w) = told /\ told - Len(inbox[w]) = told /\ task[w] = NoTask
  <2>1. inbox[w] = <<>> /\ task[w] = NoTask
    BY DEF Drained
  <2>2. Len(inbox[w]) = 0
    BY <2>1
  <2>3. told - Len(inbox[w]) = told
    BY <1>1, <2>2
  <2>. QED BY <2>1, <2>3 DEF Handled
<1>3. ASSUME NEW w \in Processes, NEW n \in 1..told
      PROVE  ~Awaits(w, n) /\ ~Renews(w, n) /\ ~Freezes(w, n)
  BY <1>1, <1>2 DEF Awaits, Renews, Freezes
<1>4. ASSUME NEW m \in 1..told, News[m].user = u
      PROVE  \E n \in 1..told : Registers(n) /\ News[n].user = u
  BY <1>1, <1>4, Registration
<1>5. \A n \in 1..told : \A w \in Processes : Handled(w) >= n
  BY <1>1, <1>2
<1>6. ASSUME Told(u, {"registered"}) # {}
      PROVE  account[u] # Nothing
  <2>1. PICK n \in 1..told : Registers(n) /\ News[n].user = u
    BY <1>1, <1>4, <1>6 DEF Told
  <2>. QED BY <1>1, <1>5, <2>1, AccountHeard
<1>7. ASSUME Told(u, {"suspended"}) # {}
      PROVE  account[u] = "frozen"
  <2>1. PICK s \in 1..told : News[s].user = u /\ News[s].kind = "suspended"
    BY <1>1, <1>7 DEF Told
  <2>2. PICK n \in 1..told : Registers(n) /\ News[n].user = u
    BY <1>4, <2>1
  <2>. QED BY <1>1, <1>3, <1>5, <2>1, <2>2 DEF SuspensionHeard
<1>8. ASSUME PhoneNews(u) # {}
      PROVE  phone[u] = Latest(u)
  <2>1. Last(u) \in 1..told
    BY <1>1, <1>8, LastIsLast, PhoneNewsAre
  <2>2. \A w \in Processes : Handled(w) >= Last(u) - 1
    BY <1>1, <1>2, <2>1
  <2>3. Last(u) <= told
    BY <1>1, <2>1
  <2>. QED BY <1>1, <1>3, <1>8, <2>1, <2>2, <2>3 DEF LastHeard
<1>. QED BY <1>6, <1>7, <1>8

\* The invariant of what processes hear, in every state.
LEMMA NewsHolds == EventsSpec => []NewsInv
<1>1. EventsInit => NewsInv
  BY NewsAtFirst
<1>2. NewsInv /\ [EventsNext]_eventVars => NewsInv'
  <2>. SUFFICES ASSUME NewsInv, [EventsNext]_eventVars PROVE NewsInv'
    OBVIOUS
  <2>w. worker \in [Processes -> {"down", "starting", "up"}]
    BY DEF NewsInv, NewsTyped
  <2>1. CASE UNCHANGED eventVars
    <3>1. Quiet
      BY <2>1, <2>w DEF Quiet, eventVars, userVars
    <3>. QED BY <3>1, QuietKeepsNews
  <2>2. CASE \E p \in Payments : Complete(p) \/ Book(p) \/ Undo(p)
    <3>1. Quiet
      BY <2>2, <2>w DEF Quiet, Complete, Book, Undo
    <3>. QED BY <3>1, QuietKeepsNews
  <2>3. CASE ScanByJob
    <3>1. Quiet
      BY <2>3, <2>w DEF Quiet, ScanByJob
    <3>. QED BY <3>1, QuietKeepsNews
  <2>4. CASE \E r \in Relays : RelayStep(r)
    BY <2>4, RelayKeepsNews
  <2>5. CASE \E w \in Processes : Start(w)
    BY <2>5, StartKeepsNews
  <2>6. CASE \E w \in Processes : Handle(w)
    BY <2>6, HandleKeepsNews
  <2>7. CASE \E r \in Requests : AskForAccount(r)
    BY <2>7, AskKeepsNews
  <2>8. CASE \E h \in Processes \union Requests : Finish(h)
    BY <2>8, FinishKeepsNews
  <2>9. CASE Tell
    BY <2>9, TellKeepsNews
  <2>10. CASE Faulty
    <3>1. PICK r \in Relays : RollsBack(r)
      BY <2>10 DEF Faulty, JobCrashes, BusFails, Crash, Relays
    <3>. QED BY <3>1, EndsKeepsNews DEF RollsBack
  <2>. QED BY <2>1, <2>2, <2>3, <2>4, <2>5, <2>6, <2>7, <2>8, <2>9, <2>10 DEF EventsNext
<1>. QED BY <1>1, <1>2, PTL DEF EventsSpec

\* Whatever the processes, requests and crashes, and however they interleave: if a user is
\* registered before anything else is told of him, numbers are not passed around in a circle
\* and requests ask for current ones (OrderlyNews), then once all processes have handled all
\* the news and missed none, every registered user has an account, with the phone told of him
\* last, and frozen if he was suspended (on_user_registered, on_user_phone_updated,
\* on_user_suspended).
THEOREM NewsKept == ASSUME OrderlyNews PROVE EventsSpec => []NewsIsKept
<1>1. NewsInv => NewsIsKept
  BY NewsInvKeeps
<1>. QED BY <1>1, NewsHolds, PTL

\* The types that no invariant above has.
PaymentsTyped ==
  /\ payment \in [Payments -> {"new", "open", "booked"}]
  /\ sent \subseteq Payments /\ faults \in 0..MaxFaults

\* Types of payments, of what was sent and of the faults.
LEMMA PaymentsHold == EventsSpec => []PaymentsTyped
<1>1. EventsInit => PaymentsTyped
  BY WalletEventsAssumption DEF EventsInit, PaymentsTyped
<1>2. PaymentsTyped /\ [EventsNext]_eventVars => PaymentsTyped'
  <2>. SUFFICES ASSUME PaymentsTyped, [EventsNext]_eventVars PROVE PaymentsTyped'
    OBVIOUS
  <2>1. CASE UNCHANGED <<payment, sent, faults>>
    BY <2>1 DEF PaymentsTyped
  <2>2. CASE UNCHANGED eventVars
    BY <2>1, <2>2 DEF eventVars
  <2>3. CASE \E p \in Payments : Complete(p) \/ Book(p)
    BY <2>3 DEF PaymentsTyped, Complete, Book
  <2>4. ASSUME Fault
        PROVE  faults' \in 0..MaxFaults
    BY <2>4, WalletEventsAssumption DEF PaymentsTyped, Fault
  <2>5. CASE \E p \in Payments : Undo(p)
    BY <2>4, <2>5 DEF PaymentsTyped, Undo
  <2>6. CASE ScanByJob \/ Tell
    BY <2>1, <2>6 DEF ScanByJob, Tell, walletVars
  <2>7. ASSUME NEW r \in Relays, RelayStep(r)
        PROVE  PaymentsTyped'
    <3>1. UNCHANGED <<payment, faults>> /\ (UNCHANGED sent \/ \E p \in Payments : sent' = sent \union {p})
      BY <2>7 DEF RelayStep, Publish, Mark, RelayCommit, Victim, Ends
    <3>. QED BY <3>1 DEF PaymentsTyped
  <2>8. CASE \E w \in Processes : Start(w) \/ Handle(w)
    BY <2>1, <2>8 DEF Start, Handle, walletVars
  <2>9. CASE \E r \in Requests : AskForAccount(r)
    BY <2>1, <2>9 DEF AskForAccount, walletVars
  <2>10. CASE \E h \in Processes \union Requests : Finish(h)
    BY <2>1, <2>10 DEF Finish, walletVars
  <2>11. CASE Faulty
    <3>1. UNCHANGED <<payment, sent>> /\ Fault
      BY <2>11 DEF Faulty, JobCrashes, BusFails, Crash, RollsBack, Ends
    <3>. QED BY <2>4, <3>1 DEF PaymentsTyped
  <2>. QED BY <2>2, <2>3, <2>5, <2>6, <2>7, <2>8, <2>9, <2>10, <2>11 DEF EventsNext
<1>. QED BY <1>1, <1>2, PTL DEF EventsSpec

\* The wallet's events keep their types, whatever the news.
THEOREM EventTypes == EventsSpec => []EventsTypeOK
<1>1. EventsInv /\ NewsInv /\ PaymentsTyped => EventsTypeOK
  BY DEF EventsInv, RelayState, NewsInv, NewsTyped, PaymentsTyped, EventsTypeOK
<1>. QED BY <1>1, EventsHold, NewsHolds, PaymentsHold, PTL
=============================================================================
