-------------------------- MODULE SettlementsProofs --------------------------
(***************************************************************************)
(* Proofs about Settlements: for any payments, orders and number of        *)
(* requests at once, a back-office command is carried out once per id and  *)
(* key, a settlement it completed is in the ledger, no settlement takes    *)
(* more than the provider owes, the daily reports agree, and every         *)
(* behaviour is one of CommandPromise.                                     *)
(***************************************************************************)
EXTENDS Settlements, SumLemmas

USE SettlementsAssumption

-----------------------------------------------------------------------------
(* The inductive invariant *)

\* Domains that the other parts rest on.
WellTyped ==
  /\ request \in [Requests -> [order : Orders, phase : Phases, day : Int]]
  /\ commands \subseteq [order : Orders, by : Requests]
  /\ today \in Int

\* What the unique constraints give: of requests for the same command at most one
\* has its row inserted, and none while a committed row stands in its way.
OneOpen ==
  \A r \in Requests : request[r].phase \in Open =>
    /\ \A c \in commands : ~SameCommand(c.order, request[r].order)
    /\ \A s \in Requests \ {r} :
         request[s].phase \in Open => ~SameCommand(request[s].order, request[r].order)

\* A settlement journal is its request's last act: a request that may still commit
\* has none, so one that finds its reference known finds somebody else's.
BookedWhenDone ==
  \A j \in journals :
    j.type = "settlement" /\ j.by \in Requests => request[j.by].phase = "done"

IInv == WellTyped /\ OneOpen /\ CommandOnce /\ BookedWhenDone /\ CommandsAreBooked

-----------------------------------------------------------------------------
(* It is inductive *)

\* Orders name one command or different ones, whichever is asked first.
LEMMA SameIsSymmetric ==
  ASSUME NEW a \in Orders, NEW b \in Orders, SameCommand(a, b)
  PROVE  SameCommand(b, a)
BY DEF SameCommand

\* At first nothing is recorded and no request has begun.
LEMMA InitIInv == Init => IInv
BY DEF Init, IInv, WellTyped, OneOpen, CommandOnce, BookedWhenDone, CommandsAreBooked, Phases, Open

\* If one request's phase changes, and enters the open ones only where the
\* constraints allow it, then no two requests are open for the same command.
LEMMA MovesKeepOneOpen ==
  ASSUME IInv, NEW r \in Requests, commands' = commands,
         \A s \in Requests : request'[s].order = request[s].order,
         \A s \in Requests \ {r} : request'[s].phase = request[s].phase,
         request'[r].phase \in Open =>
           /\ \A c \in commands : ~SameCommand(c.order, request[r].order)
           /\ \A s \in Requests \ {r} :
                request[s].phase \in Open => ~SameCommand(request[s].order, request[r].order)
  PROVE  OneOpen'
<1>. \A s \in Requests : request[s].order \in Orders
  BY DEF IInv, WellTyped
<1>. OneOpen
  BY DEF IInv
<1>1. ASSUME NEW x \in Requests, request'[x].phase \in Open, NEW c \in commands'
      PROVE  ~SameCommand(c.order, request'[x].order)
  <2>1. CASE x = r
    BY <1>1, <2>1
  <2>2. CASE x # r
    <3>1. request[x].phase \in Open
      BY <1>1, <2>2
    <3>. QED BY <3>1 DEF OneOpen
  <2>. QED BY <2>1, <2>2
<1>2. ASSUME NEW x \in Requests, NEW y \in Requests \ {x},
             request'[x].phase \in Open, request'[y].phase \in Open
      PROVE  ~SameCommand(request'[y].order, request'[x].order)
  <2>1. CASE x = r
    BY <1>2, <2>1
  <2>2. CASE y = r
    <3>1. request[x].phase \in Open /\ x # r
      BY <1>2, <2>2
    <3>2. ~SameCommand(request[x].order, request[y].order)
      BY <1>2, <2>2, <3>1
    <3>. QED BY <3>2, SameIsSymmetric
  <2>3. CASE x # r /\ y # r
    <3>1. request[x].phase \in Open /\ request[y].phase \in Open
      BY <1>2, <2>3
    <3>. QED BY <3>1 DEF OneOpen
  <2>. QED BY <2>1, <2>2, <2>3
<1>. QED BY <1>1, <1>2 DEF OneOpen

\* A step that commits no command leaves the trail as it is, if it inserts a row
\* only where the constraints allow it.
LEMMA MovesKeepIInv ==
  ASSUME IInv, NEW r \in Requests, NEW phase \in Phases, NEW day \in Int,
         request' = [request EXCEPT ![r].phase = phase, ![r].day = day],
         request[r].phase # "done",
         UNCHANGED <<journals, commands, today>>,
         \/ phase \notin Open
         \/ request[r].phase \in Open
         \/ /\ \A c \in commands : ~SameCommand(c.order, request[r].order)
            /\ \A s \in Requests \ {r} :
                 request[s].phase \in Open => ~SameCommand(request[s].order, request[r].order)
  PROVE  IInv'
<1>. DEFINE Rows == [order : Orders, phase : Phases, day : Int]
            row == [request[r] EXCEPT !.phase = phase, !.day = day]
<1>1. request \in [Requests -> Rows] /\ request[r] \in Rows
  BY DEF IInv, WellTyped
<1>2. request' = [request EXCEPT ![r] = row]
  OBVIOUS
<1>3. row \in Rows /\ row.order = request[r].order /\ row.phase = phase
  BY <1>1
<1>. HIDE DEF Rows, row
<1>4. request' \in [Requests -> Rows]
  BY <1>1, <1>2, <1>3
<1>5. request'[r] = row /\ \A s \in Requests \ {r} : request'[s] = request[s]
  BY <1>1, <1>2
<1>6. WellTyped'
  BY <1>4 DEF IInv, WellTyped, Rows
<1>7. OneOpen'
  <2>1. phase \in Open =>
          /\ \A c \in commands : ~SameCommand(c.order, request[r].order)
          /\ \A s \in Requests \ {r} :
               request[s].phase \in Open => ~SameCommand(request[s].order, request[r].order)
    BY DEF IInv, OneOpen
  <2>2. \A s \in Requests : request'[s].order = request[s].order
    BY <1>3, <1>5
  <2>. QED BY <1>3, <1>5, <2>1, <2>2, MovesKeepOneOpen
<1>8. CommandOnce'
  BY DEF IInv, CommandOnce
<1>9. BookedWhenDone'
  BY <1>5 DEF IInv, BookedWhenDone
<1>10. CommandsAreBooked'
  BY DEF IInv, CommandsAreBooked
<1>. QED BY <1>6, <1>7, <1>8, <1>9, <1>10 DEF IInv

\* The steps that commit nothing of a request.
LEMMA QuietStep ==
  ASSUME IInv, NEW r \in Requests,
         Begin(r) \/ Insert(r) \/ Lock(r) \/ Post(r) \/ Write(r) \/ Retry(r) \/ RolledBack(r)
  PROVE  IInv'
<1>. DEFINE o == request[r].order
<1>. /\ o \in Orders /\ request[r].phase \in Phases /\ request[r].day \in Int /\ today \in Int
     /\ request \in [Requests -> [order : Orders, phase : Phases, day : Int]]
  BY DEF IInv, WellTyped
<1>1. CASE Begin(r)
  <2>. UNCHANGED <<journals, commands, today>> /\ request[r].phase # "done"
    BY <1>1 DEF Begin
  <2>1. CASE o.id = None /\ request' = [request EXCEPT ![r].phase = "inserted", ![r].day = today]
    <3>1. /\ \A c \in commands : ~SameCommand(c.order, o)
          /\ \A s \in Requests \ {r} : ~SameCommand(request[s].order, o)
      BY <2>1 DEF IInv, WellTyped, SameCommand
    <3>. QED BY <2>1, <3>1, MovesKeepIInv DEF Phases
  <2>2. CASE request' = [request EXCEPT ![r].phase = "begun", ![r].day = today]
    BY <2>2, MovesKeepIInv DEF Phases, Open
  <2>3. ASSUME NEW phase \in {"replayed", "failed"}, Moves(r, phase)
        PROVE  IInv'
    <3>1. request' = [request EXCEPT ![r].phase = phase, ![r].day = request[r].day]
      BY <2>3 DEF Moves
    <3>. QED BY <3>1, MovesKeepIInv DEF Phases, Open
  <2>. QED BY <1>1, <2>1, <2>2, <2>3 DEF Begin
<1>2. ASSUME NEW phase \in Phases, Moves(r, phase), UNCHANGED <<journals, commands, today>>,
             request[r].phase # "done",
             \/ phase \notin Open
             \/ request[r].phase \in Open
             \/ Clashes(o) = {} /\ MayInsert(r)
      PROVE  IInv'
  <2>1. request' = [request EXCEPT ![r].phase = phase, ![r].day = request[r].day]
    BY <1>2 DEF Moves
  <2>2. Clashes(o) = {} => \A c \in commands : ~SameCommand(c.order, o)
    BY DEF Clashes
  <2>3. MayInsert(r) => \A s \in Requests \ {r} :
          request[s].phase \in Open => ~SameCommand(request[s].order, o)
    BY DEF MayInsert
  <2>. QED BY <1>2, <2>1, <2>2, <2>3, MovesKeepIInv
<1>3. CASE Insert(r)
  BY <1>2, <1>3 DEF Insert, Phases, Open
<1>4. CASE Lock(r)
  BY <1>2, <1>4 DEF Lock, Phases, Open
<1>5. CASE Post(r)
  <2>1. PICK phase \in {"failed", "written", "writing"} : Moves(r, phase)
    BY <1>5 DEF Post
  <2>. QED BY <1>2, <1>5, <2>1 DEF Post, Phases, Open
<1>6. CASE Write(r)
  BY <1>2, <1>6 DEF Write, Phases, Open
<1>7. CASE Retry(r)
  BY <1>2, <1>7 DEF Retry, Phases, Open
<1>8. CASE RolledBack(r)
  BY <1>2, <1>8 DEF RolledBack, Phases, Open
<1>. QED BY <1>1, <1>3, <1>4, <1>5, <1>6, <1>7, <1>8

\* The commit: the command is the only one of its id and key, and its reference is
\* booked by it or was booked by another.
LEMMA CommitStep ==
  ASSUME IInv, NEW r \in Requests, Commit(r)
  PROVE  IInv'
<1>. DEFINE o == request[r].order
            new == [order |-> o, by |-> r]
            booked == Journal("settlement", o.ref, o.intent, o.amount, request[r].day, r)
<1>1. /\ o \in Orders /\ request[r].phase = "written" /\ request[r].phase \in Open
      /\ request'[r].phase = "done"
      /\ \A s \in Requests \ {r} : request'[s] = request[s]
      /\ \A s \in Requests : request'[s].order = request[s].order /\ request[s].order \in Orders
  BY DEF Commit, Moves, IInv, WellTyped, Open
<1>2. /\ commands' \subseteq commands \union {new}
      /\ o.id = None => commands' = commands
  BY DEF Commit
<1>3. /\ journals \subseteq journals' /\ journals' \subseteq journals \union {booked}
      /\ o.action = "settle" /\ Known(o) = {} => booked \in journals'
  BY <1>1 DEF Commit
<1>4. WellTyped'
  BY <1>1, <1>2 DEF IInv, WellTyped, Commit, Moves, Phases
<1>5. OneOpen'
  <2>1. ASSUME NEW x \in Requests, request'[x].phase \in Open
        PROVE  x # r /\ request[x].phase \in Open
    BY <1>1, <2>1 DEF Open
  <2>2. ASSUME NEW x \in Requests, request'[x].phase \in Open, NEW c \in commands'
        PROVE  ~SameCommand(c.order, request'[x].order)
    BY <1>1, <1>2, <2>1, <2>2 DEF IInv, OneOpen
  <2>3. ASSUME NEW x \in Requests, NEW y \in Requests \ {x},
               request'[x].phase \in Open, request'[y].phase \in Open
        PROVE  ~SameCommand(request'[y].order, request'[x].order)
    BY <1>1, <2>1, <2>3 DEF IInv, OneOpen
  <2>. QED BY <2>2, <2>3 DEF OneOpen
<1>6. CommandOnce'
  <2>1. \A c \in commands : ~SameCommand(c.order, o) /\ ~SameCommand(o, c.order)
    BY <1>1, SameIsSymmetric DEF IInv, OneOpen, WellTyped
  <2>. QED BY <1>2, <2>1 DEF IInv, CommandOnce
<1>7. BookedWhenDone'
  BY <1>1, <1>3 DEF IInv, BookedWhenDone, Journal
<1>8. CommandsAreBooked'
  <2>1. ASSUME NEW c \in commands, c.order.action = "settle"
        PROVE  \E j \in journals' :
                 /\ j.type = "settlement" /\ j.ref = c.order.ref
                 /\ j.by # c.by \/ (j.owner = c.order.intent /\ j.amount = c.order.amount)
    BY <1>3, <2>1 DEF IInv, CommandsAreBooked
  <2>2. ASSUME o.action = "settle"
        PROVE  \E j \in journals' :
                 /\ j.type = "settlement" /\ j.ref = o.ref
                 /\ j.by # r \/ (j.owner = o.intent /\ j.amount = o.amount)
    <3>1. CASE Known(o) = {}
      BY <1>3, <2>2, <3>1 DEF Journal
    <3>2. CASE Known(o) # {}
      BY <1>1, <1>3, <3>2 DEF Known, IInv, BookedWhenDone
    <3>. QED BY <3>1, <3>2
  <2>. QED BY <1>2, <2>1, <2>2 DEF CommandsAreBooked
<1>. QED BY <1>4, <1>5, <1>6, <1>7, <1>8 DEF IInv

\* What the owners of captures, refunds and payouts book is no settlement.
LEMMA BooksStep ==
  ASSUME IInv, NEW new, \A j \in new : j.type # "settlement", Books(new)
  PROVE  IInv'
<1>. UNCHANGED <<commands, request, today>> /\ journals' = journals \union new
  BY DEF Books
<1>1. WellTyped' /\ OneOpen' /\ CommandOnce'
  BY DEF IInv, WellTyped, OneOpen, CommandOnce
<1>2. BookedWhenDone'
  BY DEF IInv, BookedWhenDone
<1>3. CommandsAreBooked'
  BY DEF IInv, CommandsAreBooked
<1>. QED BY <1>1, <1>2, <1>3 DEF IInv

\* Every step keeps the invariant.
LEMMA NextIInv == IInv /\ [Next]_vars => IInv'
<1>. SUFFICES ASSUME IInv, [Next]_vars PROVE IInv'
  OBVIOUS
<1>1. ASSUME NEW r \in Requests,
             Begin(r) \/ Insert(r) \/ Lock(r) \/ Post(r) \/ Write(r) \/ Retry(r) \/ RolledBack(r)
      PROVE  IInv'
  BY <1>1, QuietStep
<1>2. ASSUME NEW r \in Requests, Commit(r) PROVE IInv'
  BY <1>2, CommitStep
<1>3. ASSUME NEW e \in Events, Capture(e) PROVE IInv'
  <2>. DEFINE p == Confirms[e]
              new == {Journal("capture", e, p, Gross[p], today, None)} \union
                     IF Fee[e] > 0 THEN {Journal("fee", e, p, Fee[e], today, None)} ELSE {}
  <2>1. \A j \in new : j.type # "settlement"
    BY DEF Journal
  <2>. QED BY <1>3, <2>1, BooksStep DEF Capture
<1>4. ASSUME NEW f \in Refunds, Refund(f) PROVE IInv'
  <2>1. \A j \in {Journal("refund", f, GivesBack[f], Given[f], today, None)} : j.type # "settlement"
    BY DEF Journal
  <2>. QED BY <1>4, <2>1, BooksStep DEF Refund
<1>5. ASSUME NEW p \in Payouts, Payout(p) PROVE IInv'
  <2>1. \A j \in {Journal("payout", p, p, Gross[p], today, None)} : j.type # "settlement"
    BY DEF Journal
  <2>. QED BY <1>5, <2>1, BooksStep DEF Payout
<1>6. ASSUME \/ \E p \in Intents : Deliver(p)
             \/ Midnight
             \/ UNCHANGED vars
      PROVE  IInv'
  <2>. UNCHANGED <<journals, commands, request>> /\ today' \in Int
    BY <1>6 DEF Deliver, Midnight, vars, IInv, WellTyped
  <2>. QED BY DEF IInv, WellTyped, OneOpen, CommandOnce, BookedWhenDone, CommandsAreBooked
<1>. QED BY <1>1, <1>2, <1>3, <1>4, <1>5, <1>6 DEF Next

-----------------------------------------------------------------------------
(* The theorems *)

\* The inductive invariant holds in every state.
LEMMA Invariant == Spec => []IInv
BY InitIInv, NextIInv, PTL DEF Spec

\* Two commands with one id or key are never both carried out (the unique
\* constraints of backoffice_commands), however many requests meet.
THEOREM CarriedOutOnce == Spec => []CommandOnce
BY Invariant, PTL DEF IInv

\* The reference of every completed settlement command is in the ledger, booked with
\* the command's payment and amount unless another request had booked it before.
THEOREM CompletedIsBooked == Spec => []CommandsAreBooked
BY Invariant, PTL DEF IInv

-----------------------------------------------------------------------------
(* How much may be settled *)

\* Requests that hold their payment's row.
Holding(r) ==
  request[r].phase \in {"locked", "writing", "written"} /\ request[r].order.action = "settle"

\* The journals are finitely many, of positive amounts; a payment's row has one
\* holder; and what a request found to be owed is owed until it commits.
StillOwed ==
  /\ IsFiniteSet(journals)
  /\ \A j \in journals : j.amount \in Nat \ {0}
  /\ \A r \in Requests : \A s \in Requests \ {r} :
       Holding(r) /\ Holding(s) => request[r].order.intent # request[s].order.intent
  /\ \A r \in Requests, p \in Intents :
       Holding(r) /\ request[r].phase # "locked" /\ request[r].order.intent = p =>
         request[r].order.amount <= Outstanding(p)

Booked == {"capture", "refund", "fee", "settlement"}

\* What has been booked of a kind for a payment is a natural number.
LEMMA SumsAreNumbers ==
  ASSUME StillOwed
  PROVE  /\ \A type, p : IsFiniteSet(Of(type, p)) /\ Sum(Of(type, p)) \in Nat
         /\ \A p : Outstanding(p) \in Int
<1>1. ASSUME NEW type, NEW p
      PROVE  IsFiniteSet(Of(type, p)) /\ Sum(Of(type, p)) \in Nat
  <2>. DEFINE S == Of(type, p)
              amount == [j \in S |-> j.amount]
  <2>1. IsFiniteSet(S)
    BY FS_Subset DEF StillOwed, Of
  <2>2. \A j \in S : amount[j] \in Nat
    BY DEF StillOwed, Of
  <2>. HIDE DEF S, amount
  <2>3. SumOf(S, amount) \in Nat
    BY <2>1, <2>2, SumType
  <2>. QED BY <2>1, <2>3 DEF Sum, S, amount
<1>2. ASSUME NEW p PROVE Outstanding(p) \in Int
  <2>1. /\ Sum(Of("capture", p)) \in Nat /\ Sum(Of("refund", p)) \in Nat
        /\ Sum(Of("fee", p)) \in Nat /\ Sum(Of("settlement", p)) \in Nat
    BY <1>1
  <2>. QED BY <2>1 DEF Outstanding
<1>. QED BY <1>1, <1>2

\* A payment nothing is booked on owes what it owed.
LEMMA OwesTheSame ==
  ASSUME NEW p, \A type \in Booked : Of(type, p)' = Of(type, p)
  PROVE  Outstanding(p)' = Outstanding(p) /\ Sum(Of("settlement", p))' = Sum(Of("settlement", p))
<1>1. ASSUME NEW type \in Booked PROVE Sum(Of(type, p))' = Sum(Of(type, p))
  BY DEF Sum
<1>. QED BY <1>1 DEF Booked, Outstanding

\* A settlement journal takes its amount from what is owed for its payment.
LEMMA OwesLess ==
  ASSUME StillOwed, NEW b, b \notin journals, journals' = journals \union {b},
         b.type = "settlement", b.amount \in Nat, NEW p, b.owner = p
  PROVE  Outstanding(p)' = Outstanding(p) - b.amount
<1>. DEFINE S == Of("settlement", p)
            T == Of("settlement", p)'
            before == [j \in S |-> j.amount]
            after == [j \in T |-> j.amount]
<1>1. T = S \union {b} /\ b \notin S
  BY DEF Of
<1>2. \A type \in {"capture", "refund", "fee"} : Of(type, p)' = Of(type, p)
  BY DEF Of
<1>3. \A type \in {"capture", "refund", "fee"} : Sum(Of(type, p))' = Sum(Of(type, p))
  BY <1>2 DEF Sum
<1>4. IsFiniteSet(S)
  BY SumsAreNumbers
<1>5. \A j \in T : after[j] \in Nat
  BY DEF StillOwed, Of
<1>6. \A j \in S : before[j] = after[j]
  BY <1>1
<1>7. after[b] = b.amount
  BY <1>1
<1>8. Sum(S) = SumOf(S, before) /\ Sum(Of("settlement", p))' = SumOf(T, after)
  BY DEF Sum
<1>. HIDE DEF S, T, before, after
<1>9. SumOf(S, before) = SumOf(S, after)
  BY <1>6, SumOfSame
<1>10. SumOf(T, after) = SumOf(S, after) + after[b]
  <2>1. \A j \in S \union {b} : after[j] \in Nat
    BY <1>1, <1>5
  <2>2. SumOf(S \union {b}, after) = SumOf(S, after) + after[b]
    BY ONLY <1>1, <1>4, <2>1, SumOfAdded
  <2>. QED BY <1>1, <2>2
<1>11. Sum(Of("settlement", p))' = Sum(Of("settlement", p)) + b.amount
  BY <1>7, <1>8, <1>9, <1>10 DEF S
<1>12. /\ Sum(Of("capture", p)) \in Nat /\ Sum(Of("refund", p)) \in Nat
       /\ Sum(Of("fee", p)) \in Nat /\ Sum(Of("settlement", p)) \in Nat
  BY SumsAreNumbers
<1>. QED BY <1>3, <1>11, <1>12 DEF Outstanding

\* At first nobody holds a payment.
LEMMA InitOwed == Init => StillOwed
BY FS_EmptySet DEF Init, StillOwed, Holding

\* A request that moves on without a commit, and takes a row or finds something
\* owed only as the code does.
LEMMA MoveKeepsOwed ==
  ASSUME IInv, StillOwed, NEW r \in Requests, NEW p \in Intents, request[r].order.intent = p,
         journals' = journals,
         \A s \in Requests : request'[s].order = request[s].order,
         \A s \in Requests \ {r} : request'[s].phase = request[s].phase,
         Holding(r)' => Holding(r) \/ Free(p),
         Holding(r)' /\ request'[r].phase # "locked" =>
           \/ Holding(r) /\ request[r].phase # "locked"
           \/ request[r].order.amount <= Outstanding(p)
  PROVE  StillOwed'
<1>1. \A q : Outstanding(q)' = Outstanding(q)
  BY OwesTheSame DEF Of
<1>2. \A s \in Requests \ {r} : Holding(s)' <=> Holding(s)
  BY DEF Holding
<1>3. Free(p) => \A s \in Requests : Holding(s) => request[s].order.intent # p
  BY DEF Free, Holding
<1>4. \A x \in Requests : \A y \in Requests \ {x} :
        Holding(x)' /\ Holding(y)' => request'[x].order.intent # request'[y].order.intent
  BY <1>2, <1>3 DEF StillOwed
<1>5. ASSUME NEW x \in Requests, NEW q \in Intents,
             Holding(x)', request'[x].phase # "locked", request'[x].order.intent = q
      PROVE  request'[x].order.amount <= Outstanding(q)'
  <2>1. CASE x = r
    BY <1>1, <1>5, <2>1 DEF StillOwed
  <2>2. CASE x # r
    BY <1>1, <1>2, <1>5, <2>2 DEF StillOwed
  <2>. QED BY <2>1, <2>2
<1>. QED BY <1>4, <1>5 DEF StillOwed

\* A request that begins has written nothing yet.
LEMMA BeginMoves ==
  ASSUME IInv, NEW r \in Requests, Begin(r)
  PROVE  /\ request'[r].phase \in {"inserted", "begun", "replayed", "failed"}
         /\ \A s \in Requests : request'[s].order = request[s].order
         /\ \A s \in Requests \ {r} : request'[s].phase = request[s].phase
<1>1. request \in [Requests -> [order : Orders, phase : Phases, day : Int]]
  BY DEF IInv, WellTyped
<1>2. ASSUME NEW phase \in {"inserted", "begun", "replayed", "failed"}, NEW day,
             request' = [request EXCEPT ![r].phase = phase, ![r].day = day]
      PROVE  /\ request'[r].phase = phase
             /\ \A s \in Requests : request'[s].order = request[s].order
             /\ \A s \in Requests \ {r} : request'[s].phase = request[s].phase
  BY <1>1, <1>2
<1>3. ASSUME NEW phase \in {"replayed", "failed"}, Moves(r, phase)
      PROVE  /\ request'[r].phase = phase
             /\ \A s \in Requests : request'[s].order = request[s].order
             /\ \A s \in Requests \ {r} : request'[s].phase = request[s].phase
  BY <1>1, <1>3 DEF Moves
<1>4. \/ request' = [request EXCEPT ![r].phase = "inserted", ![r].day = today]
      \/ request' = [request EXCEPT ![r].phase = "begun", ![r].day = today]
      \/ \E phase \in {"replayed", "failed"} : Moves(r, phase)
  BY DEF Begin
<1>. QED BY <1>2, <1>3, <1>4

\* A request that moves on without a commit leaves what is owed.
LEMMA QuietOwed ==
  ASSUME IInv, StillOwed, NEW r \in Requests,
         Begin(r) \/ Insert(r) \/ Lock(r) \/ Post(r) \/ Write(r) \/ Retry(r) \/ RolledBack(r)
  PROVE  StillOwed'
<1>. DEFINE o == request[r].order
<1>1. PICK p \in Intents : request[r].order.intent = p
  BY DEF IInv, WellTyped
<1>2. /\ request \in [Requests -> [order : Orders, phase : Phases, day : Int]]
      /\ today \in Int /\ o \in Orders 
  BY DEF IInv, WellTyped
<1>3. journals' = journals
  BY DEF Begin, Insert, Lock, Post, Write, Retry, RolledBack
<1>4. /\ \A s \in Requests : request'[s].order = request[s].order
      /\ \A s \in Requests \ {r} : request'[s].phase = request[s].phase
  <2>1. ASSUME NEW phase, Moves(r, phase)
        PROVE  /\ \A s \in Requests : request'[s].order = request[s].order
               /\ \A s \in Requests \ {r} : request'[s].phase = request[s].phase
    BY <1>2, <2>1 DEF Moves
  <2>2. CASE Begin(r)
    BY <2>2, BeginMoves
  <2>. QED BY <2>1, <2>2 DEF Insert, Lock, Post, Write, Retry, RolledBack
<1>5. ASSUME NEW phase, Moves(r, phase) PROVE request'[r].phase = phase
  BY <1>2, <1>5 DEF Moves
<1>6. ASSUME request'[r].phase \notin {"locked", "writing", "written"} PROVE StillOwed'
  BY <1>3, <1>4, <1>6, <1>1, MoveKeepsOwed DEF Holding
<1>7. CASE Begin(r)
  <2>1. request'[r].phase \in {"inserted", "begun", "replayed", "failed"}
    BY <1>7, BeginMoves
  <2>. QED BY <1>6, <2>1
<1>8. CASE Insert(r) \/ RolledBack(r)
  BY <1>5, <1>6, <1>8 DEF Insert, RolledBack
<1>9. CASE Lock(r)
  <2>1. Free(p) /\ request'[r].phase \in {"failed", "locked"}
    BY <1>1, <1>5, <1>9 DEF Lock
  <2>. QED BY <1>3, <1>4, <2>1, <1>1, MoveKeepsOwed DEF Holding
<1>10. CASE Post(r)
  <2>1. request[r].phase = "locked"
    BY <1>10 DEF Post
  <2>2. CASE o.amount > Outstanding(p)
    <3>1. Moves(r, "failed")
      BY <1>1, <1>10, <2>2 DEF Post
    <3>. QED BY <1>5, <1>6, <3>1
  <2>3. CASE ~(o.amount > Outstanding(p))
    <3>1. o.amount \in Int /\ Outstanding(p) \in Int
      BY <1>2, SumsAreNumbers
    <3>2. o.amount <= Outstanding(p)
      BY <2>3, <3>1
    <3>3. Holding(r)' => Holding(r)
      BY <1>4, <2>1 DEF Holding
    <3>. QED BY <1>3, <1>4, <3>2, <3>3, <1>1, MoveKeepsOwed
  <2>. QED BY <2>2, <2>3
<1>11. CASE Write(r)
  <2>1. request[r].phase = "writing"
    BY <1>11 DEF Write
  <2>2. Holding(r)' => Holding(r)
    BY <1>4, <2>1 DEF Holding
  <2>. QED BY <1>3, <1>4, <2>1, <2>2, <1>1, MoveKeepsOwed
<1>12. CASE Retry(r)
  <2>1. ~Holding(r)'
    BY <1>4, <1>12 DEF Retry, Holding
  <2>. QED BY <1>3, <1>4, <2>1, <1>1, MoveKeepsOwed
<1>. QED BY <1>7, <1>8, <1>9, <1>10, <1>11, <1>12

\* The commit books what is owed at most, and on no payment but its own.
LEMMA CommitOwed ==
  ASSUME IInv, StillOwed, NEW r \in Requests, Commit(r)
  PROVE  /\ StillOwed'
         /\ \A p \in Intents :
              \/ Sum(Of("settlement", p))' = Sum(Of("settlement", p))
              \/ Outstanding(p)' >= 0
<1>. DEFINE o == request[r].order
            b == Journal("settlement", o.ref, o.intent, o.amount, request[r].day, r)
<1>1. PICK p \in Intents : o.intent = p
  BY DEF IInv, WellTyped
<1>2. /\ request[r].phase = "written" /\ request'[r].phase = "done"
      /\ \A s \in Requests \ {r} : request'[s] = request[s]
      /\ \A s \in Requests : request'[s].order = request[s].order /\ request[s].order \in Orders
  BY DEF Commit, Moves, IInv, WellTyped
<1>3. ~Holding(r)' /\ \A s \in Requests \ {r} : Holding(s)' <=> Holding(s)
  BY <1>2 DEF Holding
<1>4. CASE journals' = journals
  <2>1. \A q : Outstanding(q)' = Outstanding(q)
               /\ Sum(Of("settlement", q))' = Sum(Of("settlement", q))
    BY <1>4, OwesTheSame DEF Of
  <2>2. StillOwed'
    BY <1>1, <1>2, <1>3, <1>4, MoveKeepsOwed
  <2>. QED BY <2>1, <2>2
<1>5. CASE o.action # "retry" /\ Known(o) = {} /\ journals' = journals \union {b}
  <2>1. o.amount \in Nat \ {0} /\ o.action = "settle" /\ Holding(r)
    BY <1>2, <1>5 DEF Holding
  <2>2. b.type = "settlement" /\ b.owner = p /\ b.amount = o.amount /\ b.ref = o.ref
    BY <1>1 DEF Journal
  <2>3. b \notin journals
    BY <1>1, <1>5, <2>2 DEF Known
  <2>. HIDE DEF b
  <2>4. Outstanding(p)' = Outstanding(p) - o.amount
    BY <1>5, <2>1, <2>2, <2>3, OwesLess
  <2>5. o.amount <= Outstanding(p) /\ Outstanding(p) \in Int
    BY <1>1, <1>2, <2>1, SumsAreNumbers DEF StillOwed
  <2>6. Outstanding(p)' >= 0
    BY <2>1, <2>4, <2>5
  <2>7. ASSUME NEW q, q # p
        PROVE  Outstanding(q)' = Outstanding(q)
               /\ Sum(Of("settlement", q))' = Sum(Of("settlement", q))
    <3>1. \A type \in Booked : Of(type, q)' = Of(type, q)
      BY <1>5, <2>2, <2>7 DEF Of
    <3>. QED BY <3>1, OwesTheSame
  <2>8. IsFiniteSet(journals')
    BY <1>5, FS_AddElement DEF StillOwed
  <2>9. \A j \in journals' : j.amount \in Nat \ {0}
    BY <1>5, <2>1, <2>2 DEF StillOwed
  <2>10. \A x \in Requests : \A y \in Requests \ {x} :
           Holding(x)' /\ Holding(y)' => request'[x].order.intent # request'[y].order.intent
    BY <1>2, <1>3 DEF StillOwed
  <2>11. ASSUME NEW x \in Requests, NEW q \in Intents,
                Holding(x)', request'[x].phase # "locked", request'[x].order.intent = q
         PROVE  request'[x].order.amount <= Outstanding(q)'
    <3>1. x # r /\ Holding(x) /\ request'[x] = request[x]
      BY <1>2, <1>3, <2>11
    <3>2. q # p
      BY <1>1, <2>1, <2>11, <3>1 DEF StillOwed
    <3>3. request[x].order.amount <= Outstanding(q)
      BY <2>11, <3>1 DEF StillOwed
    <3>. QED BY <2>7, <3>1, <3>2, <3>3
  <2>12. StillOwed'
    BY <2>8, <2>9, <2>10, <2>11 DEF StillOwed
  <2>13. \A q \in Intents : \/ Sum(Of("settlement", q))' = Sum(Of("settlement", q))
                            \/ Outstanding(q)' >= 0
    BY <2>6, <2>7
  <2>. QED BY <2>12, <2>13
<1>. QED BY <1>4, <1>5 DEF Commit

\* What others book is on a payment whose row nobody holds, or on a payout.
LEMMA BooksOwed ==
  ASSUME StillOwed, NEW new, IsFiniteSet(new), NEW p, Books(new),
         \A j \in new : j.type # "settlement" /\ j.amount \in Nat \ {0},
         \A j \in new : j.type # "payout" => j.owner = p /\ Free(p)
  PROVE  StillOwed' /\ \A q \in Intents : Sum(Of("settlement", q))' = Sum(Of("settlement", q))
<1>1. UNCHANGED request /\ journals' = journals \union new
  BY DEF Books
<1>2. ASSUME NEW q, q # p \/ ~Free(p)
      PROVE  Outstanding(q)' = Outstanding(q)
  <2>1. \A type \in Booked : Of(type, q)' = Of(type, q)
    BY <1>1, <1>2 DEF Of, Booked
  <2>. QED BY <2>1, OwesTheSame
<1>3. ASSUME NEW q \in Intents PROVE Sum(Of("settlement", q))' = Sum(Of("settlement", q))
  <2>1. Of("settlement", q)' = Of("settlement", q)
    BY <1>1 DEF Of
  <2>. QED BY <2>1 DEF Sum
<1>4. IsFiniteSet(journals')
  BY <1>1, FS_Union DEF StillOwed
<1>5. \A j \in journals' : j.amount \in Nat \ {0}
  BY <1>1 DEF StillOwed
<1>6. \A x \in Requests : Holding(x)' <=> Holding(x)
  BY <1>1 DEF Holding
<1>7. Free(p) => \A x \in Requests : Holding(x) => request[x].order.intent # p
  BY DEF Free, Holding
<1>8. ASSUME NEW x \in Requests, NEW q \in Intents,
             Holding(x)', request'[x].phase # "locked", request'[x].order.intent = q
      PROVE  request'[x].order.amount <= Outstanding(q)'
  <2>1. Holding(x) /\ request[x].order.amount <= Outstanding(q)
    BY <1>1, <1>6, <1>8 DEF StillOwed
  <2>2. q # p \/ ~Free(p)
    BY <1>1, <1>7, <1>8, <2>1
  <2>. QED BY <1>1, <1>2, <2>1, <2>2
<1>9. StillOwed'
  BY <1>1, <1>4, <1>5, <1>6, <1>8 DEF StillOwed
<1>. QED BY <1>3, <1>9

\* Every step keeps the invariant, and settles no more than is owed.
LEMMA NextOwed ==
  ASSUME IInv, StillOwed, [Next]_vars
  PROVE  /\ StillOwed'
         /\ \A p \in Intents :
              \/ Sum(Of("settlement", p))' = Sum(Of("settlement", p))
              \/ Outstanding(p)' >= 0
<1>. DEFINE Fits == \A p \in Intents :
              \/ Sum(Of("settlement", p))' = Sum(Of("settlement", p))
              \/ Outstanding(p)' >= 0
<1>1. ASSUME journals' = journals PROVE Fits
  BY <1>1, OwesTheSame DEF Of
<1>2. ASSUME NEW r \in Requests,
             Begin(r) \/ Insert(r) \/ Lock(r) \/ Post(r) \/ Write(r) \/ Retry(r) \/ RolledBack(r)
      PROVE  StillOwed' /\ Fits
  <2>1. journals' = journals
    BY <1>2 DEF Begin, Insert, Lock, Post, Write, Retry, RolledBack
  <2>. QED BY <1>1, <1>2, <2>1, QuietOwed
<1>3. ASSUME NEW r \in Requests, Commit(r) PROVE StillOwed' /\ Fits
  BY <1>3, CommitOwed
<1>4. ASSUME NEW e \in Events, Capture(e) PROVE StillOwed' /\ Fits
  <2>. DEFINE p == Confirms[e]
              one == Journal("capture", e, p, Gross[p], today, None)
              two == Journal("fee", e, p, Fee[e], today, None)
              new == {one} \union IF Fee[e] > 0 THEN {two} ELSE {}
  <2>1. /\ one.type = "capture" /\ one.owner = p /\ one.amount = Gross[p]
        /\ two.type = "fee" /\ two.owner = p /\ two.amount = Fee[e]
    BY DEF Journal
  <2>2. Books(new) /\ Free(p)
    BY <1>4 DEF Capture
  <2>. HIDE DEF one, two
  <2>3. IsFiniteSet(new)
    BY FS_EmptySet, FS_AddElement, FS_Singleton, FS_Union
  <2>4. \A j \in new : /\ j.type # "settlement" /\ j.amount \in Nat \ {0}
                       /\ j.owner = p
    BY <2>1
  <2>. HIDE DEF new
  <2>. QED BY <2>2, <2>3, <2>4, BooksOwed
<1>5. ASSUME NEW f \in Refunds, Refund(f) PROVE StillOwed' /\ Fits
  <2>. DEFINE p == GivesBack[f]
              one == Journal("refund", f, p, Given[f], today, None)
  <2>1. one.type = "refund" /\ one.owner = p /\ one.amount \in Nat \ {0}
    BY <1>5 DEF Journal, Refund
  <2>2. Books({one}) /\ Free(p)
    BY <1>5 DEF Refund
  <2>. HIDE DEF one
  <2>. QED BY <2>1, <2>2, BooksOwed, FS_Singleton
<1>6. ASSUME NEW p \in Payouts, Payout(p) PROVE StillOwed' /\ Fits
  <2>. DEFINE one == Journal("payout", p, p, Gross[p], today, None)
  <2>1. one.type = "payout" /\ one.amount \in Nat \ {0}
    BY DEF Journal
  <2>2. Books({one})
    BY <1>6 DEF Payout
  <2>. HIDE DEF one
  <2>. QED BY <2>1, <2>2, BooksOwed, FS_Singleton
<1>7. ASSUME (\E p \in Intents : Deliver(p)) \/ Midnight \/ UNCHANGED vars
      PROVE  StillOwed' /\ Fits
  <2>1. UNCHANGED <<journals, request>>
    BY <1>7 DEF Deliver, Midnight, vars
  <2>2. \A p : Outstanding(p)' = Outstanding(p)
    BY <2>1, OwesTheSame DEF Of
  <2>3. \A r \in Requests : Holding(r)' <=> Holding(r)
    BY <2>1 DEF Holding
  <2>4. StillOwed'
    BY <2>1, <2>2, <2>3 DEF StillOwed
  <2>. QED BY <1>1, <2>1, <2>4
<1>. QED BY <1>2, <1>3, <1>4, <1>5, <1>6, <1>7 DEF Next

\* What a request checked is still owed, in every state.
LEMMA OwedAlways == Spec => []StillOwed
<1>1. IInv /\ StillOwed /\ [Next]_vars => StillOwed'
  BY NextOwed
<1>. QED BY <1>1, InitOwed, Invariant, PTL DEF Spec

\* A settlement is booked only up to what the provider still owes for its payment,
\* for any number of requests, refunds and captures at once: the payment's row is
\* locked from the sum to the commit.
THEOREM SettledWithinOwed == Spec => SettlementsFit
<1>1. IInv /\ StillOwed /\ [Next]_vars =>
        [\A p \in Intents :
           Sum(Of("settlement", p))' > Sum(Of("settlement", p)) => Outstanding(p)' >= 0]_vars
  <2>1. ASSUME IInv, StillOwed, [Next]_vars, NEW p \in Intents,
               Sum(Of("settlement", p))' > Sum(Of("settlement", p))
        PROVE  Outstanding(p)' >= 0
    <3>1. Sum(Of("settlement", p)) \in Nat
      BY <2>1, SumsAreNumbers
    <3>2. Sum(Of("settlement", p))' # Sum(Of("settlement", p))
      BY <2>1, <3>1
    <3>. QED BY <2>1, <3>2, NextOwed
  <2>. QED BY <2>1
<1>. QED BY <1>1, Invariant, OwedAlways, PTL DEF Spec, SettlementsFit

-----------------------------------------------------------------------------
(* The reports *)

\* A payout's journal is its owner's; the others are a payment's, an event's or a refund's.
Ascribed ==
  /\ \A j \in journals : j.type = "payout" \/ (j.type \in Booked /\ j.owner \in Intents)
  /\ \A j \in journals : j.type = "capture" => j.ref \in Events /\ j.owner = Confirms[j.ref]
  /\ \A j \in journals : j.type = "refund" => j.ref \in Refunds /\ j.owner = GivesBack[j.ref]

\* Every journal is ascribed.
LEMMA AscribedAlways == Spec => []Ascribed
<1>1. Init => Ascribed
  BY DEF Init, Ascribed
<1>2. IInv /\ Ascribed /\ [Next]_vars => Ascribed'
  <2>. SUFFICES ASSUME IInv, Ascribed, [Next]_vars PROVE Ascribed'
    OBVIOUS
  <2>1. CASE journals' = journals
    BY <2>1 DEF Ascribed
  <2>2. ASSUME NEW r \in Requests, Commit(r)
        PROVE  Ascribed'
    <3>1. request[r].order \in Orders
      BY DEF IInv, WellTyped
    <3>2. request[r].order.intent \in Intents
      BY <3>1
    <3>. QED BY <2>1, <2>2, <3>2 DEF Commit, Ascribed, Journal, Booked
  <2>3. ASSUME NEW e \in Events, Capture(e)
        PROVE  Ascribed'
    BY <2>3 DEF Capture, Books, Ascribed, Journal, Booked
  <2>5. ASSUME NEW f \in Refunds, Refund(f)
        PROVE  Ascribed'
    BY <2>5 DEF Refund, Books, Ascribed, Journal, Booked
  <2>4. ASSUME NEW p \in Payouts, Payout(p)
        PROVE  Ascribed'
    BY <2>4 DEF Payout, Books, Ascribed, Journal
  <2>. QED BY <2>1, <2>2, <2>3, <2>4, <2>5
           DEF Next, vars, Begin, Insert, Lock, Post, Write, Retry, RolledBack, Deliver, Midnight
<1>. QED BY <1>1, <1>2, Invariant, PTL DEF Spec

\* What the journals of a day and type in each group add up to.
Keys(day) == [j \in On(day) |-> GroupOf(j)]
Amounts(day) == [j \in On(day) |-> j.amount]
Totals(day, type) == PerKey(Typed(On(day), type), Keys(day), Groups(day), Amounts(day))

\* The groups are finitely many, and their totals add up to the day's.
LEMMA TotalsOfADay ==
  ASSUME StillOwed, NEW day, NEW type
  PROVE  /\ IsFiniteSet(Groups(day))
         /\ \A g \in Groups(day) :
              /\ Totals(day, type)[g] \in Nat
              /\ Totals(day, type)[g] = Sum(Typed(Group(day, g), type))
         /\ SumOf(Groups(day), Totals(day, type)) = DailyTotal(day, type)
<1>. DEFINE S == Typed(On(day), type)
<1>1. IsFiniteSet(On(day)) /\ IsFiniteSet(S)
  BY FS_Subset DEF StillOwed, On, Typed
<1>2. IsFiniteSet(Groups(day))
  <2>1. Keys(day) \in Surjection(On(day), Groups(day))
    BY DEF Keys, Groups, Surjection
  <2>. QED BY <1>1, <2>1, FS_Surjection
<1>3. /\ \A j \in S : Amounts(day)[j] \in Nat /\ Amounts(day)[j] = j.amount
      /\ \A j \in S : Keys(day)[j] \in Groups(day)
  BY DEF StillOwed, On, Typed, Amounts, Keys, Groups
<1>4. ASSUME NEW T \in SUBSET S
      PROVE  SumOf(T, Amounts(day)) = Sum(T)
  <2>. DEFINE own == [j \in T |-> j.amount]
  <2>1. \A j \in T : Amounts(day)[j] = own[j]
    BY <1>3
  <2>2. Sum(T) = SumOf(T, own)
    BY DEF Sum
  <2>. HIDE DEF own, S
  <2>. QED BY <2>1, <2>2, SumOfSame
<1>5. \A g \in Groups(day) : KeyedBy(S, Keys(day), g) = Typed(Group(day, g), type)
  BY DEF KeyedBy, Keys, Typed, Group, On
<1>6. \A g \in Groups(day) : Totals(day, type)[g] = Sum(Typed(Group(day, g), type))
  <2>1. \A g \in Groups(day) : Totals(day, type)[g] = SumOf(KeyedBy(S, Keys(day), g), Amounts(day))
    BY DEF Totals, PerKey
  <2>2. \A g \in Groups(day) : KeyedBy(S, Keys(day), g) \in SUBSET S
    BY DEF KeyedBy
  <2>. HIDE DEF S
  <2>. QED BY <1>4, <1>5, <2>1, <2>2
<1>7. /\ \A g \in Groups(day) : Totals(day, type)[g] \in Nat
      /\ SumOf(Groups(day), Totals(day, type)) = SumOf(S, Amounts(day))
  <2>. HIDE DEF S
  <2>1. /\ \A g \in Groups(day) : PerKey(S, Keys(day), Groups(day), Amounts(day))[g] \in Nat
        /\ SumOf(Groups(day), PerKey(S, Keys(day), Groups(day), Amounts(day))) = SumOf(S, Amounts(day))
    BY <1>1, <1>2, <1>3, SumOfParts
  <2>. QED BY <2>1 DEF Totals, S
<1>8. SumOf(S, Amounts(day)) = DailyTotal(day, type)
  BY <1>4 DEF DailyTotal
<1>. QED BY <1>2, <1>6, <1>7, <1>8

\* No journals, no money.
LEMMA SumOfNoJournal == Sum({}) = 0
BY SumOfNone DEF Sum

\* A group has payouts or payments, and its entry says what its journals add up to.
LEMMA EntryOfAGroup ==
  ASSUME StillOwed, Ascribed, \A p \in Intents : Flow[p] # "payout",
         NEW day, NEW g \in Groups(day)
  PROVE  LET entry == Entry(Group(day, g))
             total(type) == Sum(Typed(Group(day, g), type)) IN
         /\ entry.gross = total("capture") + total("payout")
         /\ entry.refund = total("refund") /\ entry.fee = total("fee")
         /\ entry.settled = total("settlement")
         /\ entry.outstanding
              = total("capture") - (total("refund") + (total("fee") + total("settlement")))
<1>. DEFINE G == Group(day, g)
            total(type) == Sum(Typed(G, type))
<1>1. ASSUME NEW type PROVE total(type) \in Nat
  <2>1. Totals(day, type)[g] \in Nat /\ Totals(day, type)[g] = Sum(Typed(Group(day, g), type))
    BY ONLY StillOwed, g \in Groups(day), TotalsOfADay, Zenon
  <2>. QED BY <2>1
<1>2. PICK i \in G : TRUE
  BY DEF Groups, Group
<1>3. \A j \in G : j.type = "payout" <=> g[3] = "payout"
  BY DEF Group, On, GroupOf, Ascribed, Booked
<1>4. CASE g[3] = "payout"
  <2>1. \A type \in Booked : Typed(G, type) = {}
    BY <1>3, <1>4 DEF Typed, Booked
  <2>2. \A type \in Booked : total(type) = 0
    BY <2>1, SumOfNoJournal
  <2>3. \E j \in G : j.type = "payout"
    BY <1>2, <1>3, <1>4
  <2>. HIDE DEF G
  <2>. QED BY <1>1, <2>2, <2>3 DEF Entry, G, Booked
<1>5. CASE g[3] # "payout"
  <2>1. Typed(G, "payout") = {}
    BY <1>3, <1>5 DEF Typed
  <2>2. total("payout") = 0
    BY <2>1, SumOfNoJournal
  <2>3. ~ \E j \in G : j.type = "payout"
    BY <1>3, <1>5
  <2>. HIDE DEF G
  <2>. QED BY <1>1, <2>2, <2>3 DEF Entry, G
<1>. QED BY <1>4, <1>5

\* One day's entries add up.
LEMMA DayAddsUp ==
  ASSUME StillOwed, Ascribed, \A p \in Intents : Flow[p] # "payout", NEW day
  PROVE  LET entry == AccountingSummary(day)
             sum(field) == SumOf(Groups(day), [g \in Groups(day) |-> entry[g][field]]) IN
         /\ sum("gross") = DailyTotal(day, "capture") + DailyTotal(day, "payout")
         /\ sum("refund") = DailyTotal(day, "refund")
         /\ sum("fee") = DailyTotal(day, "fee")
         /\ sum("settled") = DailyTotal(day, "settlement")
         /\ BalanceOf(Groups(day), [g \in Groups(day) |-> entry[g].outstanding])
              = UnsettledDelta(day)
<1>. DEFINE K == Groups(day)
            entry == AccountingSummary(day)
            field(f) == [g \in K |-> entry[g][f]]
            total(type) == Totals(day, type)
            kept == [g \in K |-> total("fee")[g] + total("settlement")[g]]
            out == [g \in K |-> total("refund")[g] + kept[g]]
<1>1. /\ IsFiniteSet(K)
      /\ \A type : \A g \in K : total(type)[g] \in Nat
      /\ \A type : SumOf(K, total(type)) = DailyTotal(day, type)
  BY TotalsOfADay
<1>2. \A g \in K : entry[g] = Entry(Group(day, g))
  BY DEF AccountingSummary
<1>3. \A g \in K :
        /\ field("gross")[g] = total("capture")[g] + total("payout")[g]
        /\ field("refund")[g] = total("refund")[g]
        /\ field("fee")[g] = total("fee")[g]
        /\ field("settled")[g] = total("settlement")[g]
        /\ field("outstanding")[g] = total("capture")[g] - out[g]
  <2>. SUFFICES ASSUME NEW g \in K
                PROVE  /\ field("gross")[g] = total("capture")[g] + total("payout")[g]
                       /\ field("refund")[g] = total("refund")[g]
                       /\ field("fee")[g] = total("fee")[g]
                       /\ field("settled")[g] = total("settlement")[g]
                       /\ field("outstanding")[g] = total("capture")[g] - out[g]
    OBVIOUS
  <2>1. \A type : total(type)[g] = Sum(Typed(Group(day, g), type))
    BY TotalsOfADay
  <2>2. \A f : field(f)[g] = Entry(Group(day, g))[f]
    BY <1>2
  <2>. HIDE DEF entry, total, field
  <2>. QED BY <2>1, <2>2, EntryOfAGroup
<1>4. /\ Adds(K, field("gross"), total("capture"), total("payout"))
      /\ Adds(K, out, total("refund"), kept)
      /\ Adds(K, kept, total("fee"), total("settlement"))
      /\ \A g \in K : out[g] \in Nat
  <2>. HIDE DEF field, total, entry, K
  <2>. QED BY <1>1, <1>3 DEF Adds
<1>. HIDE DEF K, field, total, kept, out
<1>5. SumOf(K, field("gross")) = SumOf(K, total("capture")) + SumOf(K, total("payout"))
  BY <1>1, <1>4, SumOfBoth
<1>6. /\ SumOf(K, field("refund")) = SumOf(K, total("refund"))
      /\ SumOf(K, field("fee")) = SumOf(K, total("fee"))
      /\ SumOf(K, field("settled")) = SumOf(K, total("settlement"))
  BY <1>3, SumOfSame
<1>7. /\ SumOf(K, out) = SumOf(K, total("refund")) + SumOf(K, kept)
      /\ SumOf(K, kept) = SumOf(K, total("fee")) + SumOf(K, total("settlement"))
  BY <1>1, <1>4, SumOfBoth
<1>8. BalanceOf(K, field("outstanding")) = SumOf(K, total("capture")) - SumOf(K, out)
  BY <1>1, <1>3, <1>4, BalanceOfDifference
<1>9. \A type : SumOf(K, total(type)) \in Nat
  BY <1>1, SumType
<1>10. BalanceOf(K, field("outstanding")) = UnsettledDelta(day)
  BY <1>1, <1>7, <1>8, <1>9 DEF UnsettledDelta
<1>. QED BY <1>1, <1>5, <1>6, <1>10 DEF K, field

\* The entries of a day's accounting summary add up to the day's totals, and their
\* outstanding amounts to the daily delta, whatever was booked, if no payment's flow is
\* called payout (summary, pilotage_daily_summary).
THEOREM SummariesAddUp ==
  ASSUME \A p \in Intents : Flow[p] # "payout"
  PROVE  Spec => []ReportsAddUp
<1>1. StillOwed /\ Ascribed => ReportsAddUp
  <2>. SUFFICES ASSUME StillOwed, Ascribed PROVE ReportsAddUp
    OBVIOUS
  <2>. QED BY DayAddsUp DEF ReportsAddUp
<1>. QED BY <1>1, OwedAlways, AscribedAlways, PTL

-----------------------------------------------------------------------------
(* Commands take effect as if each were alone *)

\* A fee is booked with its payment's capture; a retry that is to commit has the callback
\* row, which still says what it found.
RowsAreHeld ==
  /\ callback \in [Intents -> {"dead_letter", "pending", "delivered"}]
  /\ \A e \in Events : Posted("fee", e) => Posted("capture", e)
  /\ \A c \in commands : c.order.id # None
  /\ \A r \in Requests :
       request[r].phase \in {"locked", "writing"} => request[r].order.action = "settle"
  /\ \A r \in Requests :
       request[r].phase = "written" /\ request[r].order.action = "retry" =>
         /\ callback[request[r].order.intent] = "dead_letter"
         /\ \A s \in Requests \ {r} :
              request[s].phase = "written" /\ request[s].order.action = "retry" =>
                request[s].order.intent # request[r].order.intent

\* A request that moves on without a commit takes a callback row only if it is free.
LEMMA QuietRows ==
  ASSUME IInv, RowsAreHeld, NEW r \in Requests,
         Begin(r) \/ Insert(r) \/ Lock(r) \/ Post(r) \/ Write(r) \/ Retry(r) \/ RolledBack(r)
  PROVE  RowsAreHeld'
<1>. DEFINE o == request[r].order
            Has(s) == request[s].phase = "written" /\ request[s].order.action = "retry"
<1>1. /\ UNCHANGED <<journals, commands, callback>>
      /\ \A type, ref : Posted(type, ref)' <=> Posted(type, ref)
  BY DEF Begin, Insert, Lock, Post, Write, Retry, RolledBack, Posted
<1>2. request \in [Requests -> [order : Orders, phase : Phases, day : Int]]
  BY DEF IInv, WellTyped
<1>3. ASSUME NEW phase, Moves(r, phase)
      PROVE  /\ request'[r].phase = phase
             /\ \A s \in Requests : request'[s].order = request[s].order
             /\ \A s \in Requests \ {r} : request'[s].phase = request[s].phase
  BY <1>2, <1>3 DEF Moves
<1>4. /\ \A s \in Requests : request'[s].order = request[s].order
      /\ \A s \in Requests \ {r} : request'[s].phase = request[s].phase
  <2>1. CASE Begin(r)
    BY <2>1, BeginMoves
  <2>. QED BY <1>3, <2>1 DEF Insert, Lock, Post, Write, Retry, RolledBack
<1>5. \A s \in Requests \ {r} : Has(s)' <=> Has(s)
  BY <1>4
<1>6. Has(r)' => /\ callback[o.intent] = "dead_letter"
                 /\ \A s \in Requests \ {r} : Has(s) => request[s].order.intent # o.intent
  <2>1. CASE Retry(r)
    <3>1. /\ CallbackFree(o.intent)
          /\ Moves(r, IF callback[o.intent] = "dead_letter" THEN "written" ELSE "failed")
      BY <2>1 DEF Retry
    <3>2. Has(r)' => callback[o.intent] = "dead_letter"
      BY <1>3, <3>1
    <3>. QED BY <3>1, <3>2 DEF CallbackFree
  <2>2. CASE Begin(r)
    BY <2>2, BeginMoves
  <2>3. CASE Insert(r) \/ Lock(r) \/ RolledBack(r)
    BY <1>3, <2>3 DEF Insert, Lock, RolledBack
  <2>4. CASE Post(r) \/ Write(r)
    <3>1. o.action # "retry"
      BY <2>4 DEF Post, Write, RowsAreHeld
    <3>. QED BY <1>4, <3>1
  <2>. QED BY <2>1, <2>2, <2>3, <2>4
<1>7. request'[r].phase \in {"locked", "writing"} => o.action = "settle"
  <2>1. CASE Begin(r)
    BY <2>1, BeginMoves
  <2>2. CASE ~Begin(r)
    BY <1>3, <2>2 DEF Insert, Lock, Post, Write, Retry, RolledBack, RowsAreHeld
  <2>. QED BY <2>1, <2>2
<1>8. \A s \in Requests :
        request'[s].phase \in {"locked", "writing"} => request'[s].order.action = "settle"
  BY <1>4, <1>7 DEF RowsAreHeld
<1>9. ASSUME NEW x \in Requests, Has(x)'
      PROVE  /\ callback'[request'[x].order.intent] = "dead_letter"
             /\ \A s \in Requests \ {x} : Has(s)' => request'[s].order.intent # request'[x].order.intent
  <2>1. CASE x = r
    BY <1>1, <1>4, <1>5, <1>6, <1>9, <2>1
  <2>2. CASE x # r
    BY <1>1, <1>4, <1>5, <1>6, <1>9, <2>2 DEF RowsAreHeld
  <2>. QED BY <2>1, <2>2
<1>. QED BY <1>1, <1>8, <1>9 DEF RowsAreHeld

\* A commit lets its callback row go; what others book touches neither commands nor callbacks.
LEMMA NextRows ==
  ASSUME IInv, RowsAreHeld, [Next]_vars
  PROVE  RowsAreHeld'
<1>t. request \in [Requests -> [order : Orders, phase : Phases, day : Int]]
  BY DEF IInv, WellTyped
<1>1. ASSUME NEW r \in Requests, Commit(r)
      PROVE  RowsAreHeld'
  <2>. DEFINE o == request[r].order
              b == Journal("settlement", o.ref, o.intent, o.amount, request[r].day, r)
  <2>1. /\ request[r].phase = "written" /\ request'[r].phase = "done"
        /\ \A s \in Requests \ {r} : request'[s] = request[s]
        /\ \A s \in Requests : request'[s].order = request[s].order
        /\ o \in Orders /\ o.intent \in Intents
    BY <1>1, <1>t DEF Commit, Moves
  <2>2. \A type \in {"capture", "fee"} : \A ref : Posted(type, ref)' <=> Posted(type, ref)
    <3>1. journals' = journals \/ journals' = journals \union {b}
      BY <1>1 DEF Commit
    <3>2. b.type = "settlement"
      BY DEF Journal
    <3>. HIDE DEF b
    <3>. QED BY <3>1, <3>2 DEF Posted
  <2>3. \A c \in commands' : c.order.id # None
    BY <1>1 DEF Commit, RowsAreHeld
  <2>4. /\ callback' \in [Intents -> {"dead_letter", "pending", "delivered"}]
        /\ \A p \in Intents : callback'[p] = callback[p] \/ (o.action = "retry" /\ p = o.intent)
    BY <1>1, <2>1 DEF Commit, RowsAreHeld
  <2>5. ASSUME NEW x \in Requests, request'[x].phase = "written", request'[x].order.action = "retry"
        PROVE  /\ callback'[request'[x].order.intent] = "dead_letter"
               /\ \A s \in Requests \ {x} :
                    request'[s].phase = "written" /\ request'[s].order.action = "retry" =>
                      request'[s].order.intent # request'[x].order.intent
    <3>1. x # r /\ request'[x] = request[x] /\ request[x].order.intent \in Intents
      BY <1>t, <2>1, <2>5
    <3>2. callback'[request[x].order.intent] = callback[request[x].order.intent]
      BY <2>1, <2>4, <2>5, <3>1 DEF RowsAreHeld
    <3>. QED BY <2>1, <2>5, <3>1, <3>2 DEF RowsAreHeld
  <2>6. \A s \in Requests :
          request'[s].phase \in {"locked", "writing"} => request'[s].order.action = "settle"
    BY <2>1 DEF RowsAreHeld
  <2>. QED BY <2>2, <2>3, <2>4, <2>5, <2>6 DEF RowsAreHeld
<1>2. ASSUME NEW new, Books(new),
             \A j \in new : j.type = "fee" => \E i \in new : i.type = "capture" /\ i.ref = j.ref
      PROVE  RowsAreHeld'
  <2>1. UNCHANGED <<commands, request, callback>> /\ journals' = journals \union new
    BY <1>2 DEF Books
  <2>2. ASSUME NEW e \in Events, Posted("fee", e)'
        PROVE  Posted("capture", e)'
    <3>1. CASE Posted("fee", e)
      BY <2>1, <3>1 DEF Posted, RowsAreHeld
    <3>2. CASE ~Posted("fee", e)
      BY <1>2, <2>1, <2>2, <3>2 DEF Posted
    <3>. QED BY <3>1, <3>2
  <2>. QED BY <2>1, <2>2 DEF RowsAreHeld
<1>3. ASSUME NEW e \in Events, Capture(e)
      PROVE  RowsAreHeld'
  <2>. DEFINE p == Confirms[e]
              one == Journal("capture", e, p, Gross[p], today, None)
              two == Journal("fee", e, p, Fee[e], today, None)
              new == {one} \union IF Fee[e] > 0 THEN {two} ELSE {}
  <2>1. one.type = "capture" /\ one.ref = e /\ two.ref = e
    BY DEF Journal
  <2>2. Books(new)
    BY <1>3 DEF Capture
  <2>. HIDE DEF one, two
  <2>3. \A j \in new : \E i \in new : i.type = "capture" /\ i.ref = j.ref
    BY <2>1
  <2>. HIDE DEF new
  <2>. QED BY <1>2, <2>2, <2>3
<1>4. ASSUME NEW f \in Refunds, Refund(f)
      PROVE  RowsAreHeld'
  <2>1. Books({Journal("refund", f, GivesBack[f], Given[f], today, None)})
    BY <1>4 DEF Refund
  <2>. QED BY <1>2, <2>1 DEF Journal
<1>5. ASSUME NEW p \in Payouts, Payout(p)
      PROVE  RowsAreHeld'
  <2>1. Books({Journal("payout", p, p, Gross[p], today, None)})
    BY <1>5 DEF Payout
  <2>. QED BY <1>2, <2>1 DEF Journal
<1>6. ASSUME NEW p \in Intents, Deliver(p)
      PROVE  RowsAreHeld'
  <2>1. /\ callback[p] = "pending"
        /\ callback' \in [Intents -> {"dead_letter", "pending", "delivered"}]
        /\ \A q \in Intents \ {p} : callback'[q] = callback[q]
        /\ UNCHANGED <<journals, commands, request>>
    BY <1>6 DEF Deliver, RowsAreHeld
  <2>2. \A r \in Requests : request[r].order.intent \in Intents
    BY <1>t
  <2>3. \A type, ref : Posted(type, ref)' <=> Posted(type, ref)
    BY <2>1 DEF Posted
  <2>. QED BY <2>1, <2>2, <2>3 DEF RowsAreHeld
<1>7. CASE Midnight \/ UNCHANGED vars
  <2>1. UNCHANGED <<journals, commands, request, callback>>
    BY <1>7 DEF Midnight, vars
  <2>2. \A type, ref : Posted(type, ref)' <=> Posted(type, ref)
    BY <2>1 DEF Posted
  <2>. QED BY <2>1, <2>2 DEF RowsAreHeld
<1>. QED BY <1>1, <1>3, <1>4, <1>5, <1>6, <1>7, QuietRows DEF Next

\* The rows are held, in every state.
LEMMA RowsAlways == Spec => []RowsAreHeld
<1>1. Init => RowsAreHeld
  <2>. SUFFICES ASSUME Init PROVE RowsAreHeld
    OBVIOUS
  <2>1. \A r \in Requests : request[r].phase = "new"
    BY DEF Init
  <2>. QED BY <2>1 DEF Init, RowsAreHeld, Posted
<1>2. IInv /\ RowsAreHeld /\ [Next]_vars => RowsAreHeld'
  BY NextRows
<1>. QED BY <1>1, <1>2, Invariant, PTL DEF Spec

\* What the promise says of captures and refunds, as the committed rows have it.
Captured == {e \in Events : Posted("capture", e)}
Refunded == {f \in Refunds : Posted("refund", f)}

\* What the promise speaks of stays if nothing is booked or carried out that it counts.
LEMMA PromiseStutters ==
  ASSUME \A type \in Booked : \A p \in Intents : Of(type, p)' = Of(type, p),
         UNCHANGED <<Captured, Refunded, commands>>,
         Typed(journals, "settlement")' = Typed(journals, "settlement"),
         \A p \in Intents : callback'[p] = "dead_letter" <=> callback[p] = "dead_letter"
  PROVE  [Promise!Next]_Promise!promised
<1>1. \A p \in Intents : Outstanding(p)' = Outstanding(p)
  BY OwesTheSame
<1>2. /\ [p \in Intents |-> Outstanding(p)'] = [p \in Intents |-> Outstanding(p)]
      /\ {p \in Intents : callback'[p] = "dead_letter"} = {p \in Intents : callback[p] = "dead_letter"}
  BY <1>1
<1>. QED BY <1>2 DEF Promise!promised, Captured, Refunded

\* A commit is a settlement or a retry, carried out at once.
LEMMA CommitKeepsPromise ==
  ASSUME IInv, StillOwed, RowsAreHeld, NEW r \in Requests, Commit(r)
  PROVE  Promise!Next
<1>. DEFINE refs == {j.ref : j \in Typed(journals, "settlement")}
            carried == {c.order : c \in commands}
<1>o. PICK o \in Orders : o = request[r].order
  BY DEF IInv, WellTyped
<1>b. PICK b : b = Journal("settlement", o.ref, o.intent, o.amount, request[r].day, r)
  OBVIOUS
<1>c. PICK new : new = [order |-> o, by |-> r]
  OBVIOUS
<1>1. /\ request[r].phase = "written" /\ o.intent \in Intents
      /\ o.amount \in Nat \ {0} /\ o.action \in {"settle", "retry"}
      /\ o.id = None => o.action = "settle"
      /\ o.id = None <=> o.key = None
  BY <1>o DEF Commit
<1>2. b.type = "settlement" /\ b.owner = o.intent /\ b.amount = o.amount /\ b.ref = o.ref
  BY <1>b DEF Journal
<1>3. /\ commands' = IF o.id = None THEN commands ELSE commands \union {new}
      /\ journals' = IF o.action = "retry" \/ Known(o) # {} THEN journals
                     ELSE journals \union {b}
      /\ callback' = IF o.action = "retry" THEN [callback EXCEPT ![o.intent] = "pending"]
                     ELSE callback
  BY <1>o, <1>b, <1>c DEF Commit
<1>4. IF o.id = None THEN carried' = carried
      ELSE /\ \A c \in carried : c.id # o.id /\ c.key # o.key
           /\ carried' = carried \union {o}
  <2>1. \A c \in commands : ~SameCommand(c.order, o) /\ c.order.id # None
    BY <1>1, <1>o DEF IInv, OneOpen, RowsAreHeld, Open
  <2>2. \A c \in commands : c.order.id # o.id /\ c.order.key # o.key
    BY <2>1 DEF SameCommand
  <2>3. o.id = None => carried' = carried
    BY <1>3
  <2>4. o.id # None => carried' = carried \union {o}
    <3>1. new.order = o
      BY <1>c
    <3>. QED BY <1>3, <3>1
  <2>. QED BY <2>2, <2>3, <2>4
<1>6. Captured' = Captured /\ Refunded' = Refunded
  <2>1. journals' = journals \/ journals' = journals \union {b}
    BY <1>3
  <2>. QED BY <1>2, <2>1 DEF Captured, Refunded, Posted
<1>7. o.ref \in refs <=> Known(o) # {}
  BY DEF Known, Typed
<1>8. CASE o.action = "settle"
  <2>1. o.amount <= Outstanding(o.intent)
    BY <1>1, <1>8, <1>o DEF StillOwed, Holding
  <2>2. callback' = callback
    BY <1>3, <1>8
  <2>3. CASE Known(o) # {}
    <3>1. journals' = journals
      BY <1>3, <2>3
    <3>2. /\ [p \in Intents |-> Outstanding(p)'] = [p \in Intents |-> Outstanding(p)]
          /\ refs' = refs
      <4>1. \A p \in Intents : Outstanding(p)' = Outstanding(p)
        BY <3>1, OwesTheSame DEF Of
      <4>2. Typed(journals, "settlement")' = Typed(journals, "settlement")
        BY <3>1 DEF Typed
      <4>. QED BY <4>1, <4>2
    <3>3. Promise!Settle(o)
      BY <1>1, <1>4, <1>6, <1>7, <1>8, <2>1, <2>2, <2>3, <3>2 DEF Promise!Settle, Promise!CarriedOut, Captured, Refunded
    <3>. QED BY <1>1, <3>3 DEF Promise!Next
  <2>4. CASE Known(o) = {}
    <3>1. journals' = journals \union {b} /\ b \notin journals
      BY <1>2, <1>3, <1>8, <2>4 DEF Known
    <3>2. Outstanding(o.intent)' = Outstanding(o.intent) - o.amount
      <4>1. b.amount \in Nat
        BY <1>1, <1>2
      <4>. QED BY <1>1, <1>2, <3>1, <4>1, OwesLess
    <3>3. ASSUME NEW p \in Intents, p # o.intent
          PROVE  Outstanding(p)' = Outstanding(p)
      <4>1. \A type \in Booked : Of(type, p)' = Of(type, p)
        BY <1>2, <3>1, <3>3 DEF Of
      <4>. QED BY <4>1, OwesTheSame
    <3>4. [p \in Intents |-> Outstanding(p)']
            = [[p \in Intents |-> Outstanding(p)] EXCEPT ![o.intent] = @ - o.amount]
      BY <1>1, <3>2, <3>3
    <3>5. refs' = refs \union {o.ref}
      <4>1. Typed(journals, "settlement")' = Typed(journals, "settlement") \union {b}
        BY <1>2, <3>1 DEF Typed
      <4>. QED BY <1>2, <4>1
    <3>6. Promise!Settle(o)
      BY <1>1, <1>4, <1>6, <1>7, <1>8, <2>1, <2>2, <2>4, <3>4, <3>5
         DEF Promise!Settle, Promise!CarriedOut, Captured, Refunded
    <3>. QED BY <1>1, <3>6 DEF Promise!Next
  <2>. QED BY <2>3, <2>4
<1>9. CASE o.action = "retry"
  <2>1. callback[o.intent] = "dead_letter"
    BY <1>1, <1>9, <1>o DEF RowsAreHeld
  <2>2. {p \in Intents : callback'[p] = "dead_letter"}
          = {p \in Intents : callback[p] = "dead_letter"} \ {o.intent}
    BY <1>1, <1>3, <1>9 DEF RowsAreHeld
  <2>3. journals' = journals
    BY <1>3, <1>9
  <2>4. [p \in Intents |-> Outstanding(p)'] = [p \in Intents |-> Outstanding(p)] /\ refs' = refs
    <3>1. \A p \in Intents : Outstanding(p)' = Outstanding(p)
      BY <2>3, OwesTheSame DEF Of
    <3>2. Typed(journals, "settlement")' = Typed(journals, "settlement")
      BY <2>3 DEF Typed
    <3>. QED BY <3>1, <3>2
  <2>5. Promise!Retry(o)
    BY <1>1, <1>4, <1>6, <1>9, <2>1, <2>2, <2>4 DEF Promise!Retry, Promise!CarriedOut, Captured, Refunded
  <2>. QED BY <1>1, <2>5 DEF Promise!Next
<1>. QED BY <1>1, <1>8, <1>9

\* A new journal adds its amount to the total of its type for its payment.
LEMMA OneMore ==
  ASSUME StillOwed, NEW type, NEW p, NEW b, b \notin Of(type, p), b.amount \in Nat,
         Of(type, p)' = Of(type, p) \union {b}
  PROVE  Sum(Of(type, p))' = Sum(Of(type, p)) + b.amount
<1>. DEFINE S == Of(type, p)
            T == Of(type, p)'
            before == [j \in S |-> j.amount]
            after == [j \in T |-> j.amount]
<1>1. T = S \union {b} /\ b \notin S
  OBVIOUS
<1>2. IsFiniteSet(S)
  BY SumsAreNumbers
<1>3. \A j \in T : after[j] \in Nat
  BY <1>1 DEF StillOwed, Of
<1>4. (\A j \in S : before[j] = after[j]) /\ after[b] = b.amount
  BY <1>1
<1>5. Sum(S) = SumOf(S, before) /\ Sum(Of(type, p))' = SumOf(T, after)
  BY DEF Sum
<1>. HIDE DEF S, T, before, after
<1>6. SumOf(S, before) = SumOf(S, after)
  BY <1>4, SumOfSame
<1>7. SumOf(T, after) = SumOf(S, after) + after[b]
  <2>1. \A j \in S \union {b} : after[j] \in Nat
    BY <1>1, <1>3
  <2>2. SumOf(S \union {b}, after) = SumOf(S, after) + after[b]
    BY ONLY <1>1, <1>2, <2>1, SumOfAdded
  <2>. QED BY <1>1, <2>2
<1>. QED BY <1>4, <1>5, <1>6, <1>7 DEF S

\* A capture is owed but for its fee.
LEMMA CaptureKeepsPromise ==
  ASSUME StillOwed, RowsAreHeld, Ascribed, NEW e \in Events, Capture(e)
  PROVE  Promise!Capture(e)
<1>p. PICK p \in Intents : p = Confirms[e]
  OBVIOUS
<1>o. PICK one : one = Journal("capture", e, p, Gross[p], today, None)
  OBVIOUS
<1>t. PICK two : two = Journal("fee", e, p, Fee[e], today, None)
  OBVIOUS
<1>1. /\ one.type = "capture" /\ one.owner = p /\ one.amount = Gross[p] /\ one.ref = e
      /\ two.type = "fee" /\ two.owner = p /\ two.amount = Fee[e] /\ two.ref = e
  BY <1>o, <1>t DEF Journal
<1>n. Gross[p] \in Nat /\ Fee[e] \in Nat
  OBVIOUS
<1>2. /\ journals' = journals \union {one} \union (IF Fee[e] > 0 THEN {two} ELSE {})
      /\ ~Posted("capture", e) /\ ~Posted("fee", e)
      /\ Of("capture", p) = {} \/ Of("refund", p) # {}
      /\ UNCHANGED <<commands, callback>>
  BY <1>p, <1>o, <1>t DEF Capture, Books, RowsAreHeld
<1>3. /\ one \notin Of("capture", p) /\ two \notin Of("fee", p)
      /\ Of("capture", p)' = Of("capture", p) \union {one}
      /\ Of("fee", p)' = Of("fee", p) \union (IF Fee[e] > 0 THEN {two} ELSE {})
  BY <1>1, <1>2 DEF Of, Posted
<1>4. /\ \A type \in {"refund", "settlement"} : \A q : Of(type, q)' = Of(type, q)
      /\ \A type, q : q # p => Of(type, q)' = Of(type, q)
      /\ Typed(journals, "settlement")' = Typed(journals, "settlement")
  BY <1>1, <1>2 DEF Of, Typed
<1>5. Sum(Of("capture", p))' = Sum(Of("capture", p)) + Gross[p]
  <2>1. one.amount \in Nat
    BY <1>1, <1>n
  <2>. QED BY <1>1, <1>3, <2>1, OneMore
<1>6. Sum(Of("fee", p))' = Sum(Of("fee", p)) + Fee[e]
  <2>1. CASE Fee[e] > 0
    <3>1. two.amount \in Nat /\ Of("fee", p)' = Of("fee", p) \union {two}
      BY <1>1, <1>3, <1>n, <2>1
    <3>. QED BY <1>1, <1>3, <3>1, OneMore
  <2>2. CASE ~ (Fee[e] > 0)
    <3>1. Of("fee", p)' = Of("fee", p) /\ Fee[e] = 0
      <4>1. Fee[e] = 0
        BY <1>n, <2>2
      <4>2. (IF Fee[e] > 0 THEN {two} ELSE {}) = {}
        BY <2>2
      <4>. QED BY <1>3, <4>1, <4>2
    <3>2. Sum(Of("fee", p))' = Sum(Of("fee", p)) /\ Sum(Of("fee", p)) \in Nat
      BY <3>1, SumsAreNumbers DEF Sum
    <3>. QED BY <3>1, <3>2
  <2>. QED BY <2>1, <2>2
<1>7. \A type \in {"refund", "settlement"} : Sum(Of(type, p))' = Sum(Of(type, p))
  BY <1>4 DEF Sum
<1>8. Outstanding(p)' = Outstanding(p) + (Gross[p] - Fee[e])
  <2>1. /\ Sum(Of("refund", p)) \in Nat /\ Sum(Of("settlement", p)) \in Nat
        /\ Sum(Of("capture", p)) \in Nat /\ Sum(Of("fee", p)) \in Nat
    BY SumsAreNumbers
  <2>. QED BY <1>5, <1>6, <1>7, <1>n, <2>1 DEF Outstanding
<1>9. \A q \in Intents \ {p} : Outstanding(q)' = Outstanding(q)
  BY <1>4, OwesTheSame
<1>10. [q \in Intents |-> Outstanding(q)']
         = [[q \in Intents |-> Outstanding(q)]
              EXCEPT ![Confirms[e]] = @ + [d \in Events |-> Gross[Confirms[d]] - Fee[d]][e]]
  BY <1>8, <1>9, <1>p
<1>11. Captured' = Captured \union {e} /\ Refunded' = Refunded /\ e \notin Captured
  BY <1>1, <1>2 DEF Captured, Refunded, Posted
<1>12. \/ \A d \in Captured : Confirms[d] # p
       \/ \E f \in Refunded : GivesBack[f] = p
  <2>1. CASE Of("capture", p) = {}
    BY <2>1 DEF Captured, Posted, Of, Ascribed
  <2>2. CASE Of("refund", p) # {}
    <3>1. PICK j \in journals : j.type = "refund" /\ j.owner = p
      BY <2>2 DEF Of
    <3>2. j.ref \in Refunded /\ GivesBack[j.ref] = p
      BY <3>1 DEF Refunded, Posted, Ascribed
    <3>. QED BY <3>2
  <2>. QED BY <1>2, <2>1, <2>2
<1>. QED BY <1>2, <1>4, <1>10, <1>11, <1>12, <1>p DEF Promise!Capture, Captured, Refunded

\* A refund is taken from what is owed.
LEMMA RefundKeepsPromise ==
  ASSUME StillOwed, Ascribed, NEW f \in Refunds, Refund(f)
  PROVE  Promise!Refund(f)
<1>p. PICK p \in Intents : p = GivesBack[f]
  OBVIOUS
<1>o. PICK one : one = Journal("refund", f, p, Given[f], today, None)
  OBVIOUS
<1>1. one.type = "refund" /\ one.owner = p /\ one.amount = Given[f] /\ one.ref = f
  BY <1>o DEF Journal
<1>n. Given[f] \in Nat
  OBVIOUS
<1>2. /\ journals' = journals \union {one} /\ ~Posted("refund", f) /\ Of("capture", p) # {}
      /\ UNCHANGED <<commands, callback>>
  BY <1>p, <1>o DEF Refund, Books
<1>3. Of("refund", p)' = Of("refund", p) \union {one} /\ one \notin Of("refund", p)
  BY <1>1, <1>2 DEF Of, Posted
<1>4. /\ \A type \in {"capture", "fee", "settlement"} : \A q : Of(type, q)' = Of(type, q)
      /\ \A type, q : q # p => Of(type, q)' = Of(type, q)
      /\ Typed(journals, "settlement")' = Typed(journals, "settlement")
  BY <1>1, <1>2 DEF Of, Typed
<1>5. Sum(Of("refund", p))' = Sum(Of("refund", p)) + Given[f]
  <2>1. one.amount \in Nat
    BY <1>1, <1>n
  <2>. QED BY <1>1, <1>3, <2>1, OneMore
<1>6. \A type \in {"capture", "fee", "settlement"} : Sum(Of(type, p))' = Sum(Of(type, p))
  BY <1>4 DEF Sum
<1>7. Outstanding(p)' = Outstanding(p) - Given[f]
  <2>1. /\ Sum(Of("capture", p)) \in Nat /\ Sum(Of("fee", p)) \in Nat
        /\ Sum(Of("settlement", p)) \in Nat /\ Sum(Of("refund", p)) \in Nat
    BY SumsAreNumbers
  <2>. QED BY <1>5, <1>6, <1>n, <2>1 DEF Outstanding
<1>8. \A q \in Intents \ {p} : Outstanding(q)' = Outstanding(q)
  BY <1>4, OwesTheSame
<1>9. [q \in Intents |-> Outstanding(q)']
        = [[q \in Intents |-> Outstanding(q)] EXCEPT ![GivesBack[f]] = @ - Given[f]]
  BY <1>7, <1>8, <1>p
<1>10. /\ Captured' = Captured /\ Refunded' = Refunded \union {f} /\ f \notin Refunded
       /\ \E e \in Captured : Confirms[e] = p
  <2>1. Captured' = Captured /\ Refunded' = Refunded \union {f} /\ f \notin Refunded
    BY <1>1, <1>2 DEF Captured, Refunded, Posted
  <2>2. PICK j \in journals : j.type = "capture" /\ j.owner = p
    BY <1>2 DEF Of
  <2>3. j.ref \in Captured /\ Confirms[j.ref] = p
    BY <2>2 DEF Captured, Posted, Ascribed
  <2>. QED BY <2>1, <2>3
<1>. QED BY <1>2, <1>4, <1>9, <1>10, <1>p DEF Promise!Refund, Captured, Refunded

\* Every step is a step of the promise, or none of it.
LEMMA StepKeepsPromise ==
  ASSUME IInv, StillOwed, RowsAreHeld, Ascribed, [Next]_vars
  PROVE  [Promise!Next]_Promise!promised
<1>1. ASSUME UNCHANGED <<journals, commands, callback>>
      PROVE  [Promise!Next]_Promise!promised
  <2>1. /\ \A type \in Booked : \A p \in Intents : Of(type, p)' = Of(type, p)
        /\ Typed(journals, "settlement")' = Typed(journals, "settlement")
        /\ UNCHANGED <<Captured, Refunded>>
    BY <1>1 DEF Of, Typed, Captured, Refunded, Posted
  <2>. QED BY <1>1, <2>1, PromiseStutters
<1>2. ASSUME NEW r \in Requests,
             Begin(r) \/ Insert(r) \/ Lock(r) \/ Post(r) \/ Write(r) \/ Retry(r) \/ RolledBack(r)
      PROVE  [Promise!Next]_Promise!promised
  BY <1>1, <1>2 DEF Begin, Insert, Lock, Post, Write, Retry, RolledBack
<1>3. ASSUME NEW r \in Requests, Commit(r)
      PROVE  [Promise!Next]_Promise!promised
  BY <1>3, CommitKeepsPromise
<1>4. ASSUME NEW e \in Events, Capture(e)
      PROVE  [Promise!Next]_Promise!promised
  BY <1>4, CaptureKeepsPromise DEF Promise!Next
<1>8. ASSUME NEW f \in Refunds, Refund(f)
      PROVE  [Promise!Next]_Promise!promised
  BY <1>8, RefundKeepsPromise DEF Promise!Next
<1>5. ASSUME NEW p \in Payouts, Payout(p)
      PROVE  [Promise!Next]_Promise!promised
  <2>1. PICK one : one = Journal("payout", p, p, Gross[p], today, None)
    OBVIOUS
  <2>2. one.type = "payout" /\ journals' = journals \union {one} /\ UNCHANGED <<commands, callback>>
    BY <1>5, <2>1 DEF Payout, Books, Journal
  <2>3. /\ \A type \in Booked : \A q \in Intents : Of(type, q)' = Of(type, q)
        /\ Typed(journals, "settlement")' = Typed(journals, "settlement")
        /\ UNCHANGED <<Captured, Refunded>>
    BY <2>2 DEF Of, Typed, Booked, Captured, Refunded, Posted
  <2>. QED BY <2>2, <2>3, PromiseStutters
<1>6. ASSUME NEW p \in Intents, Deliver(p)
      PROVE  [Promise!Next]_Promise!promised
  <2>1. UNCHANGED <<journals, commands>> /\ callback[p] = "pending"
    BY <1>6 DEF Deliver
  <2>2. PICK status \in {"delivered", "dead_letter"} : callback' = [callback EXCEPT ![p] = status]
    BY <1>6 DEF Deliver
  <2>3. /\ \A type \in Booked : \A q \in Intents : Of(type, q)' = Of(type, q)
        /\ Typed(journals, "settlement")' = Typed(journals, "settlement")
        /\ UNCHANGED <<Captured, Refunded>>
    BY <2>1 DEF Of, Typed, Captured, Refunded, Posted
  <2>4. CASE status = "delivered"
    <3>1. \A q \in Intents : callback'[q] = "dead_letter" <=> callback[q] = "dead_letter"
      BY <2>1, <2>2, <2>4 DEF RowsAreHeld
    <3>. QED BY <2>1, <2>3, <3>1, PromiseStutters
  <2>5. CASE status = "dead_letter"
    <3>1. {q \in Intents : callback'[q] = "dead_letter"}
            = {q \in Intents : callback[q] = "dead_letter"} \union {p}
      BY <2>2, <2>5 DEF RowsAreHeld
    <3>2. [q \in Intents |-> Outstanding(q)'] = [q \in Intents |-> Outstanding(q)]
      BY <2>3, OwesTheSame DEF Booked
    <3>3. Promise!GiveUp(p)
      BY <2>1, <2>3, <3>1, <3>2 DEF Promise!GiveUp, Captured, Refunded
    <3>. QED BY <3>3 DEF Promise!Next
  <2>. QED BY <2>4, <2>5
<1>7. CASE Midnight \/ UNCHANGED vars
  BY <1>1, <1>7 DEF Midnight, vars
<1>. QED BY <1>2, <1>3, <1>4, <1>5, <1>6, <1>7, <1>8 DEF Next

\* Requests that look up, insert, lock, post and commit among one another carry out each
\* command as in one step of its own, once, and take no more than is owed (execute).
THEOREM CommandsTakeEffectAtOnce == Spec => CommandsAreAtomic
<1>1. Init => Promise!Init
  <2>. SUFFICES ASSUME Init PROVE Promise!Init
    OBVIOUS
  <2>1. \A type, p : Of(type, p) = {}
    BY DEF Init, Of
  <2>2. \A p \in Intents : Outstanding(p) = 0
    <3>1. Sum({}) = 0
      BY SumOfNoJournal
    <3>2. ASSUME NEW p \in Intents
          PROVE  Outstanding(p) = 0
      <4>1. /\ Sum(Of("capture", p)) = 0 /\ Sum(Of("refund", p)) = 0
            /\ Sum(Of("fee", p)) = 0 /\ Sum(Of("settlement", p)) = 0
        BY ONLY <2>1, <3>1, Zenon
      <4>. QED BY <4>1 DEF Outstanding
    <3>. QED BY <3>2
  <2>3. Typed(journals, "settlement") = {}
    BY DEF Init, Typed
  <2>4. \A type, ref : ~Posted(type, ref)
    BY DEF Init, Posted
  <2>. QED BY <2>1, <2>2, <2>3, <2>4 DEF Init, Promise!Init
<1>2. IInv /\ StillOwed /\ RowsAreHeld /\ Ascribed /\ [Next]_vars => [Promise!Next]_Promise!promised
  BY StepKeepsPromise
<1>. QED BY <1>1, <1>2, Invariant, OwedAlways, RowsAlways, AscribedAlways, PTL
         DEF Spec, CommandsAreAtomic, Promise!Spec
=============================================================================
