--------------------------- MODULE CommandPromise ---------------------------
(***************************************************************************)
(* What the back office promises about its commands, with no word of rows, *)
(* locks, look-ups or transactions: each is carried out in one step, as if *)
(* it were alone, and once; a settlement takes what it names from what the *)
(* provider owes for the payment, or finds its reference known and takes   *)
(* nothing.  Settlements implements it.                                    *)
(***************************************************************************)
EXTENDS Integers

CONSTANTS Intents, Orders, NoId, Events, Confirms, Net, Refunds, GivesBack, Given

VARIABLES
  captured, refunded,   \* the events and refunds that were booked
  owed,                 \* what the provider owes for each payment
  refs,                 \* references of settlements
  carried,              \* commands carried out
  dead                  \* payments whose callback was given up

promised == <<captured, refunded, owed, refs, carried, dead>>

Init ==
  /\ captured = {} /\ refunded = {}
  /\ owed = [p \in Intents |-> 0]
  /\ refs = {} /\ carried = {}
  /\ dead = Intents

\* An order of the command line has no id, and leaves no trace.
CarriedOut(o) ==
  IF o.id = NoId THEN UNCHANGED carried
  ELSE /\ \A c \in carried : c.id # o.id /\ c.key # o.key
       /\ carried' = carried \union {o}

Settle(o) ==
  /\ o.action = "settle" /\ o.amount <= owed[o.intent]
  /\ \/ o.ref \in refs /\ UNCHANGED <<owed, refs>>
     \/ /\ o.ref \notin refs /\ refs' = refs \union {o.ref}
        /\ owed' = [owed EXCEPT ![o.intent] = @ - o.amount]
  /\ CarriedOut(o)
  /\ UNCHANGED <<captured, refunded, dead>>

Retry(o) ==
  /\ o.action = "retry" /\ o.intent \in dead
  /\ dead' = dead \ {o.intent}
  /\ CarriedOut(o)
  /\ UNCHANGED <<captured, refunded, owed, refs>>

GiveUp(p) == dead' = dead \union {p} /\ UNCHANGED <<captured, refunded, owed, refs, carried>>

\* A payment may be confirmed again after a refund, and is owed again.
Capture(e) ==
  LET p == Confirms[e] IN
  /\ e \notin captured /\ captured' = captured \union {e}
  /\ (\A d \in captured : Confirms[d] # p) \/ (\E f \in refunded : GivesBack[f] = p)
  /\ owed' = [owed EXCEPT ![p] = @ + Net[e]]
  /\ UNCHANGED <<refunded, refs, carried, dead>>

\* A refund asks nobody whether the provider still owes as much: it may owe less than
\* nothing then.
Refund(f) ==
  LET p == GivesBack[f] IN
  /\ f \notin refunded /\ refunded' = refunded \union {f}
  /\ \E e \in captured : Confirms[e] = p
  /\ owed' = [owed EXCEPT ![p] = @ - Given[f]]
  /\ UNCHANGED <<captured, refs, carried, dead>>

Next ==
  \/ \E o \in Orders : Settle(o) \/ Retry(o)
  \/ \E p \in Intents : GiveUp(p)
  \/ \E e \in Events : Capture(e)
  \/ \E f \in Refunds : Refund(f)

Spec == Init /\ [][Next]_promised
=============================================================================
