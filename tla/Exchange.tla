------------------------------ MODULE Exchange ------------------------------
(***************************************************************************)
(* Currency exchange of the wallet (ConvertirDevise): a conversion is two  *)
(* balanced transactions, one per currency, against accounts that hold the *)
(* platform's position, and a row that says which amounts and which rate.  *)
(* Each request is one database transaction, modelled at the points where  *)
(* it reads and where PostgreSQL makes it wait.  A request sent again is   *)
(* another request with its key; quotations keep coming.                   *)
(***************************************************************************)
EXTENDS Integers, FiniteSets, FiniteSetsExt, Sequences, Sums

CONSTANTS
  Currencies, Minor,   \* minor units in one unit of a currency: 10 to its exponent
  Accounts, Currency, Opening,   \* clients' accounts, and what they begin with
  Requests, Source, Target, Amount, Key,
  Places,      \* what the columns of rates keep of one: 10 to the eighth
  Quotations   \* what back office quotes, in order: base, quote, rate in Places

NoRate == [num |-> 0, den |-> 0]
NoPosition == [currency |-> "none", by |-> "none"]
Position == [currency : Currencies, by : Requests]
Quotation == [base : Currencies, quote : Currencies, rate : Nat \ {0}]

ASSUME ExchangeAssumption ==
  /\ Minor \in [Currencies -> Nat \ {0}] /\ Currency \in [Accounts -> Currencies]
  /\ Opening \in [Accounts -> Nat] /\ Amount \in [Requests -> Nat]
  /\ Source \in [Requests -> Accounts] /\ Target \in [Requests -> Accounts]
  /\ Places \in Nat \ {0} /\ Quotations \in Seq(Quotation)
  /\ Accounts \intersect (Position \union {NoPosition}) = {}   \* clients hold no position

VARIABLES
  quoted,      \* how many quotations are placed
  positions,   \* committed position accounts, each with the request that created it
  posted,      \* committed transactions: key and leg, accounts, amount, request
  conversions, \* committed currency_conversions
  phase,       \* where each request is
  deal,        \* its rate, target amount and positions
  held,        \* the accounts it has locked, by leg
  posts        \* its uncommitted transactions

committed == <<quoted, positions, posted, conversions>>
vars == <<quoted, positions, posted, conversions, phase, deal, held, posts>>

Legs == {"out", "in"}
Phases == {"new", "out", "out_post", "in", "in_post", "booked", "done", "refused"}
NoDeal == [rate |-> NoRate, target |-> 0, uses |-> [l \in Legs |-> NoPosition]]
Unheld == [l \in Legs |-> NoPosition]

Init ==
  /\ quoted = 0
  /\ positions = {}
  /\ posted = {}
  /\ conversions = {}
  /\ phase = [r \in Requests |-> "new"]
  /\ deal = [r \in Requests |-> NoDeal]
  /\ held = [r \in Requests |-> Unheld]
  /\ posts = [r \in Requests |-> {}]

-----------------------------------------------------------------------------
(* Rates and amounts *)

Latest(base, quote) ==
  LET of == {q \in 1..quoted : Quotations[q].base = base /\ Quotations[q].quote = quote} IN
  IF of = {} THEN NoRate
  ELSE [num |-> Quotations[Max(of)].rate, den |-> Places]

Inverted(rate) == IF rate = NoRate THEN NoRate ELSE [num |-> rate.den, den |-> rate.num]

\* taux: a pair quoted in one direction serves in the other.
Taux(base, quote) ==
  IF Latest(base, quote) # NoRate THEN Latest(base, quote) ELSE Inverted(Latest(quote, base))

HalfUp(num, den) == (2 * num + den) \div (2 * den)

\* Numeric(18, 8): an inverse is rounded when it is stored.
Stored(rate) ==
  IF rate.den = Places THEN rate
  ELSE [num |-> HalfUp(rate.num * Places, rate.den), den |-> Places]

\* The amount in the target's minor unit, as a fraction.
Scaled(rate, amount, from, to) ==
  [num |-> amount * rate.num * Minor[to], den |-> rate.den * Minor[from]]

\* Mutant: the remainder is cut off.
Convertir_Down(rate, amount, from, to) ==
  LET x == Scaled(rate, amount, from, to) IN x.num \div x.den

\* Money.convertir: rounded half up.
Convertir(rate, amount, from, to) ==
  LET x == Scaled(rate, amount, from, to) IN HalfUp(x.num, x.den)

-----------------------------------------------------------------------------
(* Accounts *)

From(r) == Currency[Source[r]]
To(r) == Currency[Target[r]]
Legged(r, leg) == IF leg = "out" THEN From(r) ELSE To(r)

Total(S) == SumOf(S, [p \in S |-> p.amount])

Balance(a, S) ==
  Opening[a] + Total({p \in S : p.into = a}) - Total({p \in S : p.outof = a})

Moves(r, to) == phase' = [phase EXCEPT ![r] = to]

\* The end of the session, with its locks.
Ends(r, how) ==
  /\ Moves(r, how)
  /\ deal' = [deal EXCEPT ![r] = NoDeal]
  /\ held' = [held EXCEPT ![r] = Unheld]
  /\ posts' = [posts EXCEPT ![r] = {}]

\* An exception: the session is rolled back.
Refuse(r) == Ends(r, "refused") /\ UNCHANGED committed

\* compte_de_position: an account of this reference that is committed, or its own.
\* Nothing in the database keeps two requests from creating one each.
PositionsSeen(currency) == {p \in positions : p.currency = currency}

PositionChoices(r, currency) ==
  IF PositionsSeen(currency) # {} THEN PositionsSeen(currency)
  ELSE {[currency |-> currency, by |-> r]}

\* convertir, up to its transactions.
Begin(r) ==
  LET rate == Taux(From(r), To(r))
      target == Convertir(rate, Amount[r], From(r), To(r))
      possible == From(r) # To(r) /\ Amount[r] > 0 /\ rate # NoRate IN
  /\ phase[r] = "new"
  /\ IF possible /\ target > 0
     THEN /\ \E out \in PositionChoices(r, From(r)), in \in PositionChoices(r, To(r)) :
               deal' = [deal EXCEPT ![r] = [rate |-> rate, target |-> target,
                                            uses |-> [out |-> out, in |-> in]]]
          /\ Moves(r, "out")
          /\ UNCHANGED <<committed, held, posts>>
     ELSE Refuse(r)

-----------------------------------------------------------------------------
(* LedgerService.transfer *)

Leg(r) == IF phase[r] \in {"out", "out_post"} THEN "out" ELSE "in"
After(leg) == IF leg = "out" THEN "in" ELSE "booked"

Done(r, leg) == {p \in posted : p.key = Key[r] /\ p.leg = leg}

\* A key known: what was posted with it is returned, whatever it was.
Known(r) ==
  LET leg == Leg(r) IN
  /\ phase[r] \in Legs
  /\ Moves(r, IF Done(r, leg) # {} THEN After(leg)
              ELSE IF leg = "out" THEN "out_post" ELSE "in_post")
  /\ UNCHANGED <<committed, deal, held, posts>>

Debited(r, leg) == IF leg = "out" THEN Source[r] ELSE deal[r].uses["in"]
Credited(r, leg) == IF leg = "out" THEN deal[r].uses["out"] ELSE Target[r]
Posted(r, leg) == IF leg = "out" THEN Amount[r] ELSE deal[r].target

\* Mutant: the balance is read without the row's lock.
Free_Always(r, account) == TRUE

\* get_for_update: another request that has the account debited keeps it.
Free(r, account) ==
  \A s \in Requests \ {r} : \A leg \in Legs : held[s][leg] # account

KeyFree(r, leg) ==
  \A s \in Requests \ {r} : \A p \in posts[s] : ~(p.key = Key[r] /\ p.leg = leg)

\* Positions may go below zero.
Covered(r, leg) ==
  leg = "out" => Balance(Source[r], posted \union posts[r]) >= Amount[r]

Posting(r, leg) ==
  [key |-> Key[r], leg |-> leg, outof |-> Debited(r, leg), into |-> Credited(r, leg),
   amount |-> Posted(r, leg), by |-> r]

\* post: a key committed meanwhile by another is found when the row is refused.
Post(r) ==
  LET leg == Leg(r) IN
  /\ phase[r] \in {"out_post", "in_post"}
  /\ Free(r, Debited(r, leg)) /\ KeyFree(r, leg)
  /\ IF Covered(r, leg)
     THEN /\ Moves(r, After(leg))
          /\ held' = [held EXCEPT ![r][leg] = Debited(r, leg)]
          /\ posts' = [posts EXCEPT ![r] =
                         IF Done(r, leg) = {} THEN @ \union {Posting(r, leg)} ELSE @]
          /\ UNCHANGED <<committed, deal>>
     ELSE Refuse(r)

\* What the row says was converted, at the rate of its column.
Conversion(r) ==
  [by |-> r, key |-> Key[r], amount |-> Amount[r],
   target |-> deal[r].target, rate |-> Stored(deal[r].rate)]

\* Mutant: each transaction is committed by itself.
Uncommitted_Out(r) == {p \in posts[r] : p.leg = "out"}

Uncommitted(r) == posts[r]

Commit(r) ==
  /\ phase[r] = "booked"
  /\ posted' = posted \union Uncommitted(r)
  /\ positions' = positions \union {p \in {deal[r].uses[l] : l \in Legs} : p.by = r}
  /\ conversions' = conversions \union {Conversion(r)}
  /\ Ends(r, "done")
  /\ UNCHANGED quoted

\* The process dies, or the commit does.
Crash(r) == phase[r] \in Phases \ {"new", "done", "refused"} /\ Refuse(r)

\* poser
Quote ==
  /\ quoted < Len(Quotations)
  /\ quoted' = quoted + 1
  /\ UNCHANGED <<positions, posted, conversions, phase, deal, held, posts>>

Next ==
  \/ Quote
  \/ \E r \in Requests :
       Begin(r) \/ Known(r) \/ Post(r) \/ Commit(r) \/ Crash(r)

Spec == Init /\ [][Next]_vars

-----------------------------------------------------------------------------
(* Properties *)

TypeOK ==
  /\ quoted \in 0..Len(Quotations)
  /\ positions \subseteq Position
  /\ \A p \in posted : p.leg \in Legs /\ p.amount \in Nat \ {0}
  /\ \A c \in conversions : c.target \in Nat \ {0}
  /\ phase \in [Requests -> Phases]
  /\ \A r \in Requests : \A p \in posts[r] : p.by = r

\* What leaves a client in one currency arrives in the other: a key has both of its
\* transactions or neither, by one request, whoever retries or crashes (convertir).
BothLegs ==
  \A p \in posted :
    /\ \E q \in posted : q.key = p.key /\ q.leg # p.leg /\ q.by = p.by
    /\ \A q \in posted : q.key = p.key /\ q.leg = p.leg => q = p

\* Conversions and their retries side by side never take from a client what it does
\* not have (ensure_sufficient under get_for_update).
SourcesCover == \A a \in Accounts : Balance(a, posted) >= 0

\* A history replayed with the recorded rates gives what was posted, to half a minor
\* unit of the target and half a last place of the rate for each unit converted: the
\* positions keep no larger remainder (Money.convertir, CurrencyConversion.rate).
RemainderIsSmall ==
  \A c \in conversions : \A p, q \in posted :
    p.by = c.by /\ q.by = c.by /\ p.leg = "out" /\ q.leg = "in" =>
      LET to == Currency[q.into]
          replayed == Scaled(c.rate, p.amount, Currency[p.outof], to)
          gap == q.amount * replayed.den - replayed.num IN
      /\ 2 * gap <= replayed.den + p.amount * Minor[to]
      /\ 2 * gap >= -(replayed.den + p.amount * Minor[to])

=============================================================================
