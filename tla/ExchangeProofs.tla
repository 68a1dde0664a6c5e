--------------------------- MODULE ExchangeProofs ---------------------------
(***************************************************************************)
(* Proofs about Exchange: for any accounts, rates and number of requests   *)
(* with the same keys or others, a conversion posts both its transactions  *)
(* or neither, takes no more than the source has, and leaves the positions *)
(* at most half a minor unit.                                              *)
(***************************************************************************)
EXTENDS Exchange, SumLemmas, WellFoundedInduction

-----------------------------------------------------------------------------
(* The inductive invariant *)

\* The key's transactions in a set of postings.
Of(S, key) == {p \in S : p.key = key}
HasLeg(S, leg) == \E p \in S : p.leg = leg

\* What a request has posted and not committed is its own, one transaction a leg.
OwnPosts ==
  /\ phase \in [Requests -> Phases]
  /\ DOMAIN posts = Requests
  /\ \A r \in Requests :
       /\ \A p \in posts[r] : p.key = Key[r] /\ p.by = r /\ p.leg \in Legs
       /\ \A p, q \in posts[r] : p.leg = q.leg => p = q

\* How far a request has come says what it has posted: nothing, the first leg, or
\* both; it posts nothing when it finds its key's transactions committed.
PostsInOrder ==
  \A r \in Requests :
    /\ phase[r] \in {"new", "out", "out_post", "done", "refused"} => posts[r] = {}
    /\ phase[r] \in {"in", "in_post"} => ~HasLeg(posts[r], "in")
    /\ phase[r] \in {"in", "in_post", "booked"} =>
         HasLeg(posts[r], "out") \/ (posts[r] = {} /\ Of(posted, Key[r]) # {})
    /\ phase[r] = "booked" => posts[r] = {} \/ HasLeg(posts[r], "in")

\* Uncommitted transactions keep others from posting with their key.
KeyIsTaken ==
  \A r \in Requests : posts[r] # {} =>
    /\ Of(posted, Key[r]) = {}
    /\ \A s \in Requests \ {r} : Key[s] = Key[r] => posts[s] = {}

IInv ==
  /\ OwnPosts /\ PostsInOrder /\ KeyIsTaken /\ BothLegs
  /\ \A p \in posted : p.leg \in Legs

-----------------------------------------------------------------------------
(* It is inductive *)

\* A committed key has the transaction of each leg.
LEMMA DoneMeansBoth ==
  ASSUME IInv, NEW r \in Requests, NEW leg \in Legs
  PROVE  Done(r, leg) = {} <=> Of(posted, Key[r]) = {}
<1>1. ASSUME NEW p \in posted, p.key = Key[r]
      PROVE  \E q \in posted : q.key = Key[r] /\ q.leg = leg
  <2>1. PICK q \in posted : q.key = p.key /\ q.leg # p.leg
    BY <1>1 DEF IInv, BothLegs
  <2>. QED BY <1>1, <2>1 DEF IInv, Legs
<1>. QED BY <1>1 DEF Done, Of

\* A request that ends without a commit, or one that has not posted anything yet.
LEMMA QuietStep ==
  ASSUME IInv, NEW r \in Requests, NEW to \in Phases, Moves(r, to),
         UNCHANGED posted, DOMAIN posts' = Requests,
         \A s \in Requests \ {r} : posts'[s] = posts[s],
         posts'[r] = {},
         \/ to \in {"new", "out", "out_post", "done", "refused"}
         \/ Of(posted, Key[r]) # {}
  PROVE  IInv'
<1>1. /\ phase' \in [Requests -> Phases] /\ phase'[r] = to
      /\ \A s \in Requests \ {r} : phase'[s] = phase[s]
  BY DEF Moves, IInv, OwnPosts
<1>2. OwnPosts'
  BY <1>1 DEF IInv, OwnPosts
<1>3. PostsInOrder'
  <2>1. ASSUME NEW s \in Requests
        PROVE  /\ phase'[s] \in {"new", "out", "out_post", "done", "refused"} => posts'[s] = {}
               /\ phase'[s] \in {"in", "in_post"} => ~HasLeg(posts'[s], "in")
               /\ phase'[s] \in {"in", "in_post", "booked"} =>
                    HasLeg(posts'[s], "out") \/ (posts'[s] = {} /\ Of(posted, Key[s]) # {})
               /\ phase'[s] = "booked" => posts'[s] = {} \/ HasLeg(posts'[s], "in")
    <3>1. CASE s = r
      BY <1>1, <3>1 DEF HasLeg
    <3>2. CASE s # r
      BY <1>1, <3>2 DEF IInv, PostsInOrder
    <3>. QED BY <3>1, <3>2
  <2>2. \A S, x : HasLeg(S, x)' = HasLeg(S, x)
    BY DEF HasLeg
  <2>. QED BY <2>1, <2>2 DEF PostsInOrder, Of, HasLeg
<1>4. KeyIsTaken'
  BY DEF IInv, KeyIsTaken, Of
<1>5. BothLegs' /\ (\A p \in posted' : p.leg \in Legs)
  BY DEF IInv, BothLegs
<1>. QED BY <1>2, <1>3, <1>4, <1>5 DEF IInv

\* A request posts a leg of a key that nobody has committed.
LEMMA PostsStep ==
  ASSUME IInv, NEW r \in Requests, NEW leg \in Legs,
         phase[r] = IF leg = "out" THEN "out_post" ELSE "in_post",
         Moves(r, After(leg)), KeyFree(r, leg), Done(r, leg) = {}, UNCHANGED posted,
         NEW new, new.key = Key[r], new.by = r, new.leg = leg,
         posts' = [posts EXCEPT ![r] = @ \union {new}]
  PROVE  IInv'
<1>1. /\ phase' \in [Requests -> Phases] /\ phase'[r] = After(leg)
      /\ \A s \in Requests \ {r} : phase'[s] = phase[s]
  BY DEF Moves, IInv, OwnPosts, After, Phases
<1>2. /\ posts'[r] = posts[r] \union {new} /\ DOMAIN posts' = Requests
      /\ \A s \in Requests \ {r} : posts'[s] = posts[s]
  BY DEF IInv, OwnPosts
<1>3. Of(posted, Key[r]) = {}
  BY DoneMeansBoth
<1>4. /\ leg = "out" => posts[r] = {}
      /\ leg = "in" => HasLeg(posts[r], "out") /\ ~HasLeg(posts[r], "in")
  BY <1>3 DEF IInv, PostsInOrder, Legs
<1>5. \A s \in Requests \ {r} : Key[s] = Key[r] => posts[s] = {}
  <2>1. CASE leg = "in"
    BY <1>4, <2>1 DEF IInv, KeyIsTaken, HasLeg
  <2>2. CASE leg = "out"
    <3>1. ASSUME NEW s \in Requests \ {r}, Key[s] = Key[r], posts[s] # {}
          PROVE  HasLeg(posts[s], "out")
      BY <3>1 DEF IInv, PostsInOrder, OwnPosts, Phases
    <3>2. ASSUME NEW s \in Requests \ {r}, Key[s] = Key[r], HasLeg(posts[s], "out")
          PROVE  FALSE
      BY <2>2, <3>2 DEF KeyFree, HasLeg, IInv, OwnPosts
    <3>. QED BY <3>1, <3>2
  <2>. QED BY <2>1, <2>2 DEF Legs
<1>6. OwnPosts'
  <2>1. \A p \in posts[r] : p.leg # leg
    BY <1>4 DEF HasLeg, Legs
  <2>. QED BY <1>1, <1>2, <2>1 DEF IInv, OwnPosts
<1>7. PostsInOrder'
  <2>1. ASSUME NEW s \in Requests
        PROVE  /\ phase'[s] \in {"new", "out", "out_post", "done", "refused"} => posts'[s] = {}
               /\ phase'[s] \in {"in", "in_post"} => ~HasLeg(posts'[s], "in")
               /\ phase'[s] \in {"in", "in_post", "booked"} =>
                    HasLeg(posts'[s], "out") \/ (posts'[s] = {} /\ Of(posted, Key[s]) # {})
               /\ phase'[s] = "booked" => posts'[s] = {} \/ HasLeg(posts'[s], "in")
    <3>1. CASE s # r
      BY <1>1, <1>2, <3>1 DEF IInv, PostsInOrder
    <3>2. CASE s = r /\ leg = "out"
      BY <1>1, <1>2, <1>4, <3>2 DEF HasLeg, After
    <3>3. CASE s = r /\ leg = "in"
      BY <1>1, <1>2, <1>4, <3>3 DEF HasLeg, After
    <3>. QED BY <3>1, <3>2, <3>3 DEF Legs
  <2>. QED BY <2>1 DEF PostsInOrder, Of, HasLeg
<1>8. KeyIsTaken'
  BY <1>2, <1>3, <1>5 DEF IInv, KeyIsTaken, Of
<1>9. BothLegs' /\ (\A p \in posted' : p.leg \in Legs)
  BY DEF IInv, BothLegs
<1>. QED BY <1>6, <1>7, <1>8, <1>9 DEF IInv

\* A request goes on with what it has posted.
LEMMA WaitsStep ==
  ASSUME IInv, NEW r \in Requests, phase[r] = "in", Moves(r, "in_post"), UNCHANGED <<posted, posts>>
  PROVE  IInv'
<1>1. /\ phase' \in [Requests -> Phases] /\ phase'[r] = "in_post"
      /\ \A s \in Requests \ {r} : phase'[s] = phase[s]
  BY DEF Moves, IInv, OwnPosts, Phases
<1>2. OwnPosts'
  BY <1>1 DEF IInv, OwnPosts
<1>3. PostsInOrder'
  <2>1. ASSUME NEW s \in Requests
        PROVE  /\ phase'[s] \in {"new", "out", "out_post", "done", "refused"} => posts[s] = {}
               /\ phase'[s] \in {"in", "in_post"} => ~HasLeg(posts[s], "in")
               /\ phase'[s] \in {"in", "in_post", "booked"} =>
                    HasLeg(posts[s], "out") \/ (posts[s] = {} /\ Of(posted, Key[s]) # {})
               /\ phase'[s] = "booked" => posts[s] = {} \/ HasLeg(posts[s], "in")
    BY <1>1 DEF IInv, PostsInOrder
  <2>. QED BY <2>1 DEF PostsInOrder, Of, HasLeg
<1>4. KeyIsTaken' /\ BothLegs' /\ (\A p \in posted' : p.leg \in Legs)
  BY DEF IInv, KeyIsTaken, BothLegs, Of
<1>. QED BY <1>2, <1>3, <1>4 DEF IInv

\* A commit brings both legs of a new key, or none.
LEMMA CommitStep ==
  ASSUME IInv, NEW r \in Requests, Commit(r)
  PROVE  IInv'
<1>1. /\ phase[r] = "booked" /\ posted' = posted \union posts[r]
      /\ phase' \in [Requests -> Phases] /\ phase'[r] = "done"
      /\ \A s \in Requests \ {r} : phase'[s] = phase[s]
      /\ posts'[r] = {} /\ DOMAIN posts' = Requests
      /\ \A s \in Requests \ {r} : posts'[s] = posts[s]
  BY DEF Commit, Uncommitted, Ends, Moves, IInv, OwnPosts, Phases
<1>2. posts[r] # {} =>
        /\ HasLeg(posts[r], "out") /\ HasLeg(posts[r], "in")
        /\ Of(posted, Key[r]) = {}
        /\ \A s \in Requests \ {r} : Key[s] = Key[r] => posts[s] = {}
  BY <1>1 DEF IInv, PostsInOrder, KeyIsTaken
<1>3. \A p \in posts[r] : p.key = Key[r] /\ p.by = r /\ p.leg \in Legs
  BY DEF IInv, OwnPosts
<1>4. OwnPosts'
  BY <1>1 DEF IInv, OwnPosts
<1>5. PostsInOrder'
  <2>1. \A s \in Requests : Of(posted, Key[s]) # {} => Of(posted', Key[s]) # {}
    BY <1>1 DEF Of
  <2>2. ASSUME NEW s \in Requests
        PROVE  /\ phase'[s] \in {"new", "out", "out_post", "done", "refused"} => posts'[s] = {}
               /\ phase'[s] \in {"in", "in_post"} => ~HasLeg(posts'[s], "in")
               /\ phase'[s] \in {"in", "in_post", "booked"} =>
                    HasLeg(posts'[s], "out") \/ (posts'[s] = {} /\ Of(posted', Key[s]) # {})
               /\ phase'[s] = "booked" => posts'[s] = {} \/ HasLeg(posts'[s], "in")
    <3>1. CASE s = r
      BY <1>1, <3>1
    <3>2. CASE s # r
      BY <1>1, <2>1, <3>2 DEF IInv, PostsInOrder
    <3>. QED BY <3>1, <3>2
  <2>. QED BY <2>2 DEF PostsInOrder, Of, HasLeg
<1>6. KeyIsTaken'
  <2>1. ASSUME NEW s \in Requests, posts'[s] # {}
        PROVE  /\ Of(posted', Key[s]) = {}
               /\ \A q \in Requests \ {s} : Key[q] = Key[s] => posts'[q] = {}
    <3>1. s # r /\ posts[s] # {} /\ Of(posted, Key[s]) = {}
          /\ \A q \in Requests \ {s} : Key[q] = Key[s] => posts[q] = {}
      BY <1>1, <2>1 DEF IInv, KeyIsTaken
    <3>2. \A p \in posts[r] : p.key # Key[s]
      BY <1>3, <3>1
    <3>. QED BY <1>1, <3>1, <3>2 DEF Of
  <2>. QED BY <2>1 DEF KeyIsTaken, Of
<1>7. BothLegs'
  <2>1. ASSUME NEW p \in posted
        PROVE  /\ \E q \in posted' : q.key = p.key /\ q.leg # p.leg /\ q.by = p.by
               /\ \A q \in posted' : q.key = p.key /\ q.leg = p.leg => q = p
    <3>1. \A q \in posts[r] : q.key # p.key
      BY <1>2, <1>3, <2>1 DEF Of
    <3>. QED BY <1>1, <2>1, <3>1 DEF IInv, BothLegs
  <2>2. ASSUME NEW p \in posts[r]
        PROVE  /\ \E q \in posted' : q.key = p.key /\ q.leg # p.leg /\ q.by = p.by
               /\ \A q \in posted' : q.key = p.key /\ q.leg = p.leg => q = p
    <3>1. \A q \in posted : q.key # p.key
      BY <1>2, <1>3, <2>2 DEF Of
    <3>2. \A q \in posts[r] : q.leg = p.leg => q = p
      BY <2>2 DEF IInv, OwnPosts
    <3>3. \E q \in posts[r] : q.key = p.key /\ q.leg # p.leg /\ q.by = p.by
      BY <1>2, <1>3, <2>2 DEF HasLeg, Legs
    <3>. QED BY <1>1, <3>1, <3>2, <3>3
  <2>. QED BY <1>1, <2>1, <2>2 DEF BothLegs
<1>. QED BY <1>1, <1>3, <1>4, <1>5, <1>6, <1>7 DEF IInv

\* At first nothing is posted.
LEMMA InitIInv == Init => IInv
BY DEF Init, IInv, OwnPosts, PostsInOrder, KeyIsTaken, BothLegs, Phases, Of, HasLeg

\* A session that is rolled back leaves nothing.
LEMMA RefuseStep ==
  ASSUME IInv, NEW r \in Requests, Refuse(r)
  PROVE  IInv'
<1>1. /\ Moves(r, "refused") /\ UNCHANGED posted /\ DOMAIN posts' = Requests
      /\ posts'[r] = {} /\ \A s \in Requests \ {r} : posts'[s] = posts[s]
  BY DEF Refuse, Ends, committed, IInv, OwnPosts
<1>. QED BY <1>1, QuietStep DEF Phases

\* Every step keeps the invariant.
LEMMA NextIInv == IInv /\ [Next]_vars => IInv'
<1>. SUFFICES ASSUME IInv, [Next]_vars PROVE IInv'
  OBVIOUS
<1>1. ASSUME NEW r \in Requests, Begin(r) PROVE IInv'
  <2>1. CASE Refuse(r)
    BY <2>1, RefuseStep
  <2>2. CASE Moves(r, "out") /\ UNCHANGED <<committed, held, posts>>
    <3>1. posts[r] = {} /\ DOMAIN posts = Requests
      BY <1>1 DEF Begin, IInv, PostsInOrder, OwnPosts
    <3>. QED BY <2>2, <3>1, QuietStep DEF Phases, committed
  <2>. QED BY <1>1, <2>1, <2>2 DEF Begin
<1>2. ASSUME NEW r \in Requests, Known(r) PROVE IInv'
  <2>. DEFINE leg == Leg(r)
  <2>1. /\ leg \in Legs /\ leg = phase[r] /\ UNCHANGED <<posted, posts>> /\ DOMAIN posts = Requests
        /\ Moves(r, IF Done(r, leg) # {} THEN After(leg)
                    ELSE IF leg = "out" THEN "out_post" ELSE "in_post")
    BY <1>2 DEF Known, Leg, Legs, committed, IInv, OwnPosts
  <2>2. CASE Done(r, leg) # {}
    <3>1. Of(posted, Key[r]) # {} /\ posts[r] = {}
      BY <2>1, <2>2, DoneMeansBoth DEF IInv, KeyIsTaken
    <3>2. Moves(r, After(leg)) /\ After(leg) \in Phases
      BY <2>1, <2>2 DEF After, Phases
    <3>. QED BY <2>1, <3>1, <3>2, QuietStep
  <2>3. CASE Done(r, leg) = {} /\ leg = "out"
    <3>1. Moves(r, "out_post") /\ posts[r] = {}
      BY <2>1, <2>3 DEF IInv, PostsInOrder
    <3>. QED BY <2>1, <3>1, QuietStep DEF Phases
  <2>4. CASE Done(r, leg) = {} /\ leg = "in"
    BY <2>1, <2>4, WaitsStep
  <2>. QED BY <2>1, <2>2, <2>3, <2>4 DEF Legs
<1>3. ASSUME NEW r \in Requests, Post(r) PROVE IInv'
  <2>. DEFINE leg == Leg(r)
  <2>1. /\ leg \in Legs /\ phase[r] = IF leg = "out" THEN "out_post" ELSE "in_post"
        /\ KeyFree(r, leg) /\ DOMAIN posts = Requests
    BY <1>3 DEF Post, Leg, Legs, IInv, OwnPosts
  <2>2. CASE Refuse(r)
    BY <2>2, RefuseStep
  <2>3. CASE /\ Moves(r, After(leg)) /\ UNCHANGED <<committed, deal>>
             /\ posts' = [posts EXCEPT ![r] =
                            IF Done(r, leg) = {} THEN @ \union {Posting(r, leg)} ELSE @]
    <3>1. UNCHANGED posted
      BY <2>3 DEF committed
    <3>2. CASE Done(r, leg) = {}
      <4>1. PICK new : new = Posting(r, leg)
        OBVIOUS
      <4>2. new.key = Key[r] /\ new.by = r /\ new.leg = leg
        BY <4>1 DEF Posting
      <4>3. posts' = [posts EXCEPT ![r] = @ \union {new}]
        BY <2>3, <3>2, <4>1
      <4>. QED BY <2>1, <2>3, <3>1, <3>2, <4>2, <4>3, PostsStep
    <3>3. CASE Done(r, leg) # {}
      <4>1. Of(posted, Key[r]) # {} /\ posts[r] = {}
        BY <2>1, <3>3, DoneMeansBoth DEF IInv, KeyIsTaken
      <4>2. posts'[r] = {} /\ DOMAIN posts' = Requests
            /\ \A s \in Requests \ {r} : posts'[s] = posts[s]
        BY <2>1, <2>3, <3>3, <4>1
      <4>3. After(leg) \in Phases
        BY DEF After, Phases
      <4>. QED BY <2>3, <3>1, <4>1, <4>2, <4>3, QuietStep
    <3>. QED BY <3>2, <3>3
  <2>. QED BY <1>3, <2>2, <2>3 DEF Post
<1>4. ASSUME NEW r \in Requests, Commit(r) PROVE IInv'
  BY <1>4, CommitStep
<1>5. ASSUME NEW r \in Requests, Crash(r) PROVE IInv'
  BY <1>5, RefuseStep DEF Crash
<1>6. CASE Quote \/ UNCHANGED vars
  <2>. UNCHANGED <<posted, phase, posts>>
    BY <1>6 DEF Quote, vars
  <2>1. OwnPosts' /\ KeyIsTaken' /\ BothLegs' /\ (\A p \in posted' : p.leg \in Legs)
    BY DEF IInv, OwnPosts, KeyIsTaken, BothLegs, Of
  <2>2. PostsInOrder'
    BY DEF IInv, PostsInOrder, Of, HasLeg
  <2>. QED BY <2>1, <2>2 DEF IInv
<1>. QED BY <1>1, <1>2, <1>3, <1>4, <1>5, <1>6 DEF Next

-----------------------------------------------------------------------------
(* Rates *)

\* Numbers up to a bound have a largest one.
LEMMA LargestIsThere ==
  ASSUME NEW n \in Nat, NEW S \in SUBSET (1 .. n), S # {}
  PROVE  Max(S) \in S
<1>. DEFINE below == {n - x : x \in S}
<1>1. below \in SUBSET Nat /\ below # {}
  <2>1. \A x \in S : n - x \in Nat
    OBVIOUS
  <2>2. PICK x \in S : TRUE
    OBVIOUS
  <2>3. n - x \in below
    BY <2>2
  <2>. QED BY <2>1, <2>3
<1>2. PICK m \in below : \A y \in below : m <= y
  <2>. HIDE DEF below
  <2>. QED BY <1>1, Least
<1>3. PICK x \in S : m = n - x
  OBVIOUS
<1>4. ASSUME NEW y \in S
      PROVE  x >= y
  <2>1. n - x <= n - y
    BY <1>2, <1>3
  <2>2. x \in Nat /\ y \in Nat
    OBVIOUS
  <2>. HIDE DEF below
  <2>. QED BY ONLY <2>1, <2>2, n \in Nat
<1>. QED BY <1>4 DEF Max

GoodRate(rate) == rate.num \in Nat \ {0} /\ rate.den \in Nat \ {0}

\* A quotation that is found has a rate.
LEMMA LatestIsGood ==
  ASSUME quoted \in 0 .. Len(Quotations), NEW base, NEW quote, Latest(base, quote) # NoRate
  PROVE  GoodRate(Latest(base, quote))
<1>. DEFINE of == {q \in 1..quoted : Quotations[q].base = base /\ Quotations[q].quote = quote}
            q == Quotations[Max(of)]
<1>1. of # {} /\ Latest(base, quote) = [num |-> q.rate, den |-> Places]
  BY DEF Latest
<1>2. Len(Quotations) \in Nat /\ quoted \in Nat
  BY ExchangeAssumption
<1>3. Max(of) \in of
  <2>1. of \in SUBSET (1 .. quoted)
    OBVIOUS
  <2>. QED BY <1>1, <1>2, <2>1, LargestIsThere
<1>4. Max(of) \in 1 .. Len(Quotations)
  BY <1>2, <1>3
<1>5. Quotations[Max(of)] \in Quotation
  BY <1>4, ExchangeAssumption
<1>. QED BY <1>1, <1>5, ExchangeAssumption DEF GoodRate, Quotation

LEMMA TauxIsGood ==
  ASSUME quoted \in 0 .. Len(Quotations), NEW base, NEW quote, Taux(base, quote) # NoRate
  PROVE  GoodRate(Taux(base, quote))
<1>1. CASE Latest(base, quote) # NoRate
  BY <1>1, LatestIsGood DEF Taux
<1>2. CASE Latest(base, quote) = NoRate
  <2>1. Taux(base, quote) = Inverted(Latest(quote, base))
    BY <1>2 DEF Taux
  <2>2. Latest(quote, base) # NoRate
    BY <2>1 DEF Inverted
  <2>. QED BY <2>1, <2>2, LatestIsGood DEF Inverted, GoodRate
<1>. QED BY <1>1, <1>2

\* Half up: never further than half a unit from the fraction.
LEMMA DivisionFloors ==
  ASSUME NEW x \in Nat, NEW y \in Nat \ {0}
  PROVE  x \div y \in Nat /\ y * (x \div y) <= x /\ x < y * (x \div y) + y
OBVIOUS

LEMMA HalfUpIsNear ==
  ASSUME NEW n \in Nat, NEW d \in Nat \ {0}, NEW t, t = HalfUp(n, d)
  PROVE  /\ t \in Nat
         /\ 2 * (t * d - n) <= d /\ 2 * (t * d - n) >= -d
<1>1. 2 * n + d \in Nat /\ 2 * d \in Nat \ {0}
  OBVIOUS
<1>2. t \in Nat /\ (2 * d) * t <= 2 * n + d /\ 2 * n + d < (2 * d) * t + 2 * d
  BY <1>1, DivisionFloors DEF HalfUp
<1>3. PICK td \in Nat : td = t * d
  BY <1>2
<1>4. (2 * d) * t = 2 * td
  BY <1>2, <1>3
<1>. QED BY <1>2, <1>3, <1>4

LEMMA Products ==
  ASSUME NEW x \in Nat, NEW y \in Nat
  PROVE  x * y \in Nat /\ (x # 0 /\ y # 0 => x * y # 0)
OBVIOUS

\* What is converted at a rate is the nearest number of minor units.
LEMMA ConvertirIsNear ==
  ASSUME NEW rate, GoodRate(rate), NEW amount \in Nat,
         NEW from \in Currencies, NEW to \in Currencies
  PROVE  LET exact == Scaled(rate, amount, from, to)
             t == Convertir(rate, amount, from, to) IN
         /\ t \in Nat
         /\ 2 * (t * exact.den - exact.num) <= exact.den
         /\ 2 * (t * exact.den - exact.num) >= -exact.den
<1>1. Minor[from] \in Nat \ {0} /\ Minor[to] \in Nat \ {0}
  BY ExchangeAssumption
<1>2. rate.num \in Nat /\ rate.den \in Nat /\ rate.den # 0
  BY DEF GoodRate
<1>3. PICK n \in Nat : n = amount * rate.num * Minor[to]
  <2>1. amount * rate.num \in Nat
    BY <1>2, Products
  <2>. QED BY <1>1, <2>1, Products
<1>4. PICK d \in Nat \ {0} : d = rate.den * Minor[from]
  BY <1>1, <1>2, Products
<1>5. Scaled(rate, amount, from, to) = [num |-> n, den |-> d]
  BY <1>3, <1>4 DEF Scaled
<1>6. PICK t : t = HalfUp(n, d)
  OBVIOUS
<1>7. Convertir(rate, amount, from, to) = t
  BY <1>5, <1>6 DEF Convertir
<1>8. t \in Nat /\ 2 * (t * d - n) <= d /\ 2 * (t * d - n) >= -d
  BY <1>6, HalfUpIsNear
<1>. QED BY <1>5, <1>7, <1>8

\* What the column keeps of a rate is near it.
LEMMA StoredIsNear ==
  ASSUME NEW rate, GoodRate(rate)
  PROVE  LET kept == Stored(rate) IN
         /\ kept.num \in Nat /\ kept.den = Places
         /\ 2 * (kept.num * rate.den - rate.num * Places) <= rate.den
         /\ 2 * (kept.num * rate.den - rate.num * Places) >= -rate.den
<1>1. rate.num \in Nat /\ rate.den \in Nat \ {0} /\ Places \in Nat \ {0}
  BY ExchangeAssumption DEF GoodRate
<1>2. CASE rate.den = Places
  <2>1. Stored(rate) = rate
    BY <1>2 DEF Stored
  <2>. QED BY <1>1, <1>2, <2>1
<1>3. CASE rate.den # Places
  <2>1. PICK n \in Nat : n = rate.num * Places
    BY <1>1, Products
  <2>2. PICK t : t = HalfUp(n, rate.den)
    OBVIOUS
  <2>3. Stored(rate) = [num |-> t, den |-> Places]
    BY <1>3, <2>1, <2>2 DEF Stored
  <2>4. t \in Nat /\ 2 * (t * rate.den - n) <= rate.den /\ 2 * (t * rate.den - n) >= -rate.den
    BY <1>1, <2>2, HalfUpIsNear
  <2>. QED BY <2>1, <2>3, <2>4
<1>. QED BY <1>2, <1>3

LEMMA ProductGrows ==
  ASSUME NEW k \in Nat, NEW x \in Int, NEW y \in Int, x <= y
  PROVE  k * x <= k * y
OBVIOUS

LEMMA ProductShrinks ==
  ASSUME NEW k \in Nat \ {0}, NEW x \in Int, NEW y \in Int, k * x <= k * y
  PROVE  x <= y
OBVIOUS

\* Two roundings, one of the amount y and one of the rate, add up: with n / d the rate
\* and k / places what is kept of it, a the amount, f and t the minor units.
LEMMA RoundingsAddUp ==
  ASSUME NEW y \in Nat, NEW a \in Nat, NEW n \in Nat, NEW k \in Nat,
         NEW d \in Nat \ {0}, NEW places \in Nat \ {0}, NEW f \in Nat, NEW t \in Nat,
         2 * (y * (d * f) - a * n * t) <= d * f, 2 * (y * (d * f) - a * n * t) >= -(d * f),
         2 * (k * d - n * places) <= d, 2 * (k * d - n * places) >= -d
  PROVE  /\ 2 * (y * (places * f) - a * k * t) <= places * f + a * t
         /\ 2 * (y * (places * f) - a * k * t) >= -(places * f + a * t)
<1>1. PICK x \in Int, df \in Nat : df = d * f /\ x = y * df - a * n * t
  OBVIOUS
<1>2. PICK w \in Int : w = n * places - k * d
  OBVIOUS
<1>3. PICK m \in Nat, pf \in Nat : m = a * t /\ pf = places * f
  OBVIOUS
<1>4. PICK u \in Int : u = y * pf - a * k * t
  BY <1>3
<1>5. d * u = places * x + m * w
  <2>1. y * pf - a * k * t = y * (places * f) - (a * t) * k
    BY <1>3
  <2>2. d * (y * (places * f)) = places * (y * (d * f))
    OBVIOUS
  <2>3. d * ((a * t) * k) = (a * t) * (k * d)
    OBVIOUS
  <2>4. places * (a * n * t) = (a * t) * (n * places)
    OBVIOUS
  <2>5. d * u = d * (y * pf) - d * (a * k * t)
    BY <1>4
  <2>6. places * x = places * (y * df) - places * (a * n * t)
    BY <1>1
  <2>7. m * w = m * (n * places) - m * (k * d)
    BY <1>2
  <2>8. a * k * t = (a * t) * k
    OBVIOUS
  <2>. QED BY <1>1, <1>3, <2>2, <2>3, <2>4, <2>5, <2>6, <2>7, <2>8
<1>6. 2 * x <= df /\ -df <= 2 * x /\ 2 * w <= d /\ -d <= 2 * w
  BY <1>1, <1>2
<1>7. /\ places * (2 * x) <= places * df /\ places * (-df) <= places * (2 * x)
      /\ m * (2 * w) <= m * d /\ m * (-d) <= m * (2 * w)
  BY <1>6, ProductGrows
<1>8. PICK v \in Nat : v = pf + m
  OBVIOUS
<1>9. places * df = d * pf
  BY <1>1, <1>3
<1>10. d * v = places * df + m * d
  BY <1>8, <1>9
<1>11. d * (2 * u) = places * (2 * x) + m * (2 * w)
  BY <1>5
<1>12. places * (-df) = -(places * df) /\ m * (-d) = -(m * d) /\ d * (-v) = -(d * v)
  OBVIOUS
<1>13. d * (2 * u) <= d * v /\ d * (-v) <= d * (2 * u)
  <2>1. PICK a1 \in Int, a2 \in Int, a3 \in Int, a4 \in Int :
          a1 = places * (2 * x) /\ a2 = m * (2 * w) /\ a3 = places * df /\ a4 = m * d
    OBVIOUS
  <2>2. a1 <= a3 /\ -a3 <= a1 /\ a2 <= a4 /\ -a4 <= a2
    BY <1>7, <1>12, <2>1
  <2>3. d * (2 * u) = a1 + a2 /\ d * v = a3 + a4 /\ d * (-v) = -(a3 + a4)
    BY <1>10, <1>11, <1>12, <2>1
  <2>. QED BY <2>2, <2>3
<1>14. 2 * u <= v /\ -v <= 2 * u
  BY <1>13, ProductShrinks
<1>. QED BY <1>3, <1>4, <1>8, <1>14

-----------------------------------------------------------------------------
(* Balances *)

Priced(S) == IsFiniteSet(S) /\ \A p \in S : p.amount \in Nat

LEMMA TotalType ==
  ASSUME NEW S, Priced(S)
  PROVE  Total(S) \in Nat
BY SumType DEF Total, Priced

\* A part of some postings has no larger total.
LEMMA TotalOfPart ==
  ASSUME NEW S, Priced(S), NEW T \in SUBSET S
  PROVE  Priced(T) /\ Total(T) <= Total(S)
<1>. DEFINE all == [p \in S |-> p.amount]
            some == [p \in T |-> p.amount]
<1>1. IsFiniteSet(T) /\ SumOf(T, all) <= SumOf(S, all)
  BY SumOfPart DEF Priced
<1>2. SumOf(T, all) = SumOf(T, some)
  BY SumOfSame
<1>. QED BY <1>1, <1>2 DEF Total, Priced

LEMMA TotalWith ==
  ASSUME NEW S, Priced(S), NEW x, x \notin S, x.amount \in Nat
  PROVE  Priced(S \union {x}) /\ Total(S \union {x}) = Total(S) + x.amount
<1>. DEFINE all == [p \in S \union {x} |-> p.amount]
            some == [p \in S |-> p.amount]
<1>1. /\ IsFiniteSet(S \union {x})
      /\ SumOf(S \union {x}, all) = SumOf(S, all) + all[x]
  BY SumOfAdded DEF Priced
<1>2. SumOf(S, all) = SumOf(S, some)
  BY SumOfSame
<1>3. all[x] = x.amount
  OBVIOUS
<1>. HIDE DEF all, some
<1>4. Total(S \union {x}) = SumOf(S \union {x}, all) /\ Total(S) = SumOf(S, some)
  BY DEF Total, all, some
<1>. QED BY <1>1, <1>2, <1>3, <1>4 DEF Priced

\* Transactions that do not debit an account take nothing from its balance.
LEMMA MoreCredit ==
  ASSUME NEW S, Priced(S), NEW T, Priced(T), NEW a \in Accounts, \A p \in T : p.outof # a
  PROVE  Balance(a, S \union T) >= Balance(a, S)
<1>. DEFINE In(U) == {p \in U : p.into = a}
            Out(U) == {p \in U : p.outof = a}
<1>1. Priced(S \union T)
  BY FS_Union DEF Priced
<1>2. Out(S \union T) = Out(S)
  OBVIOUS
<1>3. In(S) \in SUBSET In(S \union T) /\ In(S \union T) \in SUBSET (S \union T)
  OBVIOUS
<1>4. Priced(In(S \union T)) /\ Total(In(S)) <= Total(In(S \union T))
  BY <1>1, <1>3, TotalOfPart
<1>5. Priced(Out(S)) /\ Priced(In(S))
  <2>1. Out(S) \in SUBSET S /\ In(S) \in SUBSET S
    OBVIOUS
  <2>. QED BY <2>1, TotalOfPart
<1>6. Total(In(S)) \in Nat /\ Total(In(S \union T)) \in Nat /\ Total(Out(S)) \in Nat
  BY <1>4, <1>5, TotalType
<1>7. Opening[a] \in Nat
  BY ExchangeAssumption
<1>8. /\ Balance(a, S) = Opening[a] + Total(In(S)) - Total(Out(S))
      /\ Balance(a, S \union T) = Opening[a] + Total(In(S \union T)) - Total(Out(S \union T))
  BY DEF Balance
<1>. HIDE DEF In, Out
<1>. QED BY <1>2, <1>4, <1>6, <1>7, <1>8

LEMMA BalanceType ==
  ASSUME NEW S, Priced(S), NEW a \in Accounts
  PROVE  Balance(a, S) \in Int
<1>1. {p \in S : p.into = a} \in SUBSET S /\ {p \in S : p.outof = a} \in SUBSET S
  OBVIOUS
<1>2. Total({p \in S : p.into = a}) \in Nat /\ Total({p \in S : p.outof = a}) \in Nat
  BY <1>1, TotalOfPart, TotalType
<1>3. Opening[a] \in Nat
  BY ExchangeAssumption
<1>. QED BY <1>2, <1>3 DEF Balance

\* One that does takes its amount.
LEMMA OneDebit ==
  ASSUME NEW S, Priced(S), NEW x, x \notin S, x.amount \in Nat,
         NEW a \in Accounts, x.outof = a, x.into # a
  PROVE  Balance(a, S \union {x}) = Balance(a, S) - x.amount /\ Balance(a, S) \in Int
<1>. DEFINE In(U) == {p \in U : p.into = a}
            Out(U) == {p \in U : p.outof = a}
<1>1. In(S \union {x}) = In(S) /\ Out(S \union {x}) = Out(S) \union {x} /\ x \notin Out(S)
  OBVIOUS
<1>2. Priced(Out(S)) /\ Priced(In(S))
  <2>1. Out(S) \in SUBSET S /\ In(S) \in SUBSET S
    OBVIOUS
  <2>. QED BY <2>1, TotalOfPart
<1>3. Opening[a] \in Nat
  BY ExchangeAssumption
<1>4. /\ Balance(a, S) = Opening[a] + Total(In(S)) - Total(Out(S))
      /\ Balance(a, S \union {x}) = Opening[a] + Total(In(S \union {x})) - Total(Out(S \union {x}))
  BY DEF Balance
<1>. HIDE DEF In, Out
<1>5. Total(In(S)) \in Nat /\ Total(Out(S)) \in Nat
  BY <1>2, TotalType
<1>6. Total(Out(S) \union {x}) = Total(Out(S)) + x.amount
  BY <1>1, <1>2, TotalWith
<1>7. Total(In(S \union {x})) = Total(In(S))
  BY <1>1
<1>8. Total(Out(S \union {x})) = Total(Out(S)) + x.amount
  BY <1>1, <1>6
<1>. QED BY <1>3, <1>4, <1>5, <1>7, <1>8

-----------------------------------------------------------------------------
(* What is converted, covered and recorded *)

InHand == {"out", "out_post", "in", "in_post", "booked"}

\* What a request under way has worked out.
Agreed(r) ==
  /\ GoodRate(deal[r].rate) /\ Amount[r] > 0
  /\ deal[r].target = Convertir(deal[r].rate, Amount[r], From(r), To(r))
  /\ deal[r].target > 0
  /\ \A l \in Legs : deal[r].uses[l] \in Position

DealsInv ==
  /\ quoted \in 0 .. Len(Quotations)
  /\ positions \subseteq Position
  /\ DOMAIN deal = Requests
  /\ \A r \in Requests : phase[r] \in InHand => Agreed(r)

\* A transaction says what its request converts.
Says(p, r, target) ==
  /\ p.leg = "out" => p.outof = Source[r] /\ p.amount = Amount[r]
  /\ p.leg = "in" => p.into = Target[r] /\ p.amount = target

\* So does what is uncommitted; a position stands on the other side of it.
PostsSay ==
  \A r \in Requests :
    /\ IsFiniteSet(posts[r])
    /\ \A p \in posts[r] :
         /\ Says(p, r, deal[r].target) /\ p.amount \in Nat \ {0}
         /\ p.leg = "out" => p.into \notin Accounts
         /\ p.leg = "in" => p.outof \notin Accounts

\* Nobody else has the account debited, while the debit is not committed.
LocksHeld ==
  /\ held \in [Requests -> [Legs -> Accounts \union Position \union {NoPosition}]]
  /\ \A r \in Requests : \A s \in Requests \ {r} : \A l, m \in Legs :
       held[r][l] \in Accounts => held[s][m] # held[r][l]
  /\ \A r \in Requests : \A p \in posts[r] : p.outof \in Accounts => held[r]["out"] = p.outof

\* The source covers what is committed, and what one request adds to it.
FundsInv ==
  /\ IsFiniteSet(posted) /\ \A p \in posted : p.amount \in Nat \ {0}
  /\ SourcesCover
  /\ \A r \in Requests : \A a \in Accounts : Balance(a, posted \union posts[r]) >= 0

\* A conversion's row has the amount worked out at a rate, and what is kept of it.
AtRate(c) == \E rate :
  /\ GoodRate(rate) /\ c.rate = Stored(rate)
  /\ c.target = Convertir(rate, Amount[c.by], From(c.by), To(c.by))

\* What is committed was by a request that is done, and its conversion says it.
RecordsInv ==
  /\ \A p \in posted : p.by \in Requests /\ phase[p.by] = "done"
  /\ \A c \in conversions :
       /\ c.by \in Requests /\ phase[c.by] = "done"
       /\ AtRate(c) /\ c.target > 0
       /\ \A p \in posted : p.by = c.by => Says(p, c.by, c.target)

Books == DealsInv /\ PostsSay /\ LocksHeld /\ FundsInv /\ RecordsInv

LEMMA InitBooks == Init => Books
<1>. SUFFICES ASSUME Init PROVE Books
  OBVIOUS
<1>1. /\ quoted = 0 /\ positions = {} /\ posted = {} /\ conversions = {}
      /\ DOMAIN deal = Requests
      /\ \A r \in Requests : phase[r] = "new" /\ posts[r] = {} /\ held[r] = Unheld
      /\ held = [r \in Requests |-> Unheld]
  BY DEF Init
<1>2. DealsInv
  <2>1. 0 \in 0 .. Len(Quotations)
    BY ExchangeAssumption
  <2>. QED BY <1>1, <2>1 DEF DealsInv, InHand
<1>3. PostsSay
  BY <1>1, FS_EmptySet DEF PostsSay
<1>4. LocksHeld
  <2>1. NoPosition \notin Accounts
    BY ExchangeAssumption
  <2>. QED BY <1>1, <2>1 DEF LocksHeld, Unheld
<1>5. FundsInv
  <2>1. \A a \in Accounts : Opening[a] \in Nat
    BY ExchangeAssumption
  <2>2. Total({}) = 0
    BY SumOfNone DEF Total
  <2>3. \A a \in Accounts : Balance(a, {}) = Opening[a] + Total({}) - Total({})
    <3>1. ASSUME NEW a \in Accounts
          PROVE  {p \in {} : p.into = a} = {} /\ {p \in {} : p.outof = a} = {}
      OBVIOUS
    <3>. QED BY <3>1 DEF Balance
  <2>4. \A a \in Accounts : Balance(a, {}) >= 0
    BY <2>1, <2>2, <2>3
  <2>5. \A r \in Requests : posted \union posts[r] = {}
    BY <1>1
  <2>. QED BY <1>1, <2>4, <2>5, FS_EmptySet DEF FundsInv, SourcesCover
<1>6. RecordsInv
  BY <1>1 DEF RecordsInv
<1>. QED BY <1>2, <1>3, <1>4, <1>5, <1>6 DEF Books

\* Nothing about one request depends on how far another is.
LEMMA AgreedStays ==
  ASSUME NEW r \in Requests, Agreed(r), deal'[r] = deal[r]
  PROVE  Agreed(r)'
BY DEF Agreed

\* The end of a session frees its locks.
LEMMA EndFreesLocks ==
  ASSUME Books, NEW r \in Requests, held' = [held EXCEPT ![r] = Unheld], posts'[r] = {},
         \A s \in Requests \ {r} : posts'[s] = posts[s]
  PROVE  LocksHeld'
<1>1. NoPosition \notin Accounts
  BY ExchangeAssumption
<1>2. held'[r] = Unheld /\ \A s \in Requests \ {r} : held'[s] = held[s]
  BY DEF Books, LocksHeld
<1>3. held' \in [Requests -> [Legs -> Accounts \union Position \union {NoPosition}]]
  BY DEF Books, LocksHeld, Unheld
<1>4. \A l \in Legs : held'[r][l] \notin Accounts
  BY <1>1, <1>2 DEF Unheld
<1>5. ASSUME NEW q \in Requests, NEW s \in Requests \ {q}, NEW l \in Legs, NEW m \in Legs,
             held'[q][l] \in Accounts
      PROVE  held'[s][m] # held'[q][l]
  <2>1. q # r
    BY <1>4, <1>5
  <2>2. CASE s = r
    BY <1>4, <1>5, <2>2
  <2>3. CASE s # r
    BY <1>2, <1>5, <2>1, <2>3 DEF Books, LocksHeld
  <2>. QED BY <2>2, <2>3
<1>6. \A s \in Requests : \A p \in posts'[s] : p.outof \in Accounts => held'[s]["out"] = p.outof
  BY <1>2 DEF Books, LocksHeld
<1>. QED BY <1>3, <1>5, <1>6 DEF LocksHeld

\* A rolled back session leaves what the others have.
LEMMA RefuseBooks ==
  ASSUME IInv, Books, NEW r \in Requests, Refuse(r), phase[r] # "done"
  PROVE  Books'
<1>1. /\ phase'[r] = "refused" /\ posts'[r] = {}
      /\ \A s \in Requests \ {r} :
           phase'[s] = phase[s] /\ posts'[s] = posts[s] /\ deal'[s] = deal[s]
      /\ DOMAIN deal' = Requests
      /\ UNCHANGED <<quoted, positions, posted, conversions>>
  BY DEF Refuse, Ends, Moves, committed, IInv, OwnPosts, Books, DealsInv
<1>2. held' = [held EXCEPT ![r] = Unheld]
  BY DEF Refuse, Ends
<1>3. DealsInv'
  <2>1. ASSUME NEW s \in Requests, phase'[s] \in InHand
        PROVE  Agreed(s)'
    <3>1. s # r
      BY <1>1, <2>1 DEF InHand
    <3>. QED BY <1>1, <2>1, <3>1, AgreedStays DEF Books, DealsInv
  <2>. QED BY <1>1, <2>1 DEF Books, DealsInv
<1>4. PostsSay'
  <2>1. ASSUME NEW s \in Requests
        PROVE  /\ IsFiniteSet(posts'[s])
               /\ \A p \in posts'[s] :
                    /\ Says(p, s, deal'[s].target) /\ p.amount \in Nat \ {0}
                    /\ p.leg = "out" => p.into \notin Accounts
                    /\ p.leg = "in" => p.outof \notin Accounts
    BY <1>1, FS_EmptySet DEF Books, PostsSay
  <2>. QED BY <2>1 DEF PostsSay, Says
<1>5. LocksHeld'
  <2>1. posts'[r] = {} /\ \A s \in Requests \ {r} : posts'[s] = posts[s]
    BY <1>1
  <2>. QED BY <1>2, <2>1, EndFreesLocks
<1>6. FundsInv'
  <2>1. \A a \in Accounts : Balance(a, posted \union {}) = Balance(a, posted)
    OBVIOUS
  <2>2. \A s \in Requests : posts'[s] = posts[s] \/ posts'[s] = {}
    BY <1>1
  <2>3. \A s \in Requests : \A a \in Accounts : Balance(a, posted \union posts'[s]) >= 0
    BY <2>1, <2>2 DEF Books, FundsInv, SourcesCover
  <2>. QED BY <1>1, <2>3 DEF Books, FundsInv, SourcesCover, Balance
<1>7. RecordsInv'
  BY <1>1 DEF Books, RecordsInv, Says
<1>. QED BY <1>3, <1>4, <1>5, <1>6, <1>7 DEF Books

\* A request that moves on with nothing new.
LEMMA KnownBooks ==
  ASSUME IInv, Books, NEW r \in Requests, Known(r)
  PROVE  Books'
<1>1. /\ phase[r] \in InHand /\ phase'[r] \in InHand
      /\ \A s \in Requests \ {r} : phase'[s] = phase[s]
      /\ UNCHANGED <<quoted, positions, posted, conversions, deal, held, posts>>
  BY DEF Known, Moves, After, Leg, Legs, InHand, committed, IInv, OwnPosts
<1>2. DealsInv'
  <2>1. ASSUME NEW s \in Requests, phase'[s] \in InHand
        PROVE  Agreed(s)'
    BY <1>1, <2>1, AgreedStays DEF Books, DealsInv
  <2>. QED BY <1>1, <2>1 DEF Books, DealsInv
<1>3. PostsSay' /\ LocksHeld' /\ FundsInv'
  <2>1. PostsSay'
    BY <1>1 DEF Books, PostsSay, Says
  <2>2. LocksHeld'
    BY <1>1 DEF Books, LocksHeld
  <2>3. FundsInv'
    BY <1>1 DEF Books, FundsInv, SourcesCover, Balance
  <2>. QED BY <2>1, <2>2, <2>3
<1>4. RecordsInv'
  <2>1. phase[r] # "done"
    BY <1>1 DEF InHand
  <2>. QED BY <1>1, <2>1 DEF Books, RecordsInv, Says
<1>. QED BY <1>2, <1>3, <1>4 DEF Books

\* A request that begins has worked out its amount at a rate that was quoted.
LEMMA BeginBooks ==
  ASSUME IInv, Books, NEW r \in Requests, Begin(r), ~Refuse(r)
  PROVE  Books'
<1>. DEFINE rate == Taux(From(r), To(r))
            target == Convertir(rate, Amount[r], From(r), To(r))
<1>1. /\ phase[r] = "new" /\ Amount[r] > 0 /\ rate # NoRate /\ target > 0
      /\ Moves(r, "out") /\ UNCHANGED <<committed, held, posts>>
  BY DEF Begin
<1>2. PICK out \in PositionChoices(r, From(r)), in \in PositionChoices(r, To(r)) :
        deal' = [deal EXCEPT ![r] = [rate |-> rate, target |-> target,
                                     uses |-> [out |-> out, in |-> in]]]
  BY DEF Begin
<1>3. /\ phase'[r] = "out" /\ posts[r] = {}
      /\ \A s \in Requests \ {r} : phase'[s] = phase[s] /\ deal'[s] = deal[s]
      /\ DOMAIN deal' = Requests
      /\ UNCHANGED <<quoted, positions, posted, conversions, held, posts>>
  BY <1>1, <1>2 DEF Moves, committed, IInv, OwnPosts, PostsInOrder, Books, DealsInv
<1>4. deal'[r] = [rate |-> rate, target |-> target, uses |-> [out |-> out, in |-> in]]
  BY <1>2 DEF Books, DealsInv
<1>5. From(r) \in Currencies /\ To(r) \in Currencies
  BY ExchangeAssumption DEF From, To
<1>6. out \in Position /\ in \in Position
  BY <1>5 DEF PositionChoices, PositionsSeen, Position, Books, DealsInv
<1>7. GoodRate(rate)
  BY <1>1, TauxIsGood DEF Books, DealsInv
<1>. HIDE DEF rate, target
<1>8. Agreed(r)'
  <2>1. target = Convertir(rate, Amount[r], From(r), To(r))
    BY DEF target
  <2>2. /\ deal'[r].rate = rate /\ deal'[r].target = target
        /\ deal'[r].uses["out"] = out /\ deal'[r].uses["in"] = in
    BY <1>4
  <2>. QED BY <1>1, <1>6, <1>7, <2>1, <2>2 DEF Agreed, Legs
<1>9. DealsInv'
  <2>1. ASSUME NEW s \in Requests, phase'[s] \in InHand
        PROVE  Agreed(s)'
    BY <1>3, <1>8, <2>1, AgreedStays DEF Books, DealsInv
  <2>. QED BY <1>3, <2>1 DEF Books, DealsInv
<1>10. PostsSay'
  <2>1. ASSUME NEW s \in Requests
        PROVE  /\ IsFiniteSet(posts'[s])
               /\ \A p \in posts'[s] :
                    /\ Says(p, s, deal'[s].target) /\ p.amount \in Nat \ {0}
                    /\ p.leg = "out" => p.into \notin Accounts
                    /\ p.leg = "in" => p.outof \notin Accounts
    BY <1>3 DEF Books, PostsSay
  <2>. QED BY <2>1 DEF PostsSay, Says
<1>11. LocksHeld' /\ FundsInv'
  <2>1. LocksHeld'
    BY <1>3 DEF Books, LocksHeld
  <2>2. FundsInv'
    BY <1>3 DEF Books, FundsInv, SourcesCover, Balance
  <2>. QED BY <2>1, <2>2
<1>12. RecordsInv'
  BY <1>1, <1>3 DEF Books, RecordsInv, Says
<1>. QED BY <1>9, <1>10, <1>11, <1>12 DEF Books

\* The amounts and accounts of a posting.
LEMMA PostingSays ==
  ASSUME Books, NEW r \in Requests, phase[r] \in InHand, NEW leg \in Legs,
         NEW new, new = Posting(r, leg)
  PROVE  /\ new.leg = leg /\ new.by = r /\ new.key = Key[r]
         /\ Says(new, r, deal[r].target) /\ new.amount \in Nat \ {0}
         /\ leg = "out" => new.outof = Source[r] /\ new.outof \in Accounts /\ new.into \notin Accounts
         /\ leg = "in" => new.outof \in Position /\ new.outof \notin Accounts
<1>1. Agreed(r)
  BY DEF Books, DealsInv
<1>2. /\ Source[r] \in Accounts /\ Amount[r] \in Nat
      /\ From(r) \in Currencies /\ To(r) \in Currencies
      /\ \A p \in Position : p \notin Accounts
  BY ExchangeAssumption DEF From, To
<1>3. Convertir(deal[r].rate, Amount[r], From(r), To(r)) \in Nat
  <2>1. PICK rate : rate = deal[r].rate
    OBVIOUS
  <2>2. GoodRate(rate)
    BY <1>1, <2>1 DEF Agreed
  <2>. QED BY <1>2, <2>1, <2>2, ConvertirIsNear
<1>4. deal[r].target \in Nat \ {0} /\ Amount[r] \in Nat \ {0}
  BY <1>1, <1>2, <1>3 DEF Agreed
<1>5. deal[r].uses["out"] \in Position /\ deal[r].uses["in"] \in Position
  BY <1>1 DEF Agreed, Legs
<1>6. /\ new.leg = leg /\ new.by = r /\ new.key = Key[r]
      /\ new.outof = Debited(r, leg) /\ new.into = Credited(r, leg) /\ new.amount = Posted(r, leg)
  BY DEF Posting
<1>7. CASE leg = "out"
  BY <1>2, <1>4, <1>5, <1>6, <1>7 DEF Debited, Credited, Posted, Says
<1>8. CASE leg = "in"
  BY <1>2, <1>4, <1>5, <1>6, <1>8 DEF Debited, Credited, Posted, Says
<1>. QED BY <1>7, <1>8 DEF Legs

\* The lock a posting takes was free.
LEMMA PostLocks ==
  ASSUME IInv, Books, NEW r \in Requests, NEW leg \in Legs,
         phase[r] = IF leg = "out" THEN "out_post" ELSE "in_post",
         Free(r, Debited(r, leg)), held' = [held EXCEPT ![r][leg] = Debited(r, leg)],
         \A s \in Requests \ {r} : posts'[s] = posts[s],
         NEW new, new = Posting(r, leg), posts'[r] \subseteq posts[r] \union {new}
  PROVE  LocksHeld'
<1>1. phase[r] \in InHand
  BY DEF InHand, Legs
<1>2. /\ leg = "out" => new.outof = Source[r] /\ new.outof \in Accounts
      /\ leg = "in" => new.outof \in Position /\ new.outof \notin Accounts
  BY <1>1, PostingSays
<1>3. PICK account : account = Debited(r, leg)
  OBVIOUS
<1>4. new.outof = account /\ account \in Accounts \union Position
  BY <1>2, <1>3 DEF Posting, Legs
<1>5. /\ held \in [Requests -> [Legs -> Accounts \union Position \union {NoPosition}]]
      /\ held' = [held EXCEPT ![r][leg] = account]
  BY <1>3 DEF Books, LocksHeld
<1>6. /\ held' \in [Requests -> [Legs -> Accounts \union Position \union {NoPosition}]]
      /\ held'[r][leg] = account
      /\ \A l \in Legs : l # leg => held'[r][l] = held[r][l]
      /\ \A s \in Requests \ {r} : held'[s] = held[s]
  BY <1>4, <1>5
<1>7. \A s \in Requests \ {r} : \A m \in Legs : held[s][m] # account
  BY <1>3 DEF Free
<1>8. ASSUME NEW q \in Requests, NEW s \in Requests \ {q}, NEW l \in Legs, NEW m \in Legs,
             held'[q][l] \in Accounts
      PROVE  held'[s][m] # held'[q][l]
  <2>1. CASE q = r /\ l = leg
    BY <1>6, <1>7, <2>1
  <2>2. CASE s = r /\ m = leg
    BY <1>6, <1>7, <2>2
  <2>3. CASE ~(q = r /\ l = leg) /\ ~(s = r /\ m = leg)
    <3>1. held'[q][l] = held[q][l] /\ held'[s][m] = held[s][m]
      BY <1>6, <2>3
    <3>. QED BY <1>8, <3>1 DEF Books, LocksHeld
  <2>. QED BY <2>1, <2>2, <2>3
<1>9. ASSUME NEW s \in Requests, NEW p \in posts'[s], p.outof \in Accounts
      PROVE  held'[s]["out"] = p.outof
  <2>1. CASE s # r
    BY <1>6, <1>9, <2>1 DEF Books, LocksHeld
  <2>2. CASE s = r /\ leg = "out"
    <3>1. posts[r] = {}
      BY <2>2 DEF IInv, PostsInOrder
    <3>. QED BY <1>4, <1>6, <1>9, <2>2, <3>1
  <2>3. CASE s = r /\ leg = "in"
    <3>1. p \in posts[r] /\ held'[r]["out"] = held[r]["out"]
      BY <1>2, <1>6, <1>9, <2>3 DEF Legs
    <3>. QED BY <1>9, <2>3, <3>1 DEF Books, LocksHeld
  <2>. QED BY <2>1, <2>2, <2>3 DEF Legs
<1>. QED BY <1>6, <1>8, <1>9 DEF LocksHeld

\* A posting is new, and what it debits is there.
LEMMA PostFunds ==
  ASSUME IInv, Books, NEW r \in Requests, NEW leg \in Legs,
         phase[r] = IF leg = "out" THEN "out_post" ELSE "in_post",
         Covered(r, leg), Done(r, leg) = {}, NEW new, new = Posting(r, leg), NEW a \in Accounts
  PROVE  Balance(a, posted \union posts[r] \union {new}) >= 0
<1>1. phase[r] \in InHand
  BY DEF InHand, Legs
<1>2. /\ new.leg = leg /\ new.key = Key[r] /\ new.amount \in Nat \ {0}
      /\ leg = "out" => new.outof = Source[r] /\ new.into \notin Accounts
      /\ leg = "in" => new.outof \notin Accounts
  BY <1>1, PostingSays
<1>3. PICK S : S = posted \union posts[r]
  OBVIOUS
<1>4. Priced(S)
  BY <1>3, FS_Union DEF Books, FundsInv, PostsSay, Priced
<1>5. Balance(a, S) >= 0
  BY <1>3 DEF Books, FundsInv
<1>6. new \notin S
  <2>1. new \notin posted
    BY <1>2 DEF Done
  <2>2. new \notin posts[r]
    BY <1>2 DEF IInv, PostsInOrder, HasLeg, Legs
  <2>. QED BY <1>3, <2>1, <2>2
<1>7. CASE new.outof = a
  <2>1. leg = "out" /\ a = Source[r] /\ new.into # a /\ new.amount = Amount[r]
    <3>1. leg = "out"
      BY <1>2, <1>7 DEF Legs
    <3>2. new.amount = Amount[r]
      BY <1>1, <3>1, PostingSays DEF Says
    <3>. QED BY <1>2, <1>7, <3>1, <3>2
  <2>2. Balance(a, S) >= Amount[r]
    BY <1>3, <2>1 DEF Covered
  <2>3. Balance(a, S \union {new}) = Balance(a, S) - new.amount /\ Balance(a, S) \in Int
    BY <1>2, <1>4, <1>6, <1>7, <2>1, OneDebit
  <2>4. Balance(a, S \union {new}) >= 0
    BY <1>2, <2>1, <2>2, <2>3
  <2>. QED BY <1>3, <2>4
<1>8. CASE new.outof # a
  <2>1. Priced({new})
    BY <1>2, FS_Singleton DEF Priced
  <2>2. Balance(a, S \union {new}) >= Balance(a, S)
    BY <1>4, <1>8, <2>1, MoreCredit
  <2>3. Balance(a, S) \in Int /\ Balance(a, S \union {new}) \in Int
    <3>1. Priced(S \union {new})
      BY <1>2, <1>4, TotalWith, <1>6
    <3>. QED BY <1>4, <3>1, BalanceType
  <2>4. Balance(a, S \union {new}) >= 0
    BY <1>5, <2>2, <2>3
  <2>. QED BY <1>3, <2>4
<1>. QED BY <1>7, <1>8

LEMMA PostBooks ==
  ASSUME IInv, Books, NEW r \in Requests, Post(r), ~Refuse(r)
  PROVE  Books'
<1>1. PICK leg \in Legs : leg = Leg(r)
  BY DEF Leg, Legs
<1>2. /\ phase[r] = IF leg = "out" THEN "out_post" ELSE "in_post"
      /\ Free(r, Debited(r, leg)) /\ Covered(r, leg) /\ Moves(r, After(leg))
      /\ held' = [held EXCEPT ![r][leg] = Debited(r, leg)]
      /\ posts' = [posts EXCEPT ![r] =
                     IF Done(r, leg) = {} THEN @ \union {Posting(r, leg)} ELSE @]
      /\ UNCHANGED <<quoted, positions, posted, conversions, deal>>
  BY <1>1 DEF Post, Leg, Legs, committed
<1>3. PICK new : new = Posting(r, leg)
  OBVIOUS
<1>4. /\ phase[r] \in InHand /\ phase'[r] \in InHand
      /\ \A s \in Requests \ {r} : phase'[s] = phase[s]
  BY <1>2 DEF Moves, After, InHand, IInv, OwnPosts, Legs
<1>5. /\ \A s \in Requests \ {r} : posts'[s] = posts[s]
      /\ posts'[r] = IF Done(r, leg) = {} THEN posts[r] \union {new} ELSE posts[r]
  BY <1>2, <1>3 DEF IInv, OwnPosts
<1>6. /\ new.leg = leg
      /\ Says(new, r, deal[r].target) /\ new.amount \in Nat \ {0}
      /\ leg = "out" => new.into \notin Accounts
      /\ leg = "in" => new.outof \notin Accounts
  BY <1>3, <1>4, PostingSays
<1>7. DealsInv'
  <2>1. ASSUME NEW s \in Requests, phase'[s] \in InHand
        PROVE  Agreed(s)'
    BY <1>2, <1>4, <2>1, AgreedStays DEF Books, DealsInv
  <2>. QED BY <1>2, <2>1 DEF Books, DealsInv
<1>8. PostsSay'
  <2>1. ASSUME NEW s \in Requests
        PROVE  /\ IsFiniteSet(posts'[s])
               /\ \A p \in posts'[s] :
                    /\ Says(p, s, deal'[s].target) /\ p.amount \in Nat \ {0}
                    /\ p.leg = "out" => p.into \notin Accounts
                    /\ p.leg = "in" => p.outof \notin Accounts
    <3>1. posts'[s] = posts[s] \/ (s = r /\ posts'[s] = posts[r] \union {new})
      BY <1>5
    <3>2. CASE posts'[s] = posts[s]
      BY <1>2, <3>2 DEF Books, PostsSay
    <3>3. CASE s = r /\ posts'[s] = posts[r] \union {new}
      <4>1. IsFiniteSet(posts[r] \union {new})
        BY FS_AddElement DEF Books, PostsSay
      <4>. QED BY <1>2, <1>6, <3>3, <4>1 DEF Books, PostsSay
    <3>. QED BY <3>1, <3>2, <3>3
  <2>. QED BY <2>1 DEF PostsSay, Says
<1>9. LocksHeld'
  <2>1. posts'[r] \subseteq posts[r] \union {new}
    BY <1>5
  <2>. QED BY <1>2, <1>3, <1>5, <2>1, PostLocks
<1>10. FundsInv'
  <2>1. ASSUME NEW s \in Requests, NEW a \in Accounts
        PROVE  Balance(a, posted \union posts'[s]) >= 0
    <3>1. CASE s # r \/ Done(r, leg) # {}
      <4>1. posts'[s] = posts[s]
        BY <1>5, <3>1
      <4>. QED BY <4>1 DEF Books, FundsInv
    <3>2. CASE s = r /\ Done(r, leg) = {}
      <4>1. posted \union posts'[s] = posted \union posts[r] \union {new}
        BY <1>5, <3>2
      <4>2. Balance(a, posted \union posts[r] \union {new}) >= 0
        BY <1>2, <1>3, <3>2, PostFunds
      <4>. QED BY <4>1, <4>2
    <3>. QED BY <3>1, <3>2
  <2>. QED BY <1>2, <2>1 DEF Books, FundsInv, SourcesCover, Balance
<1>11. RecordsInv'
  <2>1. phase[r] # "done"
    BY <1>4 DEF InHand
  <2>. QED BY <1>2, <1>4, <2>1 DEF Books, RecordsInv, Says
<1>. QED BY <1>7, <1>8, <1>9, <1>10, <1>11 DEF Books

\* What a request adds is covered by what nobody else can take: a commit leaves each
\* other request's sources covered.
LEMMA CommitFunds ==
  ASSUME IInv, Books, NEW r \in Requests, NEW s \in Requests \ {r}, NEW a \in Accounts
  PROVE  Balance(a, posted \union posts[r] \union posts[s]) >= 0
<1>1. \/ \A p \in posts[r] : p.outof # a
      \/ \A p \in posts[s] : p.outof # a
  <2>1. ASSUME NEW p \in posts[r], NEW q \in posts[s], p.outof = a, q.outof = a
        PROVE  FALSE
    <3>1. held[r]["out"] = a /\ held[s]["out"] = a
      BY <2>1 DEF Books, LocksHeld
    <3>. QED BY <3>1 DEF Books, LocksHeld, Legs
  <2>. QED BY <2>1
<1>2. ASSUME NEW q \in Requests, NEW t \in Requests, \A p \in posts[t] : p.outof # a
      PROVE  Balance(a, posted \union posts[q] \union posts[t]) >= 0
  <2>1. PICK S : S = posted \union posts[q]
    OBVIOUS
  <2>2. PICK T : T = posts[t]
    OBVIOUS
  <2>3. Priced(S) /\ Priced(T) /\ Priced(S \union T)
    BY <2>1, <2>2, FS_Union DEF Books, FundsInv, PostsSay, Priced
  <2>4. Balance(a, S \union T) >= Balance(a, S)
    BY <1>2, <2>2, <2>3, MoreCredit
  <2>5. Balance(a, S) >= 0
    BY <2>1 DEF Books, FundsInv
  <2>6. Balance(a, S) \in Int /\ Balance(a, S \union T) \in Int
    BY <2>3, BalanceType
  <2>7. Balance(a, S \union T) >= 0
    BY <2>4, <2>5, <2>6
  <2>. QED BY <2>1, <2>2, <2>7
<1>3. posted \union posts[r] \union posts[s] = posted \union posts[s] \union posts[r]
  OBVIOUS
<1>. QED BY <1>1, <1>2, <1>3

LEMMA CommitBooks ==
  ASSUME IInv, Books, NEW r \in Requests, Commit(r)
  PROVE  Books'
<1>1. /\ phase[r] = "booked" /\ phase'[r] = "done" /\ posts'[r] = {}
      /\ \A s \in Requests \ {r} :
           phase'[s] = phase[s] /\ posts'[s] = posts[s] /\ deal'[s] = deal[s]
      /\ DOMAIN deal' = Requests
      /\ posted' = posted \union posts[r] /\ UNCHANGED quoted
      /\ conversions' = conversions \union {Conversion(r)}
      /\ positions' \subseteq positions \union {deal[r].uses[l] : l \in Legs}
  BY DEF Commit, Uncommitted, Ends, Moves, IInv, OwnPosts, Books, DealsInv
<1>2. held' = [held EXCEPT ![r] = Unheld]
  BY DEF Commit, Ends
<1>3. Agreed(r)
  BY <1>1 DEF Books, DealsInv, InHand
<1>4. DealsInv'
  <2>1. ASSUME NEW s \in Requests, phase'[s] \in InHand
        PROVE  Agreed(s)'
    <3>1. s # r
      BY <1>1, <2>1 DEF InHand
    <3>. QED BY <1>1, <2>1, <3>1, AgreedStays DEF Books, DealsInv
  <2>2. positions' \subseteq Position
    BY <1>1, <1>3 DEF Agreed, Books, DealsInv
  <2>. QED BY <1>1, <2>1, <2>2 DEF Books, DealsInv
<1>5. PostsSay'
  <2>1. ASSUME NEW s \in Requests
        PROVE  /\ IsFiniteSet(posts'[s])
               /\ \A p \in posts'[s] :
                    /\ Says(p, s, deal'[s].target) /\ p.amount \in Nat \ {0}
                    /\ p.leg = "out" => p.into \notin Accounts
                    /\ p.leg = "in" => p.outof \notin Accounts
    BY <1>1, FS_EmptySet DEF Books, PostsSay
  <2>. QED BY <2>1 DEF PostsSay, Says
<1>6. LocksHeld'
  <2>1. posts'[r] = {} /\ \A s \in Requests \ {r} : posts'[s] = posts[s]
    BY <1>1
  <2>. QED BY <1>2, <2>1, EndFreesLocks
<1>7. FundsInv'
  <2>1. IsFiniteSet(posted') /\ \A p \in posted' : p.amount \in Nat \ {0}
    BY <1>1, FS_Union DEF Books, FundsInv, PostsSay
  <2>2. \A a \in Accounts : Balance(a, posted') >= 0
    BY <1>1 DEF Books, FundsInv
  <2>3. \A s \in Requests, a \in Accounts : Balance(a, posted' \union posts'[s]) >= 0
    <3>1. posted' \union {} = posted'
      OBVIOUS
    <3>. QED BY <1>1, <2>2, <3>1, CommitFunds
  <2>4. SourcesCover'
    BY <2>2 DEF SourcesCover, Balance
  <2>. QED BY <2>1, <2>3, <2>4 DEF FundsInv, Balance
<1>8. RecordsInv'
  <2>1. \A p \in posted : p.by \in Requests /\ p.by # r /\ phase'[p.by] = "done"
    BY <1>1 DEF Books, RecordsInv
  <2>2. \A p \in posts[r] : p.by = r /\ Says(p, r, deal[r].target)
    BY DEF IInv, OwnPosts, Books, PostsSay
  <2>3. \A p \in posted' : p.by \in Requests /\ phase'[p.by] = "done"
    BY <1>1, <2>1, <2>2
  <2>4. ASSUME NEW c \in conversions
        PROVE  /\ c.by \in Requests /\ phase'[c.by] = "done"
               /\ AtRate(c) /\ c.target > 0
               /\ \A p \in posted' : p.by = c.by => Says(p, c.by, c.target)
    <3>1. c.by # r
      BY <1>1, <2>4 DEF Books, RecordsInv
    <3>. QED BY <1>1, <2>2, <2>4, <3>1 DEF Books, RecordsInv
  <2>5. ASSUME NEW c, c = Conversion(r)
        PROVE  /\ c.by \in Requests /\ phase'[c.by] = "done"
               /\ AtRate(c) /\ c.target > 0
               /\ \A p \in posted' : p.by = c.by => Says(p, c.by, c.target)
    <3>1. c.by = r /\ c.rate = Stored(deal[r].rate) /\ c.target = deal[r].target
      BY <2>5 DEF Conversion
    <3>2. PICK rate : rate = deal[r].rate
      OBVIOUS
    <3>3. AtRate(c)
      BY <1>3, <3>1, <3>2 DEF Agreed, AtRate
    <3>. QED BY <1>1, <1>3, <2>1, <2>2, <3>1, <3>3 DEF Agreed
  <2>6. ASSUME NEW c \in conversions'
        PROVE  /\ c.by \in Requests /\ phase'[c.by] = "done"
               /\ AtRate(c) /\ c.target > 0
               /\ \A p \in posted' : p.by = c.by => Says(p, c.by, c.target)
    <3>1. CASE c \in conversions
      BY <2>4, <3>1
    <3>2. CASE c = Conversion(r)
      BY <2>5, <3>2
    <3>. QED BY <1>1, <3>1, <3>2
  <2>. QED BY <2>3, <2>6 DEF RecordsInv
<1>. QED BY <1>4, <1>5, <1>6, <1>7, <1>8 DEF Books

\* Every step keeps the books.
LEMMA NextBooks == IInv /\ Books /\ [Next]_vars => Books'
<1>. SUFFICES ASSUME IInv, Books, [Next]_vars PROVE Books'
  OBVIOUS
<1>1. ASSUME NEW r \in Requests, Begin(r) PROVE Books'
  BY <1>1, BeginBooks, RefuseBooks DEF Begin
<1>2. ASSUME NEW r \in Requests, Known(r) PROVE Books'
  BY <1>2, KnownBooks
<1>3. ASSUME NEW r \in Requests, Post(r) PROVE Books'
  BY <1>3, PostBooks, RefuseBooks DEF Post
<1>4. ASSUME NEW r \in Requests, Commit(r) PROVE Books'
  BY <1>4, CommitBooks
<1>5. ASSUME NEW r \in Requests, Crash(r) PROVE Books'
  BY <1>5, RefuseBooks DEF Crash
<1>6. CASE Quote \/ UNCHANGED vars
  <2>. UNCHANGED <<positions, posted, conversions, phase, deal, held, posts>>
    BY <1>6 DEF Quote, vars
  <2>1. DealsInv'
    <3>1. quoted' \in 0 .. Len(Quotations)
      <4>1. Len(Quotations) \in Nat
        BY ExchangeAssumption
      <4>. QED BY <1>6, <4>1 DEF Quote, vars, Books, DealsInv
    <3>2. \A r \in Requests : phase'[r] \in InHand => Agreed(r)'
      BY AgreedStays DEF Books, DealsInv
    <3>. QED BY <3>1, <3>2 DEF Books, DealsInv
  <2>2. PostsSay'
    BY DEF Books, PostsSay, Says
  <2>3. LocksHeld'
    BY DEF Books, LocksHeld
  <2>4. FundsInv'
    BY DEF Books, FundsInv, SourcesCover, Balance
  <2>5. RecordsInv'
    BY DEF Books, RecordsInv, Says
  <2>. QED BY <2>1, <2>2, <2>3, <2>4, <2>5 DEF Books
<1>. QED BY <1>1, <1>2, <1>3, <1>4, <1>5, <1>6 DEF Next

-----------------------------------------------------------------------------
(* The theorems *)

LEMMA Invariant == Spec => [](IInv /\ Books)
BY InitIInv, InitBooks, NextIInv, NextBooks, PTL DEF Spec

\* A key has both transactions of one request or none, whoever retries, meets or
\* crashes (ConvertirDevise.convertir in one session).
THEOREM ConversionsAreWhole == Spec => []BothLegs
BY Invariant, PTL DEF IInv

\* No conversion takes from a client what it does not have, however many of them and
\* of their retries draw on one account at once (ensure_sufficient).
THEOREM SourcesAreCovered == Spec => []SourcesCover
<1>1. Books => SourcesCover
  BY DEF Books, FundsInv
<1>. QED BY <1>1, Invariant, PTL

\* A history replayed with the rates that conversions recorded gives what they posted,
\* to half a minor unit and half the last place of the rate for each unit converted, at
\* whatever rate and between whatever currencies (Money.convertir).
THEOREM RemaindersAreSmall == Spec => []RemainderIsSmall
<1>1. Books => RemainderIsSmall
  <2>. SUFFICES ASSUME Books, NEW c \in conversions, NEW p \in posted, NEW q \in posted,
                       p.by = c.by, q.by = c.by, p.leg = "out", q.leg = "in"
                PROVE  LET to == Currency[q.into]
                           replayed == Scaled(c.rate, p.amount, Currency[p.outof], to)
                           gap == q.amount * replayed.den - replayed.num IN
                       /\ 2 * gap <= replayed.den + p.amount * Minor[to]
                       /\ 2 * gap >= -(replayed.den + p.amount * Minor[to])
    BY DEF RemainderIsSmall
  <2>1. /\ c.by \in Requests /\ AtRate(c)
        /\ p.amount = Amount[c.by] /\ p.outof = Source[c.by]
        /\ q.amount = c.target /\ q.into = Target[c.by]
    BY DEF Books, RecordsInv, Says
  <2>2. PICK from, to, a : from = From(c.by) /\ to = To(c.by) /\ a = Amount[c.by]
    OBVIOUS
  <2>3. /\ from = Currency[p.outof] /\ to = Currency[q.into] /\ p.amount = a
        /\ from \in Currencies /\ to \in Currencies /\ a \in Nat
        /\ Minor[from] \in Nat /\ Minor[to] \in Nat /\ Places \in Nat \ {0}
    BY <2>1, <2>2, ExchangeAssumption DEF From, To
  <2>4. PICK rate : GoodRate(rate) /\ c.rate = Stored(rate) /\ c.target = Convertir(rate, a, from, to)
    BY <2>1, <2>2 DEF AtRate
  <2>5. PICK kept : kept = Stored(rate)
    OBVIOUS
  <2>6. /\ kept.num \in Nat /\ kept.den = Places
        /\ 2 * (kept.num * rate.den - rate.num * Places) <= rate.den
        /\ 2 * (kept.num * rate.den - rate.num * Places) >= -rate.den
    BY <2>4, <2>5, StoredIsNear
  <2>7. /\ c.target \in Nat
        /\ 2 * (c.target * (rate.den * Minor[from]) - a * rate.num * Minor[to])
             <= rate.den * Minor[from]
        /\ 2 * (c.target * (rate.den * Minor[from]) - a * rate.num * Minor[to])
             >= -(rate.den * Minor[from])
    BY <2>3, <2>4, ConvertirIsNear DEF Scaled
  <2>8. rate.num \in Nat /\ rate.den \in Nat \ {0}
    BY <2>4 DEF GoodRate
  <2>9. /\ 2 * (c.target * (Places * Minor[from]) - a * kept.num * Minor[to])
             <= Places * Minor[from] + a * Minor[to]
        /\ 2 * (c.target * (Places * Minor[from]) - a * kept.num * Minor[to])
             >= -(Places * Minor[from] + a * Minor[to])
    BY ONLY <2>3, <2>6, <2>7, <2>8, RoundingsAddUp
  <2>10. Scaled(c.rate, p.amount, Currency[p.outof], Currency[q.into])
           = [num |-> a * kept.num * Minor[to], den |-> Places * Minor[from]]
    BY <2>3, <2>4, <2>5, <2>6 DEF Scaled
  <2>. QED BY <2>1, <2>3, <2>9, <2>10
<1>. QED BY <1>1, Invariant, PTL

\* Every variable stays in its domain.
THEOREM TypeCorrect == Spec => []TypeOK
<1>1. IInv /\ Books => TypeOK
  <2>. SUFFICES ASSUME IInv, Books PROVE TypeOK
    OBVIOUS
  <2>1. \A c \in conversions : c.target \in Nat \ {0}
    <3>. SUFFICES ASSUME NEW c \in conversions PROVE c.target \in Nat \ {0}
      OBVIOUS
    <3>1. AtRate(c) /\ c.target > 0 /\ c.by \in Requests
      BY DEF Books, RecordsInv
    <3>2. /\ Amount[c.by] \in Nat /\ From(c.by) \in Currencies /\ To(c.by) \in Currencies
      BY <3>1, ExchangeAssumption DEF From, To
    <3>3. c.target \in Nat
      BY <3>1, <3>2, ConvertirIsNear DEF AtRate
    <3>. QED BY <3>1, <3>3
  <2>. QED BY <2>1 DEF IInv, OwnPosts, Books, DealsInv, FundsInv, TypeOK
<1>. QED BY <1>1, Invariant, PTL
=============================================================================
