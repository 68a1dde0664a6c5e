----------------------------- MODULE FundProofs -----------------------------
(***************************************************************************)
(* Proofs about Fund for any number of campaigns, investments, payments,   *)
(* loans and requests at once.  The proof about campaigns is the row lock: *)
(* what a request read while it holds it is still what the row says when   *)
(* it writes.  The proof about loans is that an instalment is never paid   *)
(* above what is due, so that all of it is paid exactly when each is.      *)
(***************************************************************************)
EXTENDS Fund, SumLemmas, WellFoundedInduction

-----------------------------------------------------------------------------
(* Campaigns and their investments *)

CampaignTypes ==
  /\ campaign \in [Campaigns -> CampaignRow]
  /\ invested \in [Investments -> Nat]
  /\ posted \subseteq WalletKeys \union RepayKeys
  /\ debited \in [WalletKeys \union RepayKeys -> Nat]
  /\ order \in [OrderKeys -> OrderStatuses]
  /\ inbox \subseteq Deliveries /\ dead \subseteq Deliveries
  /\ reading \in [WalletKeys \union Deliveries -> Nat \union {Nowhere}]
  /\ call \in [OrderKeys -> [Calls -> CallState]]
  /\ booked \subseteq collected /\ collected \subseteq asked /\ asked \subseteq OrderKeys

\* Who holds a campaign's lock holds it alone, and read what the row still says.
LockHeld == \A x \in WalletKeys \union Deliveries : reading[x] # Nowhere =>
  /\ reading[x] = campaign[Target(x)].raised
  /\ \A y \in WalletKeys \union Deliveries :
       reading[y] # Nowhere /\ Target(y) = Target(x) => y = x

\* Where the money of an investment is: in the ledger, or in a counted order.  A key
\* that is used for nothing else is in the ledger for the money of its investment.
Funded ==
  /\ \A w \in WalletKeys : invested[w] > 0 => invested[w] = 1 /\ w \in posted
  /\ \A w \in WalletKeys \ Shared : debited[w] = IF w \in posted THEN Size[w] ELSE 0
  /\ \A o \in OrderKeys : invested[o] > 0 =>
       invested[o] = 1 /\ order[o] = "succeeded" /\ o \in collected
  /\ \A o \in OrderKeys, n \in News : reading[<<o, n>>] # Nowhere =>
       order[o] = "open" /\ o \in booked

CampaignInv == CampaignTypes /\ LockHeld /\ RaisedIsInvested /\ Funded

LEMMA TargetOf ==
  /\ \A w \in WalletKeys : Target(w) = Into[w]
  /\ \A o \in OrderKeys, n \in News :
       <<o, n>> \in Deliveries /\ <<o, n>> \notin WalletKeys /\ Target(<<o, n>>) = Into[o]
BY FundAssumption DEF Target, Deliveries

LEMMA InvestedInType ==
  ASSUME invested \in [Investments -> Nat], NEW c \in Campaigns
  PROVE  InvestedIn(c) \in Nat
<1>. DEFINE S == {k \in Investments : Into[k] = c}
            amount == [k \in Investments |-> invested[k] * Size[k]]
<1>1. IsFiniteSet(S)
  BY FundAssumption, FS_Subset
<1>2. \A k \in Investments : invested[k] \in Nat /\ Size[k] \in Nat
  BY FundAssumption
<1>3. \A k \in S : amount[k] \in Nat
  BY <1>2
<1>. HIDE DEF S, amount
<1>4. SumOf(S, amount) \in Nat
  BY <1>1, <1>3, SumType
<1>. QED BY <1>4 DEF InvestedIn, S, amount

\* One investment more is its size more for its campaign, and for no other.
LEMMA InvestedInGrows ==
  ASSUME invested \in [Investments -> Nat], NEW k \in Investments,
         invested' = [invested EXCEPT ![k] = @ + 1], NEW c \in Campaigns
  PROVE  InvestedIn(c)' = InvestedIn(c) + IF c = Into[k] THEN Size[k] ELSE 0
<1>. DEFINE S == {j \in Investments : Into[j] = c}
            before == [j \in Investments |-> invested[j] * Size[j]]
            after == [j \in Investments |-> invested'[j] * Size[j]]
<1>1. IsFiniteSet(S)
  BY FundAssumption, FS_Subset
<1>2. \A j \in Investments : invested[j] \in Nat /\ invested'[j] \in Nat /\ Size[j] \in Nat
  <2>1. Size \in [Investments -> Nat \ {0}]
    BY FundAssumption
  <2>2. invested' \in [Investments -> Nat]
    OBVIOUS
  <2>. QED BY <2>1, <2>2
<1>3. \A j \in Investments : before[j] \in Nat /\ after[j] \in Nat
  BY <1>2
<1>4. \A j \in Investments \ {k} : after[j] = before[j]
  OBVIOUS
<1>5. after[k] = before[k] + Size[k]
  <2>1. \A a, b \in Nat : (a + 1) * b = a * b + b
    OBVIOUS
  <2>2. after[k] = (invested[k] + 1) * Size[k] /\ before[k] = invested[k] * Size[k]
    OBVIOUS
  <2>. QED BY <1>2, <2>1, <2>2
<1>6. Size[k] \in Nat /\ (k \in S <=> c = Into[k]) /\ S \subseteq Investments
  BY <1>2
<1>. HIDE DEF before, after, S
<1>7. SumOf(S, before) \in Nat
  BY <1>1, <1>3, <1>6, SumType
<1>8. CASE c = Into[k]
  <2>1. SumOf(S, after) = SumOf(S, before) - before[k] + after[k]
    BY <1>1, <1>3, <1>4, <1>6, <1>8, SumOfChanged
  <2>. QED BY <1>3, <1>5, <1>6, <1>7, <1>8, <2>1 DEF InvestedIn, S, before, after
<1>9. CASE c # Into[k]
  <2>1. SumOf(S, after) = SumOf(S, before)
    BY <1>4, <1>6, <1>9, SumOfSame
  <2>. QED BY <1>7, <1>9, <2>1 DEF InvestedIn, S, before, after
<1>. QED BY <1>8, <1>9

LEMMA CampaignInit == Init => CampaignInv
<1>. SUFFICES ASSUME Init PROVE CampaignInv
  OBVIOUS
<1>. USE FundAssumption
<1>1. CampaignTypes
  BY DEF Init, CampaignTypes, Orchestrator!Init, CampaignRow, OrderStatuses, CallState, Nowhere
<1>2. LockHeld /\ Funded
  BY DEF Init, LockHeld, Funded, Deliveries, Investments
<1>3. ASSUME NEW c \in Campaigns PROVE campaign[c].raised = InvestedIn(c)
  <2>. DEFINE S == {k \in Investments : Into[k] = c}
              amount == [k \in Investments |-> invested[k] * Size[k]]
  <2>1. IsFiniteSet(S)
    BY FS_Subset
  <2>2. \A k \in S : amount[k] = 0
    BY DEF Init
  <2>. HIDE DEF S, amount
  <2>3. SumOf(S, amount) = Cardinality(S) * 0 /\ Cardinality(S) \in Nat
    BY <2>1, <2>2, SumOfEqual, FS_CardinalityType
  <2>. QED BY <2>3 DEF Init, InvestedIn, S, amount
<1>. QED BY <1>1, <1>2, <1>3 DEF CampaignInv, RaisedIsInvested

-----------------------------------------------------------------------------
\* A step that leaves campaigns' amounts, investments and locks alone.
LEMMA BooksKept ==
  ASSUME CampaignInv, CampaignTypes', UNCHANGED <<invested, reading>>,
         \A c \in Campaigns : campaign'[c].raised = campaign[c].raised
  PROVE  LockHeld' /\ RaisedIsInvested'
<1>1. \A c \in Campaigns : InvestedIn(c)' = InvestedIn(c)
  BY DEF InvestedIn
<1>2. \A x \in WalletKeys \union Deliveries : Target(x) \in Campaigns
  BY FundAssumption DEF Target, Deliveries, Investments
<1>3. LockHeld'
  BY <1>2 DEF CampaignInv, LockHeld, CampaignTypes
<1>. QED BY <1>1, <1>3 DEF CampaignInv, RaisedIsInvested

\* A request takes the lock of its campaign, which nobody holds.
LEMMA LockTaken ==
  ASSUME CampaignInv, NEW x \in WalletKeys \union Deliveries, Free(Target(x)),
         UNCHANGED <<campaign, invested>>,
         reading' = [reading EXCEPT ![x] = campaign[Target(x)].raised]
  PROVE  LockHeld' /\ RaisedIsInvested'
<1>1. \A c \in Campaigns : InvestedIn(c)' = InvestedIn(c)
  BY DEF InvestedIn
<1>2. DOMAIN reading = WalletKeys \union Deliveries
  BY DEF CampaignInv, CampaignTypes
<1>3. \A y \in WalletKeys \union Deliveries : Target(y) = Target(x) => reading[y] = Nowhere
  BY <1>2 DEF Free
<1>4. LockHeld'
  BY <1>2, <1>3 DEF CampaignInv, LockHeld
<1>. QED BY <1>1, <1>4 DEF CampaignInv, RaisedIsInvested

\* A request gives the lock back and writes nothing.
LEMMA LockGivenBack ==
  ASSUME CampaignInv, NEW x \in WalletKeys \union Deliveries,
         UNCHANGED <<campaign, invested>>, reading' = [reading EXCEPT ![x] = Nowhere]
  PROVE  LockHeld' /\ RaisedIsInvested'
<1>1. \A c \in Campaigns : InvestedIn(c)' = InvestedIn(c)
  BY DEF InvestedIn
<1>2. LockHeld'
  BY DEF CampaignInv, CampaignTypes, LockHeld
<1>. QED BY <1>1, <1>2 DEF CampaignInv, RaisedIsInvested

\* A request writes what it read and the investment, and gives the lock back.
LEMMA LockedWrite ==
  ASSUME CampaignInv, NEW x \in WalletKeys \union Deliveries, NEW k \in Investments,
         Target(x) = Into[k], reading[x] # Nowhere, Invests(x, k),
         reading' = [reading EXCEPT ![x] = Nowhere]
  PROVE  LockHeld' /\ RaisedIsInvested'
<1>1. Into[k] \in Campaigns /\ Size[k] \in Nat
  BY FundAssumption
<1>2. reading[x] = campaign[Into[k]].raised
  BY DEF CampaignInv, LockHeld
<1>3. \A c \in Campaigns : InvestedIn(c) \in Nat /\
        InvestedIn(c)' = InvestedIn(c) + IF c = Into[k] THEN Size[k] ELSE 0
  BY InvestedInType, InvestedInGrows DEF CampaignInv, CampaignTypes, Invests
<1>4. \A c \in Campaigns :
        campaign'[c].raised = campaign[c].raised + IF c = Into[k] THEN Size[k] ELSE 0
  BY <1>1, <1>2 DEF CampaignInv, CampaignTypes, CampaignRow, Invests
<1>5. RaisedIsInvested'
  BY <1>3, <1>4 DEF CampaignInv, RaisedIsInvested
<1>6. \A y \in WalletKeys \union Deliveries :
        reading'[y] # Nowhere => reading[y] # Nowhere /\ y # x /\ reading'[y] = reading[y]
  BY DEF CampaignInv, CampaignTypes
<1>7. \A y \in WalletKeys \union Deliveries : reading'[y] # Nowhere => Target(y) # Into[k]
  BY <1>6 DEF CampaignInv, LockHeld
<1>8. \A y \in WalletKeys \union Deliveries : Target(y) \in Campaigns
  BY FundAssumption DEF Target, Deliveries, Investments
<1>9. \A y \in WalletKeys \union Deliveries :
        reading'[y] # Nowhere => reading[y] = campaign'[Target(y)].raised
  <2>1. \A c \in Campaigns : c # Into[k] => campaign'[c] = campaign[c]
    BY DEF CampaignInv, CampaignTypes, Invests
  <2>. QED BY <1>6, <1>7, <1>8, <2>1 DEF CampaignInv, LockHeld
<1>10. LockHeld'
  BY <1>6, <1>9 DEF CampaignInv, LockHeld
<1>. QED BY <1>5, <1>10

-----------------------------------------------------------------------------
(* One step per action *)

\* What the other parts of a step leave alone of investments and their money.
LEMMA FundedKept ==
  ASSUME CampaignInv, CampaignTypes', UNCHANGED <<invested, reading>>,
         posted \subseteq posted', booked \subseteq booked', collected \subseteq collected',
         \A w \in WalletKeys \ Shared :
           debited'[w] = debited[w] /\ (w \in posted' <=> w \in posted),
         \A o \in OrderKeys : order'[o] = order[o] \/ order[o] = Absent
  PROVE  Funded'
<1>1. \A w \in WalletKeys : invested'[w] > 0 => invested'[w] = 1 /\ w \in posted'
  BY DEF CampaignInv, Funded
<1>2. \A w \in WalletKeys \ Shared : debited'[w] = IF w \in posted' THEN Size[w] ELSE 0
  BY DEF CampaignInv, Funded
<1>3. \A o \in OrderKeys : invested'[o] > 0 =>
        invested'[o] = 1 /\ order'[o] = "succeeded" /\ o \in collected'
  BY DEF CampaignInv, Funded, Absent
<1>4. \A o \in OrderKeys, n \in News : reading'[<<o, n>>] # Nowhere =>
        order'[o] = "open" /\ o \in booked'
  BY DEF CampaignInv, Funded, Absent
<1>. QED BY <1>1, <1>2, <1>3, <1>4 DEF Funded

LEMMA CampaignRows ==
  ASSUME CampaignInv, UNCHANGED <<invested, reading, ledger, orderVars, payments>>,
         NEW c \in Campaigns, NEW s \in {"draft", "active", "closed"},
         campaign' = [campaign EXCEPT ![c].status = s]
  PROVE  CampaignInv'
<1>1. campaign' \in [Campaigns -> CampaignRow]
  BY DEF CampaignInv, CampaignTypes, CampaignRow
<1>2. CampaignTypes'
  BY <1>1 DEF CampaignInv, CampaignTypes, ledger, orderVars, payments
<1>3. \A d \in Campaigns : campaign'[d].raised = campaign[d].raised
  BY DEF CampaignInv, CampaignTypes, CampaignRow
<1>4. LockHeld' /\ RaisedIsInvested'
  BY <1>2, <1>3, BooksKept
<1>5. Funded'
  BY <1>2, FundedKept DEF ledger, orderVars, payments
<1>. QED BY <1>2, <1>4, <1>5 DEF CampaignInv

\* A wallet request moves no callback's lock.
LEMMA OwnLockOnly ==
  ASSUME CampaignInv, NEW w \in WalletKeys, NEW v, reading' = [reading EXCEPT ![w] = v]
  PROVE  \A o \in OrderKeys, n \in News : reading'[<<o, n>>] = reading[<<o, n>>]
<1>1. DOMAIN reading = WalletKeys \union Deliveries
  BY DEF CampaignInv, CampaignTypes
<1>2. \A o \in OrderKeys, n \in News : <<o, n>> \in DOMAIN reading /\ <<o, n>> # w
  BY <1>1, TargetOf
<1>3. \A x \in DOMAIN reading \ {w} : reading'[x] = reading[x]
  OBVIOUS
<1>. QED BY <1>2, <1>3

LEMMA WalletStep ==
  ASSUME CampaignInv, NEW w \in WalletKeys,
         InvestBegin(w) \/ InvestEnd(w) \/ InvestRolledBack(w)
  PROVE  CampaignInv'
<1>. USE DEF orderVars, payments, ledger
<1>0. w \in WalletKeys \union Deliveries /\ w \in Investments /\ Target(w) = Into[w]
      /\ Into[w] \in Campaigns /\ Size[w] \in Nat
  BY FundAssumption, TargetOf DEF Investments
<1>1. CASE InvestBegin(w)
  <2>. USE <1>1 DEF InvestBegin
  <2>1. campaign[Into[w]].raised \in Nat
    BY <1>0 DEF CampaignInv, CampaignTypes, CampaignRow
  <2>2. CampaignTypes'
    BY <1>0, <2>1 DEF CampaignInv, CampaignTypes
  <2>3. LockHeld' /\ RaisedIsInvested'
    BY <1>0, LockTaken
  <2>4. \A o \in OrderKeys, n \in News : reading'[<<o, n>>] = reading[<<o, n>>]
    BY OwnLockOnly
  <2>5. Funded'
    BY <2>4 DEF CampaignInv, Funded
  <2>. QED BY <2>2, <2>3, <2>5 DEF CampaignInv
<1>2. CASE InvestRolledBack(w)
  <2>. USE <1>2 DEF InvestRolledBack
  <2>2. CampaignTypes'
    BY <1>0 DEF CampaignInv, CampaignTypes
  <2>3. LockHeld' /\ RaisedIsInvested'
    BY <1>0, LockGivenBack
  <2>4. \A o \in OrderKeys, n \in News : reading'[<<o, n>>] = reading[<<o, n>>]
    BY OwnLockOnly
  <2>5. Funded'
    BY <2>4 DEF CampaignInv, Funded
  <2>. QED BY <2>2, <2>3, <2>5 DEF CampaignInv
<1>3. CASE InvestEnd(w)
  <2>. USE <1>3 DEF InvestEnd, Debit, Debited
  <2>1. \A o \in OrderKeys, n \in News : reading'[<<o, n>>] = reading[<<o, n>>]
    BY OwnLockOnly
  <2>2. posted' = posted \union {w}
    OBVIOUS
  <2>3. reading' \in [WalletKeys \union Deliveries -> Nat \union {Nowhere}]
    BY <1>0 DEF CampaignInv, CampaignTypes
  <2>6. /\ debited' \in [WalletKeys \union RepayKeys -> Nat]
        /\ \A v \in WalletKeys \ Shared : debited'[v] = IF v \in posted' THEN Size[v] ELSE 0
    <3>1. debited[w] + Debited(w, Size[w]) \in Nat
      BY <1>0 DEF CampaignInv, CampaignTypes
    <3>2. debited' \in [WalletKeys \union RepayKeys -> Nat]
      BY <1>0, <3>1 DEF CampaignInv, CampaignTypes
    <3>3. w \notin Shared => debited'[w] = Size[w]
      BY <1>0 DEF CampaignInv, CampaignTypes, Funded
    <3>4. \A v \in WalletKeys \ {w} : debited'[v] = debited[v] /\ (v \in posted' <=> v \in posted)
      BY <2>2 DEF CampaignInv, CampaignTypes
    <3>. QED BY <2>2, <3>2, <3>3, <3>4 DEF CampaignInv, Funded
  <2>4. CASE Replayed(w)
    <3>1. CampaignTypes'
      BY <1>0, <2>3, <2>4, <2>6 DEF CampaignInv, CampaignTypes
    <3>2. LockHeld' /\ RaisedIsInvested'
      BY <1>0, <2>4, LockGivenBack
    <3>3. Funded'
      BY <2>1, <2>4, <2>6 DEF CampaignInv, Funded
    <3>. QED BY <3>1, <3>2, <3>3 DEF CampaignInv
  <2>5. CASE ~Replayed(w)
    <3>1. Invests(w, w)
      BY <2>5
    <3>2. reading[w] \in Nat /\ reading[w] + Size[w] \in Nat
      BY <1>0 DEF CampaignInv, CampaignTypes
    <3>3. campaign' \in [Campaigns -> CampaignRow] /\ invested' \in [Investments -> Nat]
      BY <1>0, <3>1, <3>2 DEF CampaignInv, CampaignTypes, CampaignRow, Invests
    <3>4. CampaignTypes'
      BY <1>0, <2>2, <2>3, <2>6, <3>3 DEF CampaignInv, CampaignTypes
    <3>5. LockHeld' /\ RaisedIsInvested'
      BY <1>0, <3>1, LockedWrite
    <3>6. invested[w] = 0
      BY <1>0, <2>5 DEF Replayed, CampaignInv, CampaignTypes, Funded
    <3>7. \A k \in Investments : invested'[k] = IF k = w THEN 1 ELSE invested[k]
      BY <1>0, <3>1, <3>6 DEF Invests, CampaignInv, CampaignTypes
    <3>8. WalletKeys \subseteq Investments /\ OrderKeys \subseteq Investments \ {w}
      BY FundAssumption DEF Investments
    <3>9. Funded'
      BY <1>0, <2>1, <2>2, <2>6, <3>7, <3>8 DEF CampaignInv, Funded
    <3>. QED BY <3>4, <3>5, <3>9 DEF CampaignInv
  <2>. QED BY <2>4, <2>5
<1>. QED BY <1>1, <1>2, <1>3

LEMMA StartStep ==
  ASSUME CampaignInv, NEW o \in OrderKeys, NEW k \in Calls,
         StartRead(o, k) \/ StartCollect(o, k) \/ StartCommit(o, k) \/ StartLost(o, k)
  PROVE  CampaignInv'
<1>. USE DEF campaignVars, payments, ledger
<1>1. UNCHANGED <<campaign, invested, reading, posted, debited, inbox, dead, payments>> /\ asked \subseteq asked'
      /\ asked' \subseteq OrderKeys
  BY DEF StartRead, StartCollect, StartCommit, StartLost, CampaignInv, CampaignTypes
<1>2. order' \in [OrderKeys -> OrderStatuses] /\
      \A p \in OrderKeys : order'[p] = order[p] \/ order[p] = Absent
  <2>1. CASE StartCommit(o, k)
    BY <2>1 DEF StartCommit, CampaignInv, CampaignTypes, CallState
  <2>. QED BY <2>1 DEF StartRead, StartCollect, StartLost, CampaignInv, CampaignTypes
<1>3. call' \in [OrderKeys -> [Calls -> CallState]]
  <2>1. \A at \in {"admitted", "collected", "ended"}, seen \in OrderStatuses :
          Goes(o, k, at, seen) => call' \in [OrderKeys -> [Calls -> CallState]]
    BY DEF Goes, CampaignInv, CampaignTypes, CallState
  <2>2. Absent \in OrderStatuses /\ PaymentStatus(o) \in OrderStatuses
    BY DEF OrderStatuses, PaymentStatus
  <2>. QED BY <2>1, <2>2 DEF StartRead, StartCollect, StartCommit, StartLost
<1>4. CampaignTypes'
  BY <1>1, <1>2, <1>3 DEF CampaignInv, CampaignTypes
<1>5. LockHeld' /\ RaisedIsInvested'
  BY <1>1, <1>4, BooksKept
<1>6. Funded'
  BY <1>1, <1>2, <1>4, FundedKept
<1>. QED BY <1>4, <1>5, <1>6 DEF CampaignInv

LEMMA PaymentStep ==
  ASSUME CampaignInv, NEW o \in OrderKeys, PaymentMoves(o)
  PROVE  CampaignInv'
<1>. USE DEF PaymentMoves, campaignVars, orderVars, ledger
<1>1. /\ booked' \subseteq collected' /\ collected' \subseteq asked
      /\ booked \subseteq booked' /\ collected \subseteq collected'
  BY DEF Orchestrator!Collect, Orchestrator!Book, CampaignInv, CampaignTypes
<1>2. CampaignTypes'
  BY <1>1 DEF CampaignInv, CampaignTypes
<1>3. LockHeld' /\ RaisedIsInvested'
  BY <1>2, BooksKept
<1>4. Funded'
  BY <1>1, <1>2, FundedKept
<1>. QED BY <1>2, <1>3, <1>4 DEF CampaignInv

LEMMA ReceiveStep ==
  ASSUME CampaignInv, NEW o \in OrderKeys, NEW n \in News,
         \/ ReceiveAgain(o, n) \/ Receive(o, n) \/ Apply(o, n) \/ ReceiveRolledBack(o, n)
         \/ GiveUp(o, n) \/ RetryCallback(o, n)
  PROVE  CampaignInv'
<1>. USE DEF payments, ledger
<1>0. /\ <<o, n>> \in WalletKeys \union Deliveries /\ <<o, n>> \in Deliveries
      /\ o \in Investments /\ Target(<<o, n>>) = Into[o]
      /\ Into[o] \in Campaigns /\ Size[o] \in Nat
  BY FundAssumption, TargetOf DEF Investments
<1>1. CASE ReceiveAgain(o, n)
  <2>. USE <1>1 DEF ReceiveAgain, campaignVars
  <2>1. CampaignTypes'
    BY <1>0 DEF CampaignInv, CampaignTypes
  <2>2. LockHeld' /\ RaisedIsInvested'
    BY <2>1, BooksKept
  <2>3. Funded'
    BY <2>1, FundedKept
  <2>. QED BY <2>1, <2>2, <2>3 DEF CampaignInv
<1>2. CASE Receive(o, n)
  <2>. USE <1>2 DEF Receive, Receivable, MayReceive, orderVars
  <2>1. campaign[Into[o]].raised \in Nat
    BY <1>0 DEF CampaignInv, CampaignTypes, CampaignRow
  <2>2. CampaignTypes'
    BY <1>0, <2>1 DEF CampaignInv, CampaignTypes
  <2>3. LockHeld' /\ RaisedIsInvested'
    BY <1>0, LockTaken
  <2>4. order[o] = "open" /\ o \in booked
    BY DEF Counted, CampaignInv, CampaignTypes, OrderStatuses
  <2>5. \A p \in OrderKeys, m \in News :
          reading'[<<p, m>>] # Nowhere => p = o \/ reading[<<p, m>>] # Nowhere
    BY <1>0, TargetOf DEF CampaignInv, CampaignTypes
  <2>6. Funded'
    BY <2>4, <2>5 DEF CampaignInv, Funded
  <2>. QED BY <2>2, <2>3, <2>6 DEF CampaignInv
<1>3. CASE Apply(o, n)
  <2>. USE <1>3 DEF Apply
  <2>1. reading[<<o, n>>] \in Nat /\ reading[<<o, n>>] + Size[o] \in Nat
    BY <1>0 DEF CampaignInv, CampaignTypes
  <2>2. campaign' \in [Campaigns -> CampaignRow] /\ invested' \in [Investments -> Nat]
    <3>1. Invests(<<o, n>>, o) /\ CampaignTypes
      BY DEF CampaignInv
    <3>. QED BY ONLY <1>0, <2>1, <3>1 DEF CampaignTypes, CampaignRow, Invests
  <2>3. /\ reading' \in [WalletKeys \union Deliveries -> Nat \union {Nowhere}]
        /\ order' \in [OrderKeys -> OrderStatuses]
    BY <1>0 DEF CampaignInv, CampaignTypes, OrderStatuses
  <2>4. CampaignTypes'
    BY <1>0, <2>2, <2>3 DEF CampaignInv, CampaignTypes
  <2>5. LockHeld' /\ RaisedIsInvested'
    BY <1>0, LockedWrite
  <2>6. order[o] = "open" /\ o \in booked /\ o \in collected
    BY DEF CampaignInv, CampaignTypes, Funded
  <2>7. invested[o] = 0
    BY <1>0, <2>6 DEF CampaignInv, CampaignTypes, Funded
  <2>8. \A k \in Investments : invested'[k] = IF k = o THEN 1 ELSE invested[k]
    BY <1>0, <2>7 DEF Invests, CampaignInv, CampaignTypes
  <2>9. \A p \in OrderKeys : order'[p] = IF p = o THEN "succeeded" ELSE order[p]
    BY DEF CampaignInv, CampaignTypes
  <2>10. \A m \in News : reading'[<<o, m>>] = Nowhere
    BY <1>0, TargetOf DEF CampaignInv, CampaignTypes, LockHeld
  <2>11. \A p \in OrderKeys \ {o}, m \in News : reading'[<<p, m>>] = reading[<<p, m>>]
    BY TargetOf DEF CampaignInv, CampaignTypes
  <2>12. WalletKeys \subseteq Investments \ {o} /\ OrderKeys \subseteq Investments
    BY FundAssumption DEF Investments
  <2>13. Funded'
    BY <2>6, <2>8, <2>9, <2>10, <2>11, <2>12 DEF CampaignInv, Funded
  <2>. QED BY <2>4, <2>5, <2>13 DEF CampaignInv
<1>4. CASE ReceiveRolledBack(o, n)
  <2>. USE <1>4 DEF ReceiveRolledBack, orderVars
  <2>1. CampaignTypes'
    BY <1>0 DEF CampaignInv, CampaignTypes
  <2>2. LockHeld' /\ RaisedIsInvested'
    BY <1>0, LockGivenBack
  <2>3. \A p \in OrderKeys, m \in News : reading'[<<p, m>>] # Nowhere => reading[<<p, m>>] # Nowhere
    BY <1>0, TargetOf DEF CampaignInv, CampaignTypes
  <2>4. Funded'
    BY <2>3 DEF CampaignInv, Funded
  <2>. QED BY <2>1, <2>2, <2>4 DEF CampaignInv
<1>5. CASE GiveUp(o, n) \/ RetryCallback(o, n)
  <2>. USE <1>5 DEF GiveUp, RetryCallback, campaignVars
  <2>1. CampaignTypes'
    BY <1>0 DEF CampaignInv, CampaignTypes
  <2>2. LockHeld' /\ RaisedIsInvested'
    BY <2>1, BooksKept
  <2>3. Funded'
    BY <2>1, FundedKept
  <2>. QED BY <2>1, <2>2, <2>3 DEF CampaignInv
<1>. QED BY <1>1, <1>2, <1>3, <1>4, <1>5

\* Loans and others who use the wallet share the ledger and the campaigns' pools with
\* investments, and no more.
LEMMA LoanLeavesCampaigns ==
  ASSUME CampaignInv, UNCHANGED <<campaign, invested, reading, orderVars, payments>>,
         posted \subseteq posted', posted' \subseteq WalletKeys \union RepayKeys,
         debited' \in [WalletKeys \union RepayKeys -> Nat],
         \A w \in WalletKeys \ Shared :
           debited'[w] = debited[w] /\ (w \in posted' <=> w \in posted)
  PROVE  CampaignInv'
<1>. USE DEF orderVars, payments
<1>1. CampaignTypes'
  BY DEF CampaignInv, CampaignTypes
<1>2. LockHeld' /\ RaisedIsInvested'
  BY <1>1, BooksKept
<1>3. Funded'
  BY <1>1, FundedKept
<1>. QED BY <1>1, <1>2, <1>3 DEF CampaignInv

LEMMA CampaignStep == CampaignInv /\ [Next]_vars => CampaignInv'
<1>. SUFFICES ASSUME CampaignInv, [Next]_vars PROVE CampaignInv'
  OBVIOUS
<1>1. ASSUME NEW c \in Campaigns, CreateCampaign(c) \/ BackOfficeMoves(c)
      PROVE  CampaignInv'
  <2>1. UNCHANGED <<invested, reading, ledger, orderVars, payments>>
    BY <1>1 DEF CreateCampaign, BackOfficeMoves
  <2>2. \E s \in {"draft", "active", "closed"} : campaign' = [campaign EXCEPT ![c].status = s]
    BY <1>1 DEF CreateCampaign, BackOfficeMoves
  <2>. QED BY <2>1, <2>2, CampaignRows
<1>2. ASSUME NEW l \in Loans, RequestLoan(l) \/ Disburse(l)
      PROVE  CampaignInv'
  <2>1. UNCHANGED <<campaign, invested, reading, ledger, orderVars, payments>>
    BY <1>2 DEF RequestLoan, Disburse, campaignVars
  <2>. QED BY <2>1, LoanLeavesCampaigns DEF CampaignInv, CampaignTypes, ledger
<1>3. ASSUME NEW r \in RepayKeys, NEW a \in 1 .. MaxRepayment, Repay(RepaymentOf[r], r, a)
      PROVE  CampaignInv'
  <2>1. UNCHANGED <<campaign, invested, reading, orderVars, payments>> /\ posted' = posted \union {r}
    BY <1>3 DEF Repay, Debit
  <2>2. debited' = [debited EXCEPT ![r] = @ + Debited(r, a)] /\ Debited(r, a) \in Nat
    BY <1>3 DEF Repay, Debit, Debited
  <2>3. r \notin WalletKeys
    BY FundAssumption
  <2>4. /\ debited' \in [WalletKeys \union RepayKeys -> Nat]
        /\ \A w \in WalletKeys : debited'[w] = debited[w]
    BY <2>2, <2>3 DEF CampaignInv, CampaignTypes
  <2>. QED BY <2>1, <2>3, <2>4, LoanLeavesCampaigns DEF CampaignInv, CampaignTypes
<1>4. CASE UNCHANGED vars
  BY <1>4, LoanLeavesCampaigns DEF vars, campaignVars, CampaignInv, CampaignTypes, ledger
<1>5. ASSUME NEW k \in Shared, OthersPost(k)
      PROVE  CampaignInv'
  <2>1. /\ UNCHANGED <<campaign, invested, reading, debited, orderVars, payments>>
        /\ posted' = posted \union {k}
    BY <1>5 DEF OthersPost, campaignVars
  <2>. QED BY <2>1, FundAssumption, LoanLeavesCampaigns DEF CampaignInv, CampaignTypes
<1>. QED BY <1>1, <1>2, <1>3, <1>4, <1>5, WalletStep, StartStep, PaymentStep, ReceiveStep DEF Next

LEMMA CampaignsHold == Spec => []CampaignInv
BY CampaignInit, CampaignStep, PTL DEF Spec

\* A campaign's raised amount is the sum of its investments, for any number of
\* wallet requests, callbacks and repeated events that add to it at once.
THEOREM RaisedInvested == Spec => []RaisedIsInvested
BY CampaignsHold, PTL DEF CampaignInv

\* Behind every investment is a collected payment of its own, or what the wallet took
\* for it from an investor who used its key for nothing else; none was made twice.
THEOREM InvestedFunded == Spec => []InvestedIsFunded
<1>1. CampaignInv => InvestedIsFunded
  BY DEF CampaignInv, Funded, InvestedIsFunded, Investments
<1>. QED BY <1>1, CampaignsHold, PTL

-----------------------------------------------------------------------------
(* Loans and their schedules *)

LoanTypes ==
  /\ pool \in [Campaigns -> Nat]
  /\ loan \in [Loans -> LoanRow]
  /\ DOMAIN schedule = Loans
  /\ received \in [Loans -> Nat]

Granted(l) == loan[l].status \notin {Absent, "pending"}
DuesOf(s) == [n \in DOMAIN s |-> s[n].due]
PaidOf(s) == [n \in DOMAIN s |-> s[n].paid]

\* A loan's dues are what it costs, and no instalment is paid above its due.
GrantedBooks(l) ==
  LET s == schedule[l]
      months == loan[l].months
  IN
  /\ months \in 1 .. 60
  /\ s \in [1 .. months -> Instalment]
  /\ \A n \in 1 .. months : 0 < s[n].due /\ s[n].due <= s[months].due /\ s[n].paid <= s[n].due
  /\ \A n \in (1 .. months) \ {months} :
       s[n].due - Simulated(loan[l].total, months) \in {-1, 0}
  /\ SumOf(1 .. months, DuesOf(s)) = loan[l].total
  /\ loan[l].status = "closed" <=> Unpaid(s) = {}
  /\ (\A r \in MayBeFound : RepaymentOf[r] # l) => SumOf(1 .. months, PaidOf(s)) = received[l]

LoanBooks == \A l \in Loans :
  IF Granted(l) THEN GrantedBooks(l)
  ELSE /\ schedule[l] = <<>> /\ received[l] = 0
       /\ loan[l].status = "pending" => loan[l].months \in 1 .. 60

LoanInv == LoanTypes /\ LoanBooks

LEMMA FiniteMonths ==
  ASSUME NEW m \in Nat PROVE IsFiniteSet(1 .. m) /\ Cardinality(1 .. m) = m
BY FS_Interval

LEMMA Division ==
  ASSUME NEW a \in Int, NEW b \in Nat \ {0}
  PROVE  a \div b \in Int /\ b * (a \div b) <= a /\ a < b * (a \div b) + b
OBVIOUS

\* Multiples of m closer than m are in the order of their factors.
LEMMA Factors ==
  ASSUME NEW m \in Nat \ {0}, NEW x \in Int, NEW y \in Int, m * x < m * y + m
  PROVE  x <= y
OBVIOUS

LEMMA Multiples ==
  ASSUME NEW m \in Int, NEW x \in Int
  PROVE  /\ m * x \in Int /\ (2 * m) * x = 2 * (m * x)
         /\ m * (x + 1) = m * x + m /\ (m - 1) * x = m * x - x
<1>1. m * x \in Int
  OBVIOUS
<1>2. (2 * m) * x = 2 * (m * x)
  OBVIOUS
<1>3. m * (x + 1) = m * x + m
  OBVIOUS
<1>4. (m - 1) * x = m * x - x
  OBVIOUS
<1>. QED BY <1>1, <1>2, <1>3, <1>4

\* The instalment cut off is the one simulated, or one unit less.
LEMMA CutOffIsClose ==
  ASSUME NEW total \in Nat, NEW months \in 1 .. 60
  PROVE  /\ Monthly(total, months) \in Nat
         /\ months * Monthly(total, months) <= total
         /\ Monthly(total, months) - Simulated(total, months) \in {-1, 0}
<1>. DEFINE q == total \div months
            h == (2 * total + months) \div (2 * months)
<1>0. months \in Nat \ {0} /\ months \in Int /\ total \in Int
  OBVIOUS
<1>1. q \in Int /\ months * q <= total /\ total < months * q + months
  BY <1>0, Division
<1>2. /\ h \in Int /\ (2 * months) * h <= 2 * total + months
      /\ 2 * total + months < (2 * months) * h + 2 * months
  <2>1. 2 * total + months \in Int /\ 2 * months \in Nat \ {0}
    OBVIOUS
  <2>. HIDE DEF q
  <2>. QED BY <2>1, Division
<1>. HIDE DEF q, h
<1>3. /\ months * q \in Int /\ months * h \in Int /\ (2 * months) * h = 2 * (months * h)
      /\ months * (q + 1) = months * q + months /\ months * (h + 1) = months * h + months
  BY <1>1, <1>2, Multiples
<1>4. q <= h
  <2>1. months * q < months * h + months
    BY <1>1, <1>2, <1>3
  <2>. QED BY <1>1, <1>2, <2>1, Factors
<1>5. h <= q + 1
  <2>1. months * h < months * (q + 1) + months
    BY <1>1, <1>2, <1>3
  <2>. QED BY <1>1, <1>2, <2>1, Factors
<1>6. q >= 0
  <2>1. months * 0 < months * q + months
    BY <1>1, <1>3
  <2>. QED BY <1>1, <2>1, Factors
<1>. QED BY <1>1, <1>2, <1>4, <1>5, <1>6 DEF Monthly, Simulated, HalfUp, q, h

\* construire_echeancier, where the table takes every instalment.
LEMMA ScheduleAddsUp ==
  ASSUME NEW total \in Nat, NEW months \in 1 .. 60,
         NEW s, s = Schedule(total, months), Payable(s)
  PROVE  /\ s \in [1 .. months -> Instalment]
         /\ \A n \in 1 .. months : 0 < s[n].due /\ s[n].due <= s[months].due /\ s[n].paid = 0
         /\ \A n \in (1 .. months) \ {months} : s[n].due - Simulated(total, months) \in {-1, 0}
         /\ SumOf(1 .. months, DuesOf(s)) = total
<1>. DEFINE q == Monthly(total, months)
            last == total - (months - 1) * q
            R == 1 .. (months - 1)
<1>1. q \in Nat /\ months * q <= total /\ q - Simulated(total, months) \in {-1, 0}
  BY CutOffIsClose
<1>2. \A n \in 1 .. months : s[n] = [due |-> IF n = months THEN last ELSE q, paid |-> 0]
  BY DEF Schedule
<1>3. DOMAIN s = 1 .. months /\ months \in 1 .. months
  BY DEF Schedule
<1>4. /\ \A n \in 1 .. months : s[n].paid = 0 /\ s[n] = [due |-> s[n].due, paid |-> 0]
      /\ s[months].due = last
      /\ \A n \in (1 .. months) \ {months} : s[n].due = q
  BY <1>2, <1>3
<1>. HIDE DEF q
<1>5. (months - 1) * q = months * q - q /\ months * q \in Int
  BY <1>1, Multiples
<1>6. last \in Int /\ q <= last
  BY <1>1, <1>5
<1>. HIDE DEF last
<1>7. \A n \in 1 .. months : 0 < s[n].due
  BY <1>3 DEF Payable
<1>8. \A n \in 1 .. months : s[n].due \in Nat /\ s[n].due <= s[months].due
  BY <1>1, <1>4, <1>3, <1>6, <1>7
<1>9. s \in [1 .. months -> Instalment]
  <2>1. \A n \in 1 .. months : s[n] \in Instalment
    <3>1. \A d \in Nat : [due |-> d, paid |-> 0] \in Instalment
      BY DEF Instalment
    <3>. QED BY <1>8, <1>4, <3>1
  <2>2. s = [n \in 1 .. months |-> s[n]]
    BY DEF Schedule
  <2>. QED BY <2>1, <2>2
<1>10. \A n \in (1 .. months) \ {months} : s[n].due - Simulated(total, months) \in {-1, 0}
  BY <1>1, <1>4
<1>11. SumOf(1 .. months, DuesOf(s)) = total
  <2>. DEFINE dues == DuesOf(s)
  <2>1. \A n \in 1 .. months : dues[n] = s[n].due /\ dues[n] \in Nat
    BY <1>3, <1>8 DEF DuesOf
  <2>2. dues[months] = last
    BY <1>3, <1>4, <2>1
  <2>3. R \union {months} = 1 .. months /\ months \notin R
    OBVIOUS
  <2>4. \A n \in R : dues[n] = q
    BY <1>4, <2>1, <2>3
  <2>. HIDE DEF dues
  <2>5. IsFiniteSet(R) /\ Cardinality(R) = months - 1
    <3>1. months - 1 \in Nat
      OBVIOUS
    <3>. QED BY <3>1, FiniteMonths
  <2>. HIDE DEF R
  <2>6. SumOf(R, dues) = (months - 1) * q
    BY <1>1, <2>4, <2>5, SumOfEqual
  <2>7. SumOf(R \union {months}, dues) = SumOf(R, dues) + dues[months]
    <3>1. \A y \in R \union {months} : dues[y] \in Nat
      BY <2>1, <2>3
    <3>. QED BY ONLY <2>3, <2>5, <3>1, SumOfAdded
  <2>8. SumOf(1 .. months, dues) = (months - 1) * q + last
    BY <2>2, <2>3, <2>6, <2>7
  <2>. QED BY <1>1, <1>5, <2>8 DEF last, dues
<1>. QED BY <1>4, <1>7, <1>8, <1>9, <1>10, <1>11

\* The first of some months is one of them.
LEMMA FirstIsThere ==
  ASSUME NEW S \in SUBSET Nat, S # {}
  PROVE  First_(S) \in S
<1>1. PICK n \in S : \A m \in S : n <= m
  BY Least
<1>. QED BY <1>1 DEF First_

Credited(s, n, amount) == [s EXCEPT ![n].paid = @ + amount]

\* The schedule t is s with the amount more paid at n.
PaidMore(months, s, n, amount, t) ==
  /\ t \in [1 .. months -> Instalment]
  /\ \A i \in 1 .. months : t[i].due = s[i].due
  /\ t[n].paid = s[n].paid + amount
  /\ \A i \in (1 .. months) \ {n} : t[i].paid = s[i].paid
  /\ SumOf(1 .. months, DuesOf(t)) = SumOf(1 .. months, DuesOf(s))
  /\ SumOf(1 .. months, PaidOf(t)) = SumOf(1 .. months, PaidOf(s)) + amount

\* rembourser: what is paid of a loan grows by the amount, at one instalment.
LEMMA RepaidSchedule ==
  ASSUME NEW months \in 1 .. 60, NEW s \in [1 .. months -> Instalment], NEW amount \in Nat,
         NEW n \in 1 .. months, NEW t, t = Credited(s, n, amount)
  PROVE  PaidMore(months, s, n, amount, t)
<1>. DEFINE N == 1 .. months
<1>1. \A i \in N : s[i] \in Instalment
  OBVIOUS
<1>2. \A i \in N : s[i].due \in Nat /\ s[i].paid \in Nat
  BY <1>1 DEF Instalment
<1>3. s[n].paid + amount \in Nat
  BY <1>2
<1>4. t[n] = [s[n] EXCEPT !.paid = s[n].paid + amount]
  BY DEF Credited
<1>5. t[n].due = s[n].due /\ t[n].paid = s[n].paid + amount /\ t[n] \in Instalment
  <2>1. \A row \in Instalment, p \in Nat :
          LET new == [row EXCEPT !.paid = p] IN
          new.due = row.due /\ new.paid = p /\ new \in Instalment
    BY DEF Instalment
  <2>. HIDE DEF N
  <2>2. s[n] \in Instalment
    BY <1>1 DEF N
  <2>. QED BY <1>3, <1>4, <2>1, <2>2
<1>6. \A i \in N \ {n} : t[i] = s[i]
  BY DEF Credited
<1>7. t \in [N -> Instalment]
  <2>1. t = [i \in N |-> t[i]]
    BY DEF Credited
  <2>2. \A i \in N : t[i] \in Instalment
    BY <1>1, <1>5, <1>6
  <2>. QED BY <2>1, <2>2
<1>8. DOMAIN s = N /\ DOMAIN t = N
  BY <1>7
<1>9. \A i \in N : /\ DuesOf(s)[i] = s[i].due /\ DuesOf(t)[i] = t[i].due
                   /\ PaidOf(s)[i] = s[i].paid /\ PaidOf(t)[i] = t[i].paid
  BY <1>8 DEF DuesOf, PaidOf
<1>10. IsFiniteSet(N)
  <2>1. months \in Nat
    OBVIOUS
  <2>. QED BY <2>1, FiniteMonths
<1>11. /\ \A i \in N : t[i].due = s[i].due
       /\ t[n].paid = s[n].paid + amount /\ \A i \in N \ {n} : t[i].paid = s[i].paid
       /\ \A i \in N : t[i].paid \in Nat
  BY <1>2, <1>3, <1>5, <1>6
<1>12. SumOf(N, DuesOf(t)) = SumOf(N, DuesOf(s))
  <2>. DEFINE before == DuesOf(s)
              after == DuesOf(t)
  <2>1. \A i \in N : before[i] = after[i]
    BY <1>9, <1>11
  <2>. HIDE DEF before, after, N
  <2>. QED BY <2>1, SumOfSame DEF before, after
<1>13. SumOf(N, PaidOf(t)) = SumOf(N, PaidOf(s)) + amount
  <2>1. Grows(N, n, amount, PaidOf(s), PaidOf(t))
    BY <1>2, <1>9, <1>10, <1>11 DEF Grows
  <2>. HIDE DEF N
  <2>. QED BY <2>1, SumOfMore
<1>. QED BY <1>7, <1>12, <1>13, <1>11 DEF PaidMore

\* All of a loan is paid exactly when each of its instalments is.
LEMMA AllPaid ==
  ASSUME NEW months \in 1 .. 60, NEW s \in [1 .. months -> Instalment],
         \A n \in 1 .. months : s[n].paid <= s[n].due
  PROVE  /\ SumOf(1 .. months, PaidOf(s)) <= SumOf(1 .. months, DuesOf(s))
         /\ Unpaid(s) = {} <=> SumOf(1 .. months, PaidOf(s)) = SumOf(1 .. months, DuesOf(s))
<1>. DEFINE N == 1 .. months
            paid == PaidOf(s)
            due == DuesOf(s)
<1>1. \A i \in N : s[i] \in Instalment
  OBVIOUS
<1>2. \A i \in N : s[i].due \in Nat /\ s[i].paid \in Nat
  BY <1>1 DEF Instalment
<1>3. \A i \in N : paid[i] = s[i].paid /\ due[i] = s[i].due
  BY DEF PaidOf, DuesOf
<1>4. IsFiniteSet(N)
  BY FiniteMonths
<1>5. Unpaid(s) = {} <=> \A i \in N : paid[i] = due[i]
  BY <1>2, <1>3 DEF Unpaid
<1>. HIDE DEF N, paid, due
<1>6. \A i \in N : paid[i] \in Nat /\ due[i] \in Nat /\ paid[i] <= due[i]
  BY <1>2, <1>3 DEF N
<1>7. /\ SumOf(N, paid) <= SumOf(N, due)
      /\ SumOf(N, paid) = SumOf(N, due) => \A i \in N : paid[i] = due[i]
  BY <1>4, <1>6, SumOfLess
<1>8. (\A i \in N : paid[i] = due[i]) => SumOf(N, paid) = SumOf(N, due)
  BY SumOfSame
<1>. QED BY <1>5, <1>7, <1>8 DEF N, paid, due

-----------------------------------------------------------------------------
LEMMA LoanInit == Init => LoanInv
BY FundAssumption DEF Init, LoanInv, LoanTypes, LoanBooks, Granted, LoanRow, Absent

\* The total of a loan is a number.
LEMMA TotalType == ASSUME NEW p \in Nat PROVE TotalOf(p) \in Nat
<1>1. \A a, b \in Nat : a * b \in Nat
  OBVIOUS
<1>2. p * (1000 + Permille) \in Nat
  BY <1>1, FundAssumption
<1>. DEFINE x == p * (1000 + Permille)
<1>. HIDE DEF x
<1>3. x \in Nat
  BY <1>2 DEF x
<1>4. (2 * x + 1000) \div (2 * 1000) \in Nat
  BY <1>3
<1>. QED BY <1>4 DEF TotalOf, HalfUp, x

LEMMA RequestStep ==
  ASSUME LoanInv, NEW l \in Loans, RequestLoan(l)
  PROVE  LoanInv'
<1>. USE DEF RequestLoan, campaignVars
<1>1. PICK t \in Terms[l] :
        loan' = [loan EXCEPT ![l] = [status |-> "pending", principal |-> t[1],
                                     months |-> t[2], total |-> TotalOf(t[1])]]
  OBVIOUS
<1>2. t[1] \in Nat /\ t[2] \in 1 .. 60
  BY <1>1, FundAssumption
<1>3. loan' \in [Loans -> LoanRow]
  BY <1>1, <1>2, TotalType DEF LoanInv, LoanTypes, LoanRow
<1>4. /\ loan'[l].status = "pending" /\ loan'[l].months \in 1 .. 60
      /\ \A m \in Loans \ {l} : loan'[m] = loan[m]
  BY <1>1, <1>2 DEF LoanInv, LoanTypes
<1>5. ~Granted(l) /\ schedule[l] = <<>> /\ received[l] = 0
  BY DEF LoanInv, LoanBooks, Granted
<1>6. ASSUME NEW m \in Loans
      PROVE  IF Granted(m)' THEN GrantedBooks(m)'
             ELSE /\ schedule'[m] = <<>> /\ received'[m] = 0
                  /\ loan'[m].status = "pending" => loan'[m].months \in 1 .. 60
  <2>1. CASE m = l
    BY <1>4, <1>5, <2>1 DEF Granted
  <2>2. CASE m # l
    <3>1. loan'[m] = loan[m] /\ schedule' = schedule /\ received' = received
      BY <1>4, <2>2
    <3>. QED BY <3>1 DEF LoanInv, LoanBooks, Granted, GrantedBooks
  <2>. QED BY <2>1, <2>2
<1>7. LoanBooks'
  BY <1>6 DEF LoanBooks
<1>. QED BY <1>3, <1>7 DEF LoanInv, LoanTypes

\* The books of the loans a step does not touch.
LEMMA OtherBooks ==
  ASSUME LoanInv, NEW l \in Loans, GrantedBooks(l)', Granted(l)',
         \A m \in Loans \ {l} :
           loan'[m] = loan[m] /\ schedule'[m] = schedule[m] /\ received'[m] = received[m]
  PROVE  LoanBooks'
<1>1. ASSUME NEW m \in Loans \ {l}
      PROVE  IF Granted(m)' THEN GrantedBooks(m)'
             ELSE /\ schedule'[m] = <<>> /\ received'[m] = 0
                  /\ loan'[m].status = "pending" => loan'[m].months \in 1 .. 60
  BY DEF LoanInv, LoanBooks, Granted, GrantedBooks
<1>. QED BY <1>1 DEF LoanBooks

LEMMA DisburseStep ==
  ASSUME LoanInv, NEW l \in Loans, Disburse(l)
  PROVE  LoanInv'
<1>. DEFINE total == loan[l].total
            months == loan[l].months
            s == Schedule(total, months)
            N == 1 .. months
<1>1. /\ loan[l].status = "pending" /\ Affordable(l) /\ Payable(s)
      /\ pool' = [pool EXCEPT ![PoolOf[l]] = @ - loan[l].principal]
      /\ schedule' = [schedule EXCEPT ![l] = s]
      /\ loan' = [loan EXCEPT ![l].status = "disbursed"] /\ received' = received
  BY DEF Disburse
<1>2. /\ loan[l] \in LoanRow /\ total \in Nat /\ months \in 1 .. 60
      /\ schedule[l] = <<>> /\ received[l] = 0
  BY <1>1 DEF LoanInv, LoanTypes, LoanBooks, LoanRow, Granted
<1>3. PoolOf[l] \in Campaigns /\ pool[PoolOf[l]] - loan[l].principal \in Nat
  <2>1. PoolOf[l] \in Campaigns /\ loan[l].principal \in Nat
    BY <1>2, FundAssumption DEF LoanRow
  <2>2. pool[PoolOf[l]] \in Nat
    BY <2>1 DEF LoanInv, LoanTypes
  <2>. QED BY <1>1, <2>1, <2>2 DEF Affordable
<1>4. pool' \in [Campaigns -> Nat] /\ loan' \in [Loans -> LoanRow] /\ DOMAIN schedule' = Loans
  BY <1>1, <1>3 DEF LoanInv, LoanTypes, LoanRow
<1>5. /\ schedule'[l] = s /\ loan'[l].status = "disbursed"
      /\ loan'[l].total = total /\ loan'[l].months = months
      /\ \A m \in Loans \ {l} : loan'[m] = loan[m] /\ schedule'[m] = schedule[m]
  BY <1>1, <1>2 DEF LoanInv, LoanTypes, LoanRow
<1>. HIDE DEF s, total, months
<1>6. /\ s \in [N -> Instalment]
      /\ \A n \in N : 0 < s[n].due /\ s[n].due <= s[months].due /\ s[n].paid = 0
      /\ \A n \in N \ {months} : s[n].due - Simulated(total, months) \in {-1, 0}
      /\ SumOf(N, DuesOf(s)) = total
  BY <1>1, <1>2, ScheduleAddsUp DEF s
<1>7. SumOf(N, PaidOf(s)) = 0
  <2>. DEFINE paid == PaidOf(s)
  <2>1. \A n \in N : paid[n] = 0
    BY <1>6 DEF PaidOf
  <2>2. IsFiniteSet(N)
    <3>1. months \in Nat
      BY <1>2
    <3>. QED BY <3>1, FiniteMonths
  <2>. HIDE DEF paid, N
  <2>3. SumOf(N, paid) = Cardinality(N) * 0 /\ Cardinality(N) \in Nat
    BY <2>1, <2>2, SumOfEqual, FS_CardinalityType
  <2>. QED BY <2>3 DEF paid
<1>8. Unpaid(s) # {}
  <2>1. months \in N /\ DOMAIN s = N
    BY <1>2, <1>6
  <2>. QED BY <1>6, <2>1 DEF Unpaid
<1>9. \A n \in N : s[n].paid <= s[n].due
  BY <1>6 DEF Instalment
<1>10. GrantedBooks(l)'
  BY <1>1, <1>2, <1>5, <1>6, <1>7, <1>8, <1>9 DEF GrantedBooks
<1>11. LoanBooks'
  BY <1>1, <1>5, <1>10, OtherBooks DEF Granted, Absent
<1>. QED BY <1>1, <1>4, <1>11 DEF LoanInv, LoanTypes

LEMMA RepayStep ==
  ASSUME LoanInv, NEW l \in Loans, NEW r \in RepayKeys, RepaymentOf[r] = l,
         NEW amount \in Nat, Repay(l, r, amount)
  PROVE  LoanInv'
<1>. DEFINE s == schedule[l]
            months == loan[l].months
            N == 1 .. months
            n == First_(Unpaid(s))
            t == Credited(s, n, amount)
            credit == Debited(r, amount)
<1>1. /\ loan[l].status \in {"disbursed", "repaying", "closed"}
      /\ r \in posted => r \in MayBeFound
      /\ Unpaid(s) # {} /\ Fits(s, n, amount)
      /\ pool' = [pool EXCEPT ![PoolOf[l]] = @ + credit]
      /\ received' = [received EXCEPT ![l] = @ + credit]
      /\ schedule' = [schedule EXCEPT ![l] = t]
      /\ loan' = [loan EXCEPT ![l].status = IF Unpaid(t) = {} THEN "closed" ELSE "repaying"]
  BY DEF Repay, Debit, Credited
<1>. HIDE DEF t
<1>2. credit \in Nat
  BY DEF Debited
<1>3. /\ pool' \in [Campaigns -> Nat] /\ received' \in [Loans -> Nat]
      /\ received'[l] = received[l] + credit /\ DOMAIN schedule' = Loans
  <2>1. PoolOf[l] \in Campaigns
    BY FundAssumption
  <2>2. pool[PoolOf[l]] + credit \in Nat /\ received[l] + credit \in Nat
    BY <1>2, <2>1 DEF LoanInv, LoanTypes
  <2>. HIDE DEF credit
  <2>. QED BY <1>1, <2>1, <2>2 DEF LoanInv, LoanTypes
<1>4. loan' \in [Loans -> LoanRow]
  BY <1>1 DEF LoanInv, LoanTypes, LoanRow
<1>5. /\ schedule'[l] = t /\ loan'[l].total = loan[l].total /\ loan'[l].months = months
      /\ loan'[l].status = IF Unpaid(t) = {} THEN "closed" ELSE "repaying"
  BY <1>1 DEF LoanInv, LoanTypes, LoanRow
<1>6. \A m \in Loans \ {l} :
        loan'[m] = loan[m] /\ schedule'[m] = schedule[m] /\ received'[m] = received[m]
  BY <1>1 DEF LoanInv, LoanTypes
<1>7. GrantedBooks(l)
  BY <1>1 DEF LoanInv, LoanBooks, Granted, Absent
<1>8. months \in 1 .. 60 /\ s \in [N -> Instalment]
  BY <1>7 DEF GrantedBooks
<1>9. /\ \A i \in N : 0 < s[i].due /\ s[i].due <= s[months].due /\ s[i].paid <= s[i].due
      /\ \A i \in N \ {months} : s[i].due - Simulated(loan[l].total, months) \in {-1, 0}
      /\ SumOf(N, DuesOf(s)) = loan[l].total
      /\ (\A q \in MayBeFound : RepaymentOf[q] # l) => SumOf(N, PaidOf(s)) = received[l]
  BY <1>7 DEF GrantedBooks
<1>10. n \in N
  <2>1. Unpaid(s) \subseteq N /\ N \subseteq Nat
    <3>1. N \subseteq Nat
      BY <1>8
    <3>2. DOMAIN s = N
      BY <1>8
    <3>. QED BY <3>1, <3>2 DEF Unpaid
  <2>2. n \in Unpaid(s)
    BY <1>1, <2>1, FirstIsThere
  <2>. QED BY <2>1, <2>2
<1>11. amount <= s[n].due - s[n].paid
  BY <1>1 DEF Fits
<1>. HIDE DEF s, months, n
<1>12. /\ t \in [N -> Instalment] /\ \A i \in N : t[i].due = s[i].due
       /\ t[n].paid = s[n].paid + amount
       /\ \A i \in N \ {n} : t[i].paid = s[i].paid
       /\ SumOf(N, DuesOf(t)) = SumOf(N, DuesOf(s))
       /\ SumOf(N, PaidOf(t)) = SumOf(N, PaidOf(s)) + amount
  <2>1. t = Credited(s, n, amount)
    BY DEF t
  <2>2. n \in 1 .. months /\ s \in [1 .. months -> Instalment]
    BY <1>8, <1>10
  <2>. HIDE DEF N, credit
  <2>3. PaidMore(months, s, n, amount, t)
    BY ONLY <1>8, <2>1, <2>2, amount \in Nat, RepaidSchedule
  <2>. QED BY <2>3 DEF N, PaidMore
<1>13. \A i \in N : t[i].paid <= t[i].due
  <2>1. s[n].due \in Nat /\ s[n].paid \in Nat
    BY <1>8, <1>10 DEF Instalment
  <2>2. t[n].paid <= t[n].due
    BY <1>10, <1>11, <1>12, <2>1
  <2>. QED BY <1>9, <1>12, <2>2
<1>14. (\A q \in MayBeFound : RepaymentOf[q] # l) => SumOf(N, PaidOf(t)) = received'[l]
  <2>1. (\A q \in MayBeFound : RepaymentOf[q] # l) => r \notin posted
    BY DEF Repay
  <2>2. (\A q \in MayBeFound : RepaymentOf[q] # l) => credit = amount
    BY <2>1 DEF credit, Debited
  <2>. QED BY <1>3, <1>9, <1>12, <2>2
<1>15. months \in N
  BY <1>8
<1>16. /\ \A i \in N : 0 < t[i].due /\ t[i].due <= t[months].due
       /\ \A i \in N \ {months} : t[i].due - Simulated(loan[l].total, months) \in {-1, 0}
  BY <1>9, <1>12, <1>15
<1>17. GrantedBooks(l)'
  BY <1>8, <1>5, <1>9, <1>12, <1>13, <1>14, <1>16 DEF GrantedBooks
<1>18. Granted(l)'
  BY <1>5 DEF Granted, Absent
<1>19. LoanBooks'
  BY <1>6, <1>17, <1>18, OtherBooks
<1>. QED BY <1>3, <1>4, <1>19 DEF LoanInv, LoanTypes

\* Investments pay into the pools and leave the loans alone.
LEMMA CampaignsLeaveLoans ==
  ASSUME LoanInv, UNCHANGED loanVars, pool' \in [Campaigns -> Nat]
  PROVE  LoanInv'
BY DEF LoanInv, LoanTypes, LoanBooks, Granted, GrantedBooks, loanVars

LEMMA InvestPays ==
  ASSUME LoanInv, NEW w \in WalletKeys, InvestEnd(w)
  PROVE  pool' \in [Campaigns -> Nat]
<1>1. Into[w] \in Campaigns /\ Size[w] \in Nat
  BY FundAssumption DEF Investments
<1>2. pool[Into[w]] + Debited(w, Size[w]) \in Nat
  BY <1>1 DEF LoanInv, LoanTypes, Debited
<1>. QED BY <1>1, <1>2 DEF InvestEnd, Debit, LoanInv, LoanTypes

LEMMA LoanStep == LoanInv /\ [Next]_vars => LoanInv'
<1>. SUFFICES ASSUME LoanInv, [Next]_vars PROVE LoanInv'
  OBVIOUS
<1>1. ASSUME NEW w \in WalletKeys, InvestEnd(w)
      PROVE  LoanInv'
  BY <1>1, InvestPays, CampaignsLeaveLoans DEF InvestEnd
<1>2. ASSUME UNCHANGED <<loanVars, pool>>
      PROVE  LoanInv'
  BY <1>2, CampaignsLeaveLoans DEF LoanInv, LoanTypes
<1>3. ASSUME NEW c \in Campaigns, CreateCampaign(c) \/ BackOfficeMoves(c)
      PROVE  UNCHANGED <<loanVars, pool>>
  BY <1>3 DEF CreateCampaign, BackOfficeMoves
<1>4. ASSUME NEW w \in WalletKeys, InvestBegin(w) \/ InvestRolledBack(w)
      PROVE  UNCHANGED <<loanVars, pool>>
  BY <1>4 DEF InvestBegin, InvestRolledBack
<1>5. ASSUME NEW o \in OrderKeys, PaymentMoves(o)
      PROVE  UNCHANGED <<loanVars, pool>>
  BY <1>5 DEF PaymentMoves, campaignVars
<1>6. ASSUME NEW o \in OrderKeys, NEW k \in Calls,
             StartRead(o, k) \/ StartCollect(o, k) \/ StartCommit(o, k) \/ StartLost(o, k)
      PROVE  UNCHANGED <<loanVars, pool>>
  BY <1>6 DEF StartRead, StartCollect, StartCommit, StartLost, campaignVars
<1>7. ASSUME NEW o \in OrderKeys, NEW n \in News,
             \/ ReceiveAgain(o, n) \/ Receive(o, n) \/ Apply(o, n) \/ ReceiveRolledBack(o, n)
             \/ GiveUp(o, n) \/ RetryCallback(o, n)
      PROVE  UNCHANGED <<loanVars, pool>>
  BY <1>7 DEF ReceiveAgain, Receive, Apply, ReceiveRolledBack, GiveUp, RetryCallback, campaignVars
<1>8. ASSUME NEW l \in Loans, RequestLoan(l) \/ Disburse(l)
      PROVE  LoanInv'
  BY <1>8, RequestStep, DisburseStep
<1>9. ASSUME NEW r \in RepayKeys, NEW a \in 1 .. MaxRepayment, Repay(RepaymentOf[r], r, a)
      PROVE  LoanInv'
  BY <1>9, FundAssumption, RepayStep
<1>10. ASSUME NEW k \in Shared, OthersPost(k)
      PROVE  UNCHANGED <<loanVars, pool>>
  BY <1>10 DEF OthersPost, campaignVars
<1>11. CASE UNCHANGED vars
  BY <1>2, <1>11 DEF vars, campaignVars
<1>. QED BY <1>1, <1>2, <1>3, <1>4, <1>5, <1>6, <1>7, <1>8, <1>9, <1>10, <1>11 DEF Next

LEMMA LoansHold == Spec => []LoanInv
BY LoanInit, LoanStep, PTL DEF Spec

\* Every reachable state is well typed, for any numbers of campaigns, investments,
\* payments and loans; in particular no pool goes below zero.
THEOREM TypeCorrect == Spec => []TypeOK
<1>1. CampaignInv /\ LoanInv => TypeOK
  <2>. SUFFICES ASSUME CampaignInv, LoanInv PROVE TypeOK
    OBVIOUS
  <2>1. ASSUME NEW l \in Loans, NEW n \in DOMAIN schedule[l]
        PROVE  schedule[l][n] \in Instalment
    <3>1. CASE Granted(l)
      <4>1. schedule[l] \in [1 .. loan[l].months -> Instalment]
        BY <3>1 DEF LoanInv, LoanBooks, GrantedBooks
      <4>. QED BY <2>1, <4>1
    <3>2. CASE ~Granted(l)
      <4>1. schedule[l] = <<>>
        BY <3>2 DEF LoanInv, LoanBooks
      <4>. QED BY <2>1, <4>1
    <3>. QED BY <3>1, <3>2
  <2>. QED BY <2>1 DEF CampaignInv, CampaignTypes, LoanInv, LoanTypes, TypeOK
<1>. QED BY <1>1, CampaignsHold, LoansHold, PTL

\* The instalments of a loan add up to what is owed and follow the simulation, for
\* every principal, rate and number of months; what they count as paid is what the
\* pool received, and a loan is closed exactly when all of it was paid.
THEOREM LoansAddUp == Spec => []InstalmentsAddUp
<1>1. ASSUME LoanInv, NEW l \in Loans, loan[l].status \notin {Absent, "pending"}
      PROVE  LET s == schedule[l]
                 paid == SumOf(DOMAIN s, PaidOf(s))
             IN
             /\ SumOf(DOMAIN s, DuesOf(s)) = loan[l].total
             /\ \A n \in DOMAIN s : 0 < s[n].due /\ s[n].due <= s[loan[l].months].due
             /\ \A n \in DOMAIN s \ {loan[l].months} :
                  s[n].due - Simulated(loan[l].total, loan[l].months) \in {-1, 0}
             /\ (\A r \in MayBeFound : RepaymentOf[r] # l) =>
                  /\ paid = received[l]
                  /\ paid <= loan[l].total
                  /\ (loan[l].status = "closed") = (paid = loan[l].total)
  <2>. DEFINE s == schedule[l]
              months == loan[l].months
              N == 1 .. months
  <2>1. GrantedBooks(l)
    BY <1>1 DEF LoanInv, LoanBooks, Granted
  <2>2. months \in 1 .. 60 /\ s \in [N -> Instalment]
    BY <2>1 DEF GrantedBooks
  <2>3. DOMAIN s = N
    BY <2>2
  <2>4. /\ \A n \in N : 0 < s[n].due /\ s[n].due <= s[months].due /\ s[n].paid <= s[n].due
        /\ \A n \in N \ {months} : s[n].due - Simulated(loan[l].total, months) \in {-1, 0}
        /\ SumOf(N, DuesOf(s)) = loan[l].total
        /\ loan[l].status = "closed" <=> Unpaid(s) = {}
        /\ (\A r \in MayBeFound : RepaymentOf[r] # l) => SumOf(N, PaidOf(s)) = received[l]
    BY <2>1 DEF GrantedBooks
  <2>5. /\ SumOf(N, PaidOf(s)) <= SumOf(N, DuesOf(s))
        /\ Unpaid(s) = {} <=> SumOf(N, PaidOf(s)) = SumOf(N, DuesOf(s))
    BY <2>2, <2>4, AllPaid
  <2>. HIDE DEF s, N, months
  <2>. QED BY <2>3, <2>4, <2>5 DEF s, months
<1>2. LoanInv => InstalmentsAddUp
  BY <1>1 DEF InstalmentsAddUp, PaidOf, DuesOf
<1>. QED BY <1>2, LoansHold, PTL
=============================================================================
