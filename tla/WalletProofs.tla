---------------------------- MODULE WalletProofs ----------------------------
(***************************************************************************)
(* Proofs about Wallet, for any accounts, operations and amounts, any      *)
(* number of requests per key and of checkers, whether or not processes    *)
(* meet at one operation and gateway calls fail.                           *)
(***************************************************************************)
EXTENDS Wallet, TLAPS

USE WalletAssumption

-----------------------------------------------------------------------------
(* The inductive invariant *)

\* A call holds a lock only while it waits for the gateway, and the one that
\* creates a withdrawal does, having found the account active.
CallsInv ==
  /\ \A o \in Ops, k \in Calls :
       /\ call[o][k].at # "calling" => ~call[o][k].locks /\ call[o][k].seen = Absent
       /\ o \in Deposits => ~call[o][k].locks /\ call[o][k].seen = Absent
  /\ \A o \in Debits, k \in Calls :
       call[o][k].at = "calling" /\ call[o][k].seen = Absent =>
         o \in Withdrawals /\ call[o][k].locks /\ call[o][k].active

\* One request at a time holds an account's lock.
OneLock ==
  \A o, p \in Debits, k, j \in Calls :
    owner[o] = owner[p] /\ call[o][k].locks /\ call[p][j].locks => o = p /\ k = j

\* The money of a creating call is in the balance.
Reserved ==
  \A w \in Withdrawals, k \in Calls :
    call[w][k].at = "calling" /\ call[w][k].seen = Absent => balance[owner[w]] >= size[w]

\* A webhook or a checker holds rows that exist, and a deposit under way has none.
RowsInv ==
  /\ \A d \in Deposits, e \in Events : inbox[d][e] \in Status => row[d] # Absent
  /\ \A c \in Checkers : \A b \in batch[c] : row[b.op] # Absent
  /\ \A d \in Deposits, k \in Calls : call[d][k].at = "calling" =>
       row[d] = Absent /\ \A j \in Calls : call[d][j].at = "calling" => j = k

IInv == TypeOK /\ CallsInv /\ OneLock /\ Reserved /\ RowsInv /\ NoOverdraft

-----------------------------------------------------------------------------
(* Lemmas about the operators *)

\* Goes changes one request.
LEMMA GoesOne ==
  ASSUME TypeOK, NEW o \in Ops, NEW k \in Calls, NEW c \in Call, Goes(o, k, c)
  PROVE  /\ call' \in [Ops -> [Calls -> Call]]
         /\ call'[o][k] = c
         /\ \A p \in Ops, j \in Calls : p # o \/ j # k => call'[p][j] = call[p][j]
BY DEF TypeOK, Goes

\* Ends frees the request's lock.
LEMMA EndsOne ==
  ASSUME TypeOK, NEW o \in Ops, NEW k \in Calls, Ends(o, k)
  PROVE  /\ call' \in [Ops -> [Calls -> Call]]
         /\ call'[o][k].at = "done" /\ ~call'[o][k].locks /\ call'[o][k].seen = Absent
         /\ \A p \in Ops, j \in Calls : p # o \/ j # k => call'[p][j] = call[p][j]
<1>1. Done \in Call
  BY DEF Done, Call, Absent
<1>2. Done.at = "done" /\ ~Done.locks /\ Done.seen = Absent
  BY DEF Done
<1>. QED BY <1>1, <1>2, GoesOne DEF Ends

\* Whatever a status write does, the ledger keeps its types, a committed row stays
\* one, and only the transaction that creates a withdrawal takes money.
LEMMA SettleKeeps ==
  ASSUME TypeOK, NEW o \in Asked, NEW seen, NEW report, Settle(o, seen, report)
  PROVE  /\ balance' \in [Accounts -> Int]
         /\ row' \in [Ops -> Status \union {Absent}]
         /\ credits' \in [Asked -> Nat]
         /\ \A p \in Ops : row[p] # Absent => row'[p] # Absent
         /\ \A p \in Ops : p # o => row'[p] = row[p]
         /\ \A a \in Accounts :
              \/ balance'[a] >= balance[a]
              \/ o \in Withdrawals /\ seen = Absent /\ a = owner[o]
                   /\ balance'[a] >= balance[a] - size[o]
<1>1. StatusAfter(o, report) \in Status
  BY DEF StatusAfter, Status, Final
<1>2. Absent \notin Status
  BY DEF Absent, Status, Final
<1>3. o \in Ops /\ owner[o] \in Accounts /\ size[o] \in Nat
  BY DEF Asked, Ops
<1>4. CASE ~Writes(seen, report)
  BY <1>4 DEF Settle, ledger, TypeOK
<1>5. CASE Writes(seen, report)
  <2>1. /\ row' = [row EXCEPT ![o] = StatusAfter(o, report)]
        /\ credits' = [credits EXCEPT ![o] = IF Credits(o, report) THEN @ + 1 ELSE @]
        /\ balance' = [balance EXCEPT ![owner[o]] =
             @ + (IF Credits(o, report) THEN size[o] ELSE 0)
               - (IF o \in Withdrawals /\ seen = Absent THEN size[o] ELSE 0)]
    BY <1>5 DEF Settle
  <2>2. /\ row' \in [Ops -> Status \union {Absent}]
        /\ \A p \in Ops : row[p] # Absent => row'[p] # Absent
        /\ \A p \in Ops : p # o => row'[p] = row[p]
    BY <1>1, <1>2, <1>3, <2>1 DEF TypeOK
  <2>3. credits' \in [Asked -> Nat]
    BY <2>1 DEF TypeOK
  <2>4. balance' \in [Accounts -> Int]
    BY <1>3, <2>1 DEF TypeOK
  <2>5. \A a \in Accounts : a # owner[o] => balance'[a] = balance[a]
    BY <1>3, <2>1 DEF TypeOK
  <2>6. balance'[owner[o]] = balance[owner[o]]
             + (IF Credits(o, report) THEN size[o] ELSE 0)
             - (IF o \in Withdrawals /\ seen = Absent THEN size[o] ELSE 0)
    BY <1>3, <2>1 DEF TypeOK
  <2>7. \A a \in Accounts : balance[a] \in Int
    BY DEF TypeOK
  <2>. QED BY <1>3, <2>2, <2>3, <2>4, <2>5, <2>6, <2>7
<1>. QED BY <1>4, <1>5

-----------------------------------------------------------------------------
(* Steps of the requests *)

Kept == CallsInv /\ OneLock /\ Reserved /\ NoOverdraft /\ RowsInv

\* A request that moves on without a commit keeps the invariant, provided it takes
\* a lock only when that is free, and the money is there when it creates a withdrawal.
LEMMA MoveKeeps ==
  ASSUME IInv, NEW o \in Ops, NEW k \in Calls, NEW c \in Call, Goes(o, k, c),
         UNCHANGED <<balance, row, inbox, batch>>,
         c.at # "calling" => ~c.locks /\ c.seen = Absent,
         o \in Deposits => ~c.locks /\ c.seen = Absent,
         o \in Debits /\ c.at = "calling" /\ c.seen = Absent =>
           /\ o \in Withdrawals /\ c.locks /\ c.active
           /\ balance[owner[o]] >= size[o],
         o \in Debits /\ c.locks => Free(owner[o]),
         o \in Deposits /\ c.at = "calling" =>
           row[o] = Absent /\ \A j \in Calls : call[o][j].at # "calling"
  PROVE  Kept'
<1>1. /\ call'[o][k] = c
      /\ \A p \in Ops, j \in Calls : p # o \/ j # k => call'[p][j] = call[p][j]
  BY GoesOne DEF IInv
<1>2. Debits \subseteq Ops /\ Deposits \subseteq Ops /\ Withdrawals \subseteq Debits
  BY DEF Debits, Ops
<1>3. CallsInv'
  BY <1>1, <1>2 DEF IInv, CallsInv
<1>4. OneLock'
  <2>. SUFFICES ASSUME NEW p \in Debits, NEW q \in Debits, NEW i \in Calls, NEW j \in Calls,
                       owner[p] = owner[q], call'[p][i].locks, call'[q][j].locks
                PROVE  p = q /\ i = j
    BY DEF OneLock
  <2>1. CASE c.locks /\ o \in Debits
    <3>1. \A r \in Debits, m \in Calls : owner[r] = owner[o] => ~call[r][m].locks
      BY <2>1 DEF Free
    <3>. QED BY <1>1, <1>2, <3>1 DEF IInv, OneLock
  <2>2. CASE ~c.locks \/ o \notin Debits
    BY <1>1, <1>2, <2>2 DEF IInv, OneLock
  <2>. QED BY <2>1, <2>2
<1>5. Reserved' /\ NoOverdraft'
  BY <1>1, <1>2 DEF IInv, Reserved, NoOverdraft
<1>6. RowsInv'
  BY <1>1, <1>2 DEF IInv, RowsInv
<1>. QED BY <1>3, <1>4, <1>5, <1>6 DEF Kept

\* A request that ends keeps the locks and the reserved money right, provided it
\* takes money only where nobody else holds a lock, and no more than there is.
LEMMA EndKeeps ==
  ASSUME IInv, NEW o \in Ops, NEW k \in Calls, Ends(o, k),
         balance' \in [Accounts -> Int],
         \A a \in Accounts :
           \/ balance'[a] >= balance[a]
           \/ /\ balance'[a] >= 0
              /\ \A p \in Debits, j \in Calls :
                   owner[p] = a /\ call[p][j].locks => p = o /\ j = k
  PROVE  CallsInv' /\ OneLock' /\ Reserved' /\ NoOverdraft'
<1>1. /\ call'[o][k].at = "done" /\ ~call'[o][k].locks /\ call'[o][k].seen = Absent
      /\ \A p \in Ops, j \in Calls : p # o \/ j # k => call'[p][j] = call[p][j]
  BY EndsOne DEF IInv
<1>2. Debits \subseteq Ops /\ Deposits \subseteq Ops /\ Withdrawals \subseteq Debits
  BY DEF Debits, Ops
<1>3. CallsInv'
  BY <1>1, <1>2 DEF IInv, CallsInv
<1>4. OneLock'
  BY <1>1, <1>2 DEF IInv, OneLock
<1>5. NoOverdraft'
  BY DEF IInv, NoOverdraft, TypeOK
<1>6. Reserved'
  <2>. SUFFICES ASSUME NEW w \in Withdrawals, NEW j \in Calls,
                       call'[w][j].at = "calling", call'[w][j].seen = Absent
                PROVE  balance'[owner[w]] >= size[w]
    BY DEF Reserved
  <2>1. call'[w][j] = call[w][j] /\ (w # o \/ j # k)
    BY <1>1, <1>2
  <2>2. call[w][j].locks /\ balance[owner[w]] >= size[w]
    BY <1>2, <2>1 DEF IInv, CallsInv, Reserved
  <2>3. owner[w] \in Accounts /\ size[w] \in Nat /\ balance[owner[w]] \in Int
    BY <1>2 DEF IInv, TypeOK
  <2>4. balance'[owner[w]] >= balance[owner[w]]
    BY <1>2, <2>1, <2>2, <2>3
  <2>. QED BY <2>2, <2>3, <2>4
<1>. QED BY <1>3, <1>4, <1>5, <1>6

\* A deposit's request: no lock, no money.
LEMMA DepositKeeps ==
  ASSUME IInv, NEW d \in Deposits, NEW k \in Calls, DepositCall(d, k)
  PROVE  IInv'
<1>1. d \in Ops /\ d \in Asked /\ d \notin Debits
  BY DEF Ops, Asked
<1>2. call[d][k] \in Call /\ ~call[d][k].locks /\ call[d][k].seen = Absent
  BY <1>1 DEF IInv, TypeOK, CallsInv
<1>3. PICK c \in Call : c.at = "calling" /\ c.seen = Absent /\ ~c.locks /\ Goes(d, k, c)
  BY <1>2 DEF DepositCall, Call
<1>4. UNCHANGED <<frozen, balance, row, credits, ref, inbox, batch, verdict>>
  BY DEF DepositCall, ledger, checkerVars
<1>5. row[d] = Absent /\ \A j \in Calls : call[d][j].at # "calling"
  BY DEF DepositCall
<1>6. Kept'
  BY <1>1, <1>3, <1>4, <1>5, MoveKeeps
<1>7. order' \in [Asked -> [Calls -> Orders]]
  BY <1>1 DEF DepositCall, IInv, TypeOK, Orders
<1>8. call' \in [Ops -> [Calls -> Call]]
  BY <1>1, <1>3, GoesOne DEF IInv
<1>9. TypeOK'
  BY <1>4, <1>7, <1>8 DEF IInv, TypeOK
<1>. QED BY <1>6, <1>9 DEF IInv, Kept

\* Reading the account takes nothing.
LEMMA ReadKeeps ==
  ASSUME IInv, NEW o \in Debits, NEW k \in Calls, DebitRead(o, k)
  PROVE  IInv'
<1>1. o \in Ops /\ o \notin Deposits
  BY DEF Ops, Debits
<1>2. call[o][k] \in Call /\ call[o][k].at = "idle"
  BY <1>1 DEF IInv, TypeOK, DebitRead, MaySend
<1>3. call[o][k].seen = Absent /\ ~call[o][k].locks
  BY <1>1, <1>2 DEF IInv, CallsInv
<1>4. PICK c \in Call : c.at = "read" /\ c.seen = Absent /\ ~c.locks /\ Goes(o, k, c)
  BY <1>2, <1>3 DEF DebitRead, Call
<1>5. UNCHANGED <<frozen, balance, row, credits, ref, order, inbox, batch, verdict>>
  BY DEF DebitRead, ledger, checkerVars
<1>6. Kept'
  BY <1>1, <1>4, <1>5, MoveKeeps
<1>7. call' \in [Ops -> [Calls -> Call]]
  BY <1>1, <1>4, GoesOne DEF IInv
<1>8. TypeOK'
  BY <1>5, <1>7 DEF IInv, TypeOK
<1>. QED BY <1>6, <1>8 DEF IInv, Kept

\* A call to the gateway takes the lock when it is free, or none.
LEMMA WithdrawKeeps ==
  ASSUME IInv, NEW w \in Withdrawals, NEW k \in Calls,
         WithdrawCall(w, k) \/ WithdrawReplay(w, k)
  PROVE  IInv'
<1>1. w \in Ops /\ w \in Asked /\ w \in Debits /\ w \notin Deposits
  BY DEF Ops, Asked, Debits
<1>2. call[w][k] \in Call /\ call[w][k].at = "read"
  BY <1>1 DEF IInv, TypeOK, WithdrawCall, WithdrawReplay
<1>3. call[w][k].seen = Absent /\ ~call[w][k].locks
  BY <1>1, <1>2 DEF IInv, CallsInv
<1>4. row[w] \in Status \union {Absent}
  BY <1>1 DEF IInv, TypeOK
<1>5. PICK c \in Call :
        /\ c.at = "calling" /\ Goes(w, k, c)
        /\ c.seen = Absent => c.locks /\ c.active /\ balance[owner[w]] >= size[w]
        /\ c.locks => Free(owner[w])
  <2>1. CASE WithdrawCall(w, k)
    <3>1. Free(owner[w]) /\ call[w][k].active /\ balance[owner[w]] >= size[w]
      BY <2>1 DEF WithdrawCall, Debitable
    <3>2. Goes(w, k, [call[w][k] EXCEPT !.at = "calling", !.seen = row[w], !.locks = TRUE])
      BY <2>1 DEF WithdrawCall
    <3>. QED BY <1>2, <1>4, <3>1, <3>2 DEF Call
  <2>2. CASE WithdrawReplay(w, k)
    <3>1. row[w] # Absent
      BY <2>2 DEF WithdrawReplay
    <3>2. Goes(w, k, [call[w][k] EXCEPT !.at = "calling", !.seen = row[w]])
      BY <2>2 DEF WithdrawReplay
    <3>3. ASSUME NEW c, c = [call[w][k] EXCEPT !.at = "calling", !.seen = row[w]]
          PROVE  c \in Call /\ c.at = "calling" /\ c.seen = row[w] /\ ~c.locks
      BY <1>2, <1>3, <1>4, <3>3 DEF Call
    <3>. QED BY <3>1, <3>2, <3>3
  <2>. QED BY <2>1, <2>2
<1>6. UNCHANGED <<frozen, balance, row, credits, ref, inbox, batch, verdict>>
  BY DEF WithdrawCall, WithdrawReplay, ledger, checkerVars
<1>7. Kept'
  BY <1>1, <1>5, <1>6, MoveKeeps
<1>8. order' \in [Asked -> [Calls -> Orders]]
  <2>1. order' = [order EXCEPT ![w][k] = "open"]
    BY DEF WithdrawCall, WithdrawReplay
  <2>. QED BY <1>1, <2>1 DEF IInv, TypeOK, Orders
<1>9. call' \in [Ops -> [Calls -> Call]]
  BY <1>1, <1>5, GoesOne DEF IInv
<1>10. TypeOK'
  BY <1>6, <1>8, <1>9 DEF IInv, TypeOK
<1>. QED BY <1>7, <1>10 DEF IInv, Kept

\* A transfer takes what is there, from an account nobody has locked.
LEMMA TransferKeeps ==
  ASSUME IInv, NEW t \in Transfers, NEW k \in Calls, TransferPost(t, k)
  PROVE  IInv'
<1>1. t \in Ops /\ t \in Debits /\ t \notin Deposits /\ t \notin Asked
  BY DEF Ops, Asked, Debits
<1>2. /\ owner[t] \in Accounts /\ payee[t] \in Accounts /\ size[t] \in Nat
      /\ payee[t] # owner[t]
  BY <1>1
<1>3. /\ Free(owner[t]) /\ balance[owner[t]] >= size[t]
      /\ Ends(t, k)
      /\ UNCHANGED <<frozen, credits, ref, order, inbox, batch, verdict>>
  BY DEF TransferPost, Debitable, checkerVars
<1>4. /\ row' = [row EXCEPT ![t] = "completed"] \/ row' = row
      /\ \/ balance' = [balance EXCEPT ![owner[t]] = @ - size[t], ![payee[t]] = @ + size[t]]
         \/ balance' = balance
  BY DEF TransferPost
<1>5. balance' \in [Accounts -> Int]
  BY <1>2, <1>4 DEF IInv, TypeOK
<1>6. \A a \in Accounts : balance[a] \in Int
  BY DEF IInv, TypeOK
<1>7. \A a \in Accounts : a # owner[t] => balance'[a] >= balance[a]
  BY <1>2, <1>4, <1>6 DEF IInv, TypeOK
<1>8. balance'[owner[t]] >= 0
  <2>1. balance[owner[t]] >= 0
    BY <1>2 DEF IInv, NoOverdraft
  <2>2. balance'[owner[t]] = balance[owner[t]] - size[t] \/ balance' = balance
    BY <1>2, <1>4 DEF IInv, TypeOK
  <2>. QED BY <1>2, <1>3, <1>6, <2>1, <2>2
<1>9. \A p \in Debits, j \in Calls : owner[p] = owner[t] => ~call[p][j].locks
  BY <1>3 DEF Free
<1>10. CallsInv' /\ OneLock' /\ Reserved' /\ NoOverdraft'
  BY <1>1, <1>3, <1>5, <1>7, <1>8, <1>9, EndKeeps
<1>11. call' \in [Ops -> [Calls -> Call]]
  BY <1>1, <1>3, EndsOne DEF IInv
<1>12. /\ row' \in [Ops -> Status \union {Absent}]
       /\ \A o \in Asked : row'[o] = row[o]
  BY <1>1, <1>4 DEF IInv, TypeOK, Status, Final, Asked, Ops
<1>13. TypeOK'
  BY <1>3, <1>5, <1>11, <1>12 DEF IInv, TypeOK
<1>14. RowsInv'
  <2>1. \A d \in Deposits : d \in Asked /\ d \in Ops /\ d # t
    BY <1>1 DEF Asked, Ops
  <2>2. \A d \in Deposits, j \in Calls : call'[d][j] = call[d][j]
    BY <1>1, <1>3, <2>1, EndsOne DEF IInv
  <2>3. \A c \in Checkers : \A b \in batch[c] : b.op \in Asked
    BY DEF IInv, TypeOK, Pending
  <2>. QED BY <1>3, <1>12, <2>1, <2>2, <2>3 DEF IInv, RowsInv
<1>. QED BY <1>10, <1>13, <1>14 DEF IInv

\* A request that ends without a commit gives its lock back and nothing else.
LEMMA NothingKeeps ==
  ASSUME IInv, NEW o \in Ops, NEW k \in Calls, Ends(o, k),
         UNCHANGED <<frozen, balance, row, credits, ref, order, inbox, batch, verdict>>
  PROVE  IInv'
<1>1. balance' \in [Accounts -> Int] /\ \A a \in Accounts : balance'[a] >= balance[a]
  BY DEF IInv, TypeOK
<1>2. CallsInv' /\ OneLock' /\ Reserved' /\ NoOverdraft'
  BY <1>1, EndKeeps
<1>3. /\ call' \in [Ops -> [Calls -> Call]] /\ call'[o][k].at = "done"
      /\ \A p \in Ops, j \in Calls : p # o \/ j # k => call'[p][j] = call[p][j]
  BY EndsOne DEF IInv
<1>4. TypeOK'
  BY <1>3 DEF IInv, TypeOK
<1>5. RowsInv'
  <2>1. Deposits \subseteq Ops
    BY DEF Ops
  <2>. QED BY <1>3, <2>1 DEF IInv, RowsInv
<1>. QED BY <1>2, <1>4, <1>5 DEF IInv

\* An answered call commits: what it takes is what its lock kept for it.
LEMMA AnsweredKeeps ==
  ASSUME IInv, NEW o \in Asked, NEW k \in Calls, Answered(o, k)
  PROVE  IInv'
<1>1. o \in Ops
  BY DEF Asked, Ops
<1>2. PICK report : Settle(o, call[o][k].seen, report)
  BY DEF Answered
<1>3. /\ call[o][k].at = "calling" /\ Ends(o, k)
      /\ ref' = [ref EXCEPT ![o] = k]
      /\ UNCHANGED <<frozen, order, inbox, batch, verdict>>
  BY DEF Answered, checkerVars
<1>4. /\ balance' \in [Accounts -> Int]
      /\ row' \in [Ops -> Status \union {Absent}]
      /\ credits' \in [Asked -> Nat]
      /\ \A p \in Ops : row[p] # Absent => row'[p] # Absent
      /\ \A p \in Ops : p # o => row'[p] = row[p]
      /\ \A a \in Accounts :
           \/ balance'[a] >= balance[a]
           \/ o \in Withdrawals /\ call[o][k].seen = Absent /\ a = owner[o]
                /\ balance'[a] >= balance[a] - size[o]
  BY <1>2, SettleKeeps DEF IInv
<1>5. ASSUME o \in Withdrawals, call[o][k].seen = Absent
      PROVE  /\ balance[owner[o]] - size[o] >= 0
             /\ \A p \in Debits, j \in Calls :
                  owner[p] = owner[o] /\ call[p][j].locks => p = o /\ j = k
  <2>1. o \in Debits /\ call[o][k].locks
    BY <1>3, <1>5 DEF IInv, CallsInv, Debits
  <2>2. balance[owner[o]] >= size[o]
    BY <1>3, <1>5 DEF IInv, Reserved
  <2>3. balance[owner[o]] \in Int /\ size[o] \in Nat
    BY <1>1 DEF IInv, TypeOK
  <2>. QED BY <2>1, <2>2, <2>3 DEF IInv, OneLock
<1>6. \A a \in Accounts :
        \/ balance'[a] >= balance[a]
        \/ /\ balance'[a] >= 0
           /\ \A p \in Debits, j \in Calls :
                owner[p] = a /\ call[p][j].locks => p = o /\ j = k
  <2>1. SUFFICES ASSUME NEW a \in Accounts, ~(balance'[a] >= balance[a])
                 PROVE  /\ balance'[a] >= 0
                        /\ \A p \in Debits, j \in Calls :
                             owner[p] = a /\ call[p][j].locks => p = o /\ j = k
    OBVIOUS
  <2>2. /\ o \in Withdrawals /\ call[o][k].seen = Absent /\ a = owner[o]
        /\ balance'[a] >= balance[a] - size[o]
    BY <1>4, <2>1
  <2>3. balance[a] \in Int /\ balance'[a] \in Int /\ size[o] \in Nat
    BY <1>1, <1>4 DEF IInv, TypeOK
  <2>. QED BY <1>5, <2>2, <2>3
<1>7. CallsInv' /\ OneLock' /\ Reserved' /\ NoOverdraft'
  BY <1>1, <1>3, <1>4, <1>6, EndKeeps
<1>8. /\ call' \in [Ops -> [Calls -> Call]] /\ call'[o][k].at = "done"
      /\ \A p \in Ops, j \in Calls : p # o \/ j # k => call'[p][j] = call[p][j]
  BY <1>1, <1>3, EndsOne DEF IInv
<1>9. /\ ref' \in [Asked -> Calls \union {NoCall}]
      /\ \A p \in Asked : row'[p] # Absent => ref'[p] \in Calls
  BY <1>3, <1>4 DEF IInv, TypeOK, Asked, Ops
<1>10. TypeOK'
  BY <1>3, <1>4, <1>8, <1>9 DEF IInv, TypeOK
<1>11. RowsInv'
  <2>1. \A d \in Deposits : d \in Ops
    BY DEF Ops
  <2>2. \A c \in Checkers : \A b \in batch[c] : b.op \in Ops
    BY DEF IInv, TypeOK, Pending, Asked, Ops
  <2>3. \A j \in Calls : o \in Deposits => call'[o][j].at # "calling"
    BY <1>3, <1>8, <2>1 DEF IInv, RowsInv
  <2>4. \A d \in Deposits, e \in Events : inbox'[d][e] \in Status => row'[d] # Absent
    BY <1>3, <1>4, <2>1 DEF IInv, RowsInv
  <2>5. \A c \in Checkers : \A b \in batch'[c] : row'[b.op] # Absent
    BY <1>3, <1>4, <2>2 DEF IInv, RowsInv
  <2>6. \A d \in Deposits, i \in Calls : call'[d][i].at = "calling" =>
          d # o /\ row'[d] = row[d] /\ \A j \in Calls : call'[d][j] = call[d][j]
    BY <1>4, <1>8, <2>1, <2>3
  <2>7. \A d \in Deposits, i \in Calls : call'[d][i].at = "calling" =>
          row'[d] = Absent /\ \A j \in Calls : call'[d][j].at = "calling" => j = i
    BY <2>6 DEF IInv, RowsInv
  <2>. QED BY <2>4, <2>5, <2>7 DEF RowsInv
<1>. QED BY <1>7, <1>10, <1>11 DEF IInv

-----------------------------------------------------------------------------
(* Steps of everybody else *)

\* A commit that only gives money keeps the invariant.
LEMMA GivingKeeps ==
  ASSUME IInv, NEW o \in Asked, NEW seen, NEW report, Settle(o, seen, report),
         seen # Absent, row[o] # Absent,
         UNCHANGED <<frozen, ref, call, order>>,
         inbox' \in [Deposits -> [Events -> Status \union {"none", "processed"}]],
         \A d \in Deposits, e \in Events : inbox'[d][e] \in Status => row[d] # Absent,
         batch' \in [Checkers -> SUBSET Pending],
         verdict' \in [Checkers -> SUBSET [about : Pending, report : Reports]],
         \A c \in Checkers : \A v \in verdict'[c] : v.about \in batch'[c],
         \A c \in Checkers : batch'[c] \subseteq batch[c]
  PROVE  IInv'
<1>1. /\ balance' \in [Accounts -> Int]
      /\ row' \in [Ops -> Status \union {Absent}]
      /\ credits' \in [Asked -> Nat]
      /\ \A p \in Ops : row[p] # Absent => row'[p] # Absent
      /\ \A p \in Ops : p # o => row'[p] = row[p]
      /\ \A a \in Accounts : balance'[a] >= balance[a]
  BY SettleKeeps DEF IInv
<1>2. Deposits \subseteq Ops /\ Debits \subseteq Ops /\ Asked \subseteq Ops /\ Withdrawals \subseteq Debits
  BY DEF Asked, Ops, Debits
<1>3. \A p \in Asked : row'[p] # Absent => row[p] # Absent
  BY <1>1, <1>2
<1>4. TypeOK'
  BY <1>1, <1>3 DEF IInv, TypeOK
<1>5. CallsInv' /\ OneLock'
  BY DEF IInv, CallsInv, OneLock
<1>6. \A a \in Accounts : balance[a] \in Int /\ balance'[a] \in Int
  BY <1>1 DEF IInv, TypeOK
<1>7. NoOverdraft'
  BY <1>1, <1>6 DEF IInv, NoOverdraft
<1>8. Reserved'
  <2>1. \A w \in Withdrawals : owner[w] \in Accounts /\ size[w] \in Nat
    BY <1>2
  <2>. QED BY <1>1, <1>6, <2>1 DEF IInv, Reserved
<1>9. RowsInv'
  <2>1. \A c \in Checkers : \A b \in batch'[c] : b.op \in Ops /\ row[b.op] # Absent
    BY <1>2 DEF IInv, TypeOK, RowsInv, Pending
  <2>2. \A d \in Deposits : row[d] = Absent => row'[d] = Absent
    BY <1>1, <1>2
  <2>. QED BY <1>1, <1>2, <2>1, <2>2 DEF IInv, RowsInv
<1>. QED BY <1>4, <1>5, <1>7, <1>8, <1>9 DEF IInv

\* So does a step that touches neither the ledger nor the requests.
LEMMA OutsideKeeps ==
  ASSUME IInv, UNCHANGED <<balance, row, credits, ref, call>>,
         frozen' \subseteq Accounts,
         order' \in [Asked -> [Calls -> Orders]],
         inbox' \in [Deposits -> [Events -> Status \union {"none", "processed"}]],
         \A d \in Deposits, e \in Events : inbox'[d][e] \in Status => row[d] # Absent,
         batch' \in [Checkers -> SUBSET Pending],
         verdict' \in [Checkers -> SUBSET [about : Pending, report : Reports]],
         \A c \in Checkers : \A v \in verdict'[c] : v.about \in batch'[c],
         \A c \in Checkers : \A b \in batch'[c] : row[b.op] # Absent
  PROVE  IInv'
<1>1. TypeOK'
  BY DEF IInv, TypeOK
<1>2. CallsInv' /\ OneLock' /\ Reserved' /\ NoOverdraft'
  BY DEF IInv, CallsInv, OneLock, Reserved, NoOverdraft
<1>3. RowsInv'
  BY DEF IInv, RowsInv
<1>. QED BY <1>1, <1>2, <1>3 DEF IInv

\* The provider and the suspension of users.
LEMMA WorldKeeps ==
  ASSUME IInv, \/ \E o \in Asked, k \in Calls : ProviderSettles(o, k)
               \/ \E a \in Suspendable : Freeze(a)
  PROVE  IInv'
<1>1. ASSUME NEW o \in Asked, NEW k \in Calls, ProviderSettles(o, k)
      PROVE  IInv'
  <2>1. PICK s \in Orders : order' = [order EXCEPT ![o][k] = s]
    BY <1>1 DEF ProviderSettles, Orders
  <2>2. order' \in [Asked -> [Calls -> Orders]]
    BY <2>1 DEF IInv, TypeOK
  <2>3. UNCHANGED <<frozen, balance, row, credits, ref, call, inbox, batch, verdict>>
    BY <1>1 DEF ProviderSettles, ledger, checkerVars
  <2>. QED BY <2>2, <2>3, OutsideKeeps DEF IInv, TypeOK, RowsInv
<1>2. ASSUME NEW a \in Suspendable, Freeze(a)
      PROVE  IInv'
  <2>1. UNCHANGED <<balance, row, credits, ref, call, order, inbox, batch, verdict>>
    BY <1>2 DEF Freeze, ledger, checkerVars
  <2>2. frozen' \subseteq Accounts
    BY <1>2 DEF Freeze, IInv, TypeOK
  <2>. QED BY <2>1, <2>2, OutsideKeeps DEF IInv, TypeOK, RowsInv
<1>. QED BY <1>1, <1>2

\* The webhook.
LEMMA WebhookKeeps ==
  ASSUME IInv, NEW d \in Deposits, Webhook(d)
  PROVE  IInv'
<1>0. d \in Asked /\ d \in Ops /\ Absent \notin Status
  BY DEF Asked, Ops, Absent, Status, Final
<1>1. PICK e \in Events : WebhookRead(d, e) \/ WebhookApply(d, e) \/ WebhookLost(d, e)
  BY DEF Webhook
<1>2. CASE WebhookRead(d, e)
  <2>1. row[d] # Absent /\ inbox' = [inbox EXCEPT ![d][e] = row[d]]
    BY <1>2 DEF WebhookRead
  <2>2. row[d] \in Status
    BY <1>0, <2>1 DEF IInv, TypeOK
  <2>3. UNCHANGED <<frozen, balance, row, credits, ref, call, order, batch, verdict>>
    BY <1>2 DEF WebhookRead, ledger, checkerVars
  <2>4. inbox' \in [Deposits -> [Events -> Status \union {"none", "processed"}]]
    BY <2>1, <2>2 DEF IInv, TypeOK
  <2>5. \A p \in Deposits, f \in Events : inbox'[p][f] \in Status => row[p] # Absent
    BY <2>1 DEF IInv, TypeOK, RowsInv
  <2>. QED BY <2>3, <2>4, <2>5, OutsideKeeps DEF IInv, TypeOK, RowsInv
<1>3. CASE WebhookApply(d, e)
  <2>1. PICK report : Settle(d, inbox[d][e], report)
    BY <1>3 DEF WebhookApply
  <2>2. /\ inbox[d][e] \in Status
        /\ inbox' = [inbox EXCEPT ![d][e] = "processed"]
        /\ UNCHANGED <<frozen, ref, call, order, batch, verdict>>
    BY <1>3 DEF WebhookApply, checkerVars
  <2>3. inbox' \in [Deposits -> [Events -> Status \union {"none", "processed"}]]
    BY <2>2 DEF IInv, TypeOK
  <2>4. \A p \in Deposits, f \in Events : inbox'[p][f] \in Status => row[p] # Absent
    BY <2>2 DEF IInv, TypeOK, RowsInv, Status, Final
  <2>5. row[d] # Absent /\ inbox[d][e] # Absent
    BY <1>0, <2>2 DEF IInv, RowsInv
  <2>. QED BY <1>0, <2>1, <2>2, <2>3, <2>4, <2>5, GivingKeeps DEF IInv, TypeOK
<1>4. CASE WebhookLost(d, e)
  <2>1. UNCHANGED <<frozen, balance, row, credits, ref, call, order, batch, verdict>>
    BY <1>4 DEF WebhookLost, ledger, checkerVars
  <2>2. inbox' = [inbox EXCEPT ![d][e] = "none"]
    BY <1>4 DEF WebhookLost
  <2>3. inbox' \in [Deposits -> [Events -> Status \union {"none", "processed"}]]
    BY <2>2 DEF IInv, TypeOK
  <2>4. \A p \in Deposits, f \in Events : inbox'[p][f] \in Status => row[p] # Absent
    BY <2>2 DEF IInv, TypeOK, RowsInv, Status, Final
  <2>. QED BY <2>1, <2>3, <2>4, OutsideKeeps DEF IInv, TypeOK, RowsInv
<1>. QED BY <1>1, <1>2, <1>3, <1>4

\* The sweep and reconciliations by hand.
LEMMA CheckKeeps ==
  ASSUME IInv, NEW c \in Checkers, Check(c)
  PROVE  IInv'
<1>0. Absent \notin Status /\ Asked \subseteq Ops /\ "pending" \in Status
  BY DEF Asked, Ops, Absent, Status, Final
<1>1. ASSUME NEW S \in SUBSET Asked, CheckStart(c, S)
      PROVE  IInv'
  <2>1. /\ \A o \in S : row[o] = "pending"
        /\ batch' = [batch EXCEPT ![c] = {[op |-> o, ref |-> ref[o]] : o \in S}]
        /\ batch[c] = {}
        /\ UNCHANGED <<frozen, balance, row, credits, ref, call, order, inbox, verdict>>
    BY <1>1 DEF CheckStart, Reconcilable, ledger
  <2>2. \A o \in S : row[o] # Absent /\ ref[o] \in Calls
    BY <1>0, <2>1 DEF IInv, TypeOK
  <2>3. batch'[c] = {[op |-> o, ref |-> ref[o]] : o \in S}
    BY <2>1 DEF IInv, TypeOK
  <2>4. batch'[c] \in SUBSET Pending /\ \A b \in batch'[c] : row[b.op] # Absent
    BY <2>2, <2>3 DEF Pending
  <2>5. \A e \in Checkers : e # c => batch'[e] = batch[e]
    BY <2>1 DEF IInv, TypeOK
  <2>6. batch' \in [Checkers -> SUBSET Pending]
    BY <2>1, <2>3, <2>4 DEF IInv, TypeOK
  <2>7. \A e \in Checkers : \A v \in verdict[e] : v.about \in batch'[e]
    BY <2>1, <2>5 DEF IInv, TypeOK
  <2>8. \A e \in Checkers : \A b \in batch'[e] : row[b.op] # Absent
    BY <2>4, <2>5 DEF IInv, RowsInv
  <2>. QED BY <2>1, <2>6, <2>7, <2>8, OutsideKeeps DEF IInv, TypeOK, RowsInv
<1>2. ASSUME NEW b \in batch[c], CheckVerify(c, b)
      PROVE  IInv'
  <2>1. PICK report \in Verifiable(b.op, b.ref) :
          verdict' = [verdict EXCEPT ![c] = {[about |-> b, report |-> report]}]
    BY <1>2 DEF CheckVerify
  <2>2. report \in Reports /\ b \in Pending
    BY <2>1 DEF Verifiable, Reports, IInv, TypeOK
  <2>3. UNCHANGED <<frozen, balance, row, credits, ref, call, order, inbox, batch>>
    BY <1>2 DEF CheckVerify, ledger
  <2>4. verdict' \in [Checkers -> SUBSET [about : Pending, report : Reports]]
    BY <2>1, <2>2 DEF IInv, TypeOK
  <2>5. \A e \in Checkers : \A v \in verdict'[e] : v.about \in batch[e]
    BY <2>1 DEF IInv, TypeOK
  <2>. QED BY <2>3, <2>4, <2>5, OutsideKeeps DEF IInv, TypeOK, RowsInv
<1>3. ASSUME NEW v \in verdict[c], CheckApply(c, v)
      PROVE  IInv'
  <2>1. /\ Settle(v.about.op, "pending", v.report)
        /\ batch' = [batch EXCEPT ![c] = @ \ {v.about}]
        /\ verdict' = [verdict EXCEPT ![c] = {}]
        /\ UNCHANGED <<frozen, ref, call, order, inbox>>
    BY <1>3 DEF CheckApply
  <2>2. v.about \in batch[c] /\ v.about \in Pending
    BY DEF IInv, TypeOK
  <2>3. v.about.op \in Asked /\ row[v.about.op] # Absent
    BY <2>2 DEF IInv, RowsInv, Pending
  <2>4. /\ batch' \in [Checkers -> SUBSET Pending]
        /\ \A e \in Checkers : batch'[e] \subseteq batch[e]
    BY <2>1 DEF IInv, TypeOK
  <2>5. /\ verdict' \in [Checkers -> SUBSET [about : Pending, report : Reports]]
        /\ \A e \in Checkers : \A u \in verdict'[e] : u.about \in batch'[e]
    BY <2>1 DEF IInv, TypeOK
  <2>6. "pending" # Absent
    BY DEF Absent
  <2>. QED BY <2>1, <2>3, <2>4, <2>5, <2>6, GivingKeeps DEF IInv, TypeOK, RowsInv
<1>4. CASE CheckStops(c)
  <2>1. /\ batch' = [batch EXCEPT ![c] = {}] /\ verdict' = [verdict EXCEPT ![c] = {}]
        /\ UNCHANGED <<frozen, balance, row, credits, ref, call, order, inbox>>
    BY <1>4 DEF CheckStops, ledger
  <2>2. /\ batch' \in [Checkers -> SUBSET Pending]
        /\ verdict' \in [Checkers -> SUBSET [about : Pending, report : Reports]]
        /\ \A e \in Checkers : \A u \in verdict'[e] : u.about \in batch'[e]
        /\ \A e \in Checkers : \A b \in batch'[e] : row[b.op] # Absent
    BY <2>1 DEF IInv, TypeOK, RowsInv
  <2>. QED BY <2>1, <2>2, OutsideKeeps DEF IInv, TypeOK, RowsInv
<1>. QED BY <1>1, <1>2, <1>3, <1>4 DEF Check

\* All that a request does.
LEMMA RequestKeeps ==
  ASSUME IInv, NEW k \in Calls, Request(k)
  PROVE  IInv'
<1>1. Debits \subseteq Ops /\ Asked \subseteq Ops
  BY DEF Debits, Asked, Ops
<1>2. ASSUME NEW o \in Debits, DebitRefused(o, k)
      PROVE  IInv'
  BY <1>1, <1>2, NothingKeeps DEF DebitRefused, ledger, checkerVars
<1>3. ASSUME NEW o \in Asked, RolledBack(o, k)
      PROVE  IInv'
  BY <1>1, <1>3, NothingKeeps DEF RolledBack, ledger, checkerVars
<1>. QED BY <1>2, <1>3, DepositKeeps, ReadKeeps, WithdrawKeeps, TransferKeeps, AnsweredKeeps
     DEF Request

-----------------------------------------------------------------------------
(* Theorems *)

LEMMA InitHolds == Init => IInv
<1>. SUFFICES ASSUME Init PROVE IInv
  OBVIOUS
<1>0. Deposits \subseteq Asked /\ Withdrawals \subseteq Debits /\ Asked \subseteq Ops
      /\ Debits \subseteq Ops
  BY DEF Asked, Debits, Ops
<1>1. Fresh \in Call /\ Fresh.at = "idle" /\ Fresh.seen = Absent /\ ~Fresh.locks
  BY DEF Fresh, Call, Absent
<1>2. call \in [Ops -> [Calls -> Call]]
      /\ \A o \in Ops, k \in Calls : call[o][k] = Fresh
  BY <1>1 DEF Init
<1>3. TypeOK
  BY <1>0, <1>2 DEF Init, TypeOK, Orders
<1>4. CallsInv /\ OneLock /\ Reserved
  BY <1>0, <1>1, <1>2 DEF CallsInv, OneLock, Reserved
<1>5. RowsInv
  BY <1>0, <1>1, <1>2 DEF Init, RowsInv, Status, Final
<1>6. NoOverdraft
  BY DEF Init, NoOverdraft
<1>. QED BY <1>3, <1>4, <1>5, <1>6 DEF IInv

LEMMA StepHolds == IInv /\ [Next]_vars => IInv'
<1>. SUFFICES ASSUME IInv, [Next]_vars PROVE IInv'
  OBVIOUS
<1>1. CASE UNCHANGED vars
  BY <1>1 DEF vars, ledger, checkerVars, IInv, TypeOK, CallsInv, OneLock, Reserved, RowsInv,
              NoOverdraft
<1>2. CASE Next
  BY <1>2, RequestKeeps, WorldKeeps, WebhookKeeps, CheckKeeps DEF Next
<1>. QED BY <1>1, <1>2

\* The locks, the money they keep and the rows that exist are as they should be.
THEOREM Safe == Spec => []IInv
<1>. QED BY InitHolds, StepHolds, PTL DEF Spec

\* Every variable stays in its domain.
THEOREM TypeCorrect == Spec => []TypeOK
<1>1. IInv => TypeOK
  BY DEF IInv
<1>. QED BY <1>1, Safe, PTL

\* No debit ever takes more than there is: the money a creating call takes was
\* there when it took the account's lock, and whoever else takes any needs that lock.
THEOREM NeverOverdrawn == Spec => []NoOverdraft
<1>1. IInv => NoOverdraft
  BY DEF IInv
<1>. QED BY <1>1, Safe, PTL

\* A withdrawal that waits for its gateway has its money and the only lock.
THEOREM MoneyWaits == Spec => []ReservedIsThere
<1>1. ASSUME IInv PROVE ReservedIsThere
  <2>. SUFFICES ASSUME NEW w \in Withdrawals, NEW k \in Calls,
                       call[w][k].at = "calling", call[w][k].seen = Absent
                PROVE  /\ balance[owner[w]] >= size[w]
                       /\ \A o \in Debits, j \in Calls :
                            owner[o] = owner[w] /\ call[o][j].locks => o = w /\ j = k
    BY DEF ReservedIsThere
  <2>1. w \in Debits
    BY DEF Debits
  <2>2. call[w][k].locks
    BY <1>1, <2>1 DEF IInv, CallsInv
  <2>. QED BY <1>1, <2>1, <2>2 DEF IInv, OneLock, Reserved
<1>. QED BY <1>1, Safe, PTL

-----------------------------------------------------------------------------
(* Suspended users *)

\* Money leaves an account only by a request that read it as active and is under way.
LEMMA OnlyActiveTakes ==
  ASSUME IInv, Next, NEW a \in Accounts, ~(balance'[a] >= balance[a])
  PROVE  \E o \in Debits, k \in Calls :
           owner[o] = a /\ call[o][k].at \in {"read", "calling"} /\ call[o][k].active
<1>0. Debits \subseteq Ops /\ Asked \subseteq Ops /\ Deposits \subseteq Asked
      /\ Withdrawals \subseteq Debits /\ Transfers \subseteq Debits
      /\ "pending" # Absent /\ Absent \notin Status
  BY DEF Debits, Asked, Ops, Absent, Status, Final
<1>1. \A b \in Accounts : balance[b] \in Int
  BY DEF IInv, TypeOK
<1>2. balance' # balance
  BY <1>1
<1>3. CASE \E k \in Calls : Request(k)
  <2>1. PICK k \in Calls : \/ \E t \in Transfers : TransferPost(t, k)
                           \/ \E o \in Asked : Answered(o, k)
    BY <1>2, <1>3 DEF Request, DepositCall, DebitRead, DebitRefused, WithdrawCall, WithdrawReplay,
                      RolledBack, ledger
  <2>2. ASSUME NEW t \in Transfers, TransferPost(t, k)
        PROVE  owner[t] = a /\ call[t][k].at \in {"read", "calling"} /\ call[t][k].active
    <3>1. call[t][k].at = "read" /\ call[t][k].active
      BY <2>2 DEF TransferPost, Debitable
    <3>2. balance' = [balance EXCEPT ![owner[t]] = @ - size[t], ![payee[t]] = @ + size[t]]
      BY <1>2, <2>2 DEF TransferPost
    <3>3. owner[t] \in Accounts /\ payee[t] \in Accounts /\ size[t] \in Nat
      BY DEF Ops
    <3>. QED BY <1>1, <3>1, <3>2, <3>3 DEF IInv, TypeOK
  <2>3. ASSUME NEW o \in Asked, Answered(o, k)
        PROVE  o \in Debits /\ owner[o] = a /\ call[o][k].at \in {"read", "calling"}
               /\ call[o][k].active
    <3>1. PICK report : Settle(o, call[o][k].seen, report)
      BY <2>3 DEF Answered
    <3>2. o \in Withdrawals /\ call[o][k].seen = Absent /\ a = owner[o]
      BY <3>1, SettleKeeps DEF IInv
    <3>3. call[o][k].at = "calling"
      BY <2>3 DEF Answered
    <3>. QED BY <1>0, <3>2, <3>3 DEF IInv, CallsInv
  <2>. QED BY <1>0, <2>1, <2>2, <2>3
<1>4. CASE \E d \in Deposits : Webhook(d)
  <2>1. PICK d \in Deposits, e \in Events : WebhookApply(d, e)
    BY <1>2, <1>4 DEF Webhook, WebhookRead, WebhookLost, ledger
  <2>2. PICK report : Settle(d, inbox[d][e], report)
    BY <2>1 DEF WebhookApply
  <2>3. inbox[d][e] # Absent
    BY <1>0, <2>1 DEF WebhookApply
  <2>. QED BY <1>0, <2>2, <2>3, SettleKeeps DEF IInv
<1>5. CASE \E c \in Checkers : Check(c)
  <2>1. PICK c \in Checkers : \E v \in verdict[c] : CheckApply(c, v)
    BY <1>2, <1>5 DEF Check, CheckStart, CheckVerify, CheckStops, ledger
  <2>2. PICK v \in verdict[c] : Settle(v.about.op, "pending", v.report) /\ v.about.op \in Asked
    BY <2>1 DEF CheckApply, IInv, TypeOK, Pending
  <2>. QED BY <1>0, <2>2, SettleKeeps DEF IInv
<1>. QED BY <1>2, <1>3, <1>4, <1>5 DEF Next, ProviderSettles, Freeze, ledger

\* Once an account is frozen, and the requests that had read it before are over,
\* nothing is taken from it.
THEOREM FrozenStays == Spec => FrozenKeeps
<1>1. ASSUME IInv, [Next]_vars
      PROVE  [\A a \in frozen :
                (\A o \in Debits, k \in Calls :
                   owner[o] = a => ~(call[o][k].at \in {"read", "calling"} /\ call[o][k].active))
                  => balance'[a] >= balance[a]]_vars
  <2>1. frozen \subseteq Accounts
    BY <1>1 DEF IInv, TypeOK
  <2>. QED BY <1>1, <2>1, OnlyActiveTakes
<1>. QED BY <1>1, Safe, PTL DEF Spec, FrozenKeeps

-----------------------------------------------------------------------------
(* Deposits *)

Collected(d) ==
  order[d][ref[d]] = "paid" \/ (order[d][ref[d]] = "odd" /\ d \in Unstated)
NotPaid(d) == order[d][ref[d]] = "refused" \/ d \in Abandonable

\* Of a deposit that one process handles at a time, each reads the row as it is and
\* leaves nobody else with what it read before.
Once(d) ==
  /\ credits[d] \in {0, 1}
  /\ row[d] # "completed" => credits[d] = 0
  /\ \A e \in Events : inbox[d][e] \in Status =>
       /\ inbox[d][e] = row[d]
       /\ \A f \in Events : inbox[d][f] \in Status => f = e
       /\ \A c \in Checkers : \A b \in batch[c] : b.op # d
  /\ \A c \in Checkers : \A b \in batch[c] : b.op = d =>
       /\ row[d] = "pending"
       /\ \A g \in Checkers : \A a \in batch[g] : a.op = d => g = c /\ a = b

\* What a committed deposit, the webhook and the checkers believe of it is so at
\* the provider; they all speak of the order its row names.
Honest(d) ==
  /\ row[d] = Absent => credits[d] = 0
  /\ credits[d] > 0 => Collected(d)
  /\ row[d] = "failed" => NotPaid(d)
  /\ inbox[d]["failed"] \in Status => NotPaid(d)
  /\ inbox[d]["success"] \in Status => order[d][ref[d]] \in {"paid", "odd"}
  /\ \A c \in Checkers : \A b \in batch[c] : b.op = d => b.ref = ref[d]
  /\ \A c \in Checkers : \A v \in verdict[c] : v.about.op = d =>
       /\ v.report = "completed" => Collected(d)
       /\ v.report = "failed" => NotPaid(d)
  /\ d \notin Contended => Once(d)

DepositsInv == \A d \in Deposits : Honest(d)

\* A step that leaves a deposit, the webhook and the checkers alone.
LEMMA Steady ==
  ASSUME NEW d \in Deposits, Honest(d), UNCHANGED <<batch, verdict>>,
         row'[d] = row[d], credits'[d] = credits[d], ref'[d] = ref[d],
         order'[d] = order[d], inbox'[d] = inbox[d]
  PROVE  Honest(d)'
BY DEF Honest, Once, Collected, NotPaid

\* A status write believes its report; the first one credits at most once.
LEMMA SettleHonest ==
  ASSUME TypeOK, NEW d \in Deposits, NEW seen, NEW report, Settle(d, seen, report),
         row[d] = Absent => credits[d] = 0
  PROVE  /\ credits'[d] # credits[d] => report = "completed"
         /\ row'[d] = "failed" => row[d] = "failed" \/ report = "failed"
         /\ row'[d] = Absent => credits'[d] = 0
         /\ row[d] # Absent => row'[d] # Absent
         /\ seen \notin {"pending", Absent} => UNCHANGED <<row, credits>>
         /\ credits[d] = 0 => credits'[d] = 0 \/ (credits'[d] = 1 /\ row'[d] = "completed")
<1>1. d \in Asked /\ d \in Ops /\ d \notin Withdrawals
  BY DEF Asked, Ops, Debits
<1>2. StatusAfter(d, report) # Absent /\ (StatusAfter(d, report) = "failed" => report = "failed")
  BY DEF StatusAfter, Absent
<1>3. CASE Writes(seen, report)
  <2>1. row' = [row EXCEPT ![d] = StatusAfter(d, report)]
        /\ credits' = [credits EXCEPT ![d] = IF Credits(d, report) THEN @ + 1 ELSE @]
    BY <1>3 DEF Settle
  <2>2. Credits(d, report) => StatusAfter(d, report) = "completed"
    BY <1>1 DEF Credits, StatusAfter
  <2>3. seen \in {"pending", Absent}
    BY <1>3 DEF Writes
  <2>4. /\ row'[d] = StatusAfter(d, report)
        /\ credits'[d] = IF Credits(d, report) THEN credits[d] + 1 ELSE credits[d]
    BY <1>1, <2>1 DEF TypeOK
  <2>. QED BY <1>1, <1>2, <2>2, <2>3, <2>4 DEF Credits
<1>4. CASE ~Writes(seen, report)
  BY <1>4 DEF Settle, ledger
<1>. QED BY <1>3, <1>4

\* The deposit's own request: nobody else knows the row until it is committed.
LEMMA RequestHonest ==
  ASSUME IInv, NEW d \in Deposits, Honest(d), NEW k \in Calls, DepositCall(d, k) \/ Answered(d, k)
  PROVE  Honest(d)'
<1>0. d \in Asked /\ d \in Ops /\ d \notin Withdrawals
  BY DEF Asked, Ops, Debits
<1>1. row[d] = Absent
  BY DEF DepositCall, Answered, IInv, RowsInv
<1>2. /\ credits[d] = 0
      /\ \A e \in Events : inbox[d][e] \notin Status
      /\ \A c \in Checkers : \A b \in batch[c] : b.op # d
      /\ \A c \in Checkers : \A v \in verdict[c] : v.about.op # d
  BY <1>1 DEF Honest, IInv, TypeOK, RowsInv
<1>3. UNCHANGED <<inbox, batch, verdict>>
  BY DEF DepositCall, Answered, checkerVars
<1>4. CASE DepositCall(d, k)
  <2>1. UNCHANGED <<row, credits>>
    BY <1>4 DEF DepositCall, ledger
  <2>. QED BY <1>1, <1>2, <1>3, <2>1 DEF Honest, Once, Events, Absent
<1>5. CASE Answered(d, k)
  <2>1. PICK report \in Answers(d, k) : Settle(d, call[d][k].seen, report)
    BY <1>5 DEF Answered
  <2>2. ref' = [ref EXCEPT ![d] = k] /\ order' = order
    BY <1>5 DEF Answered
  <2>3. ref'[d] = k
    BY <1>0, <2>2 DEF IInv, TypeOK
  <2>4. /\ report = "completed" => order[d][k] = "paid"
        /\ report = "failed" => order[d][k] = "refused"
    BY <2>1 DEF Answers
  <2>5. /\ credits'[d] # 0 => report = "completed"
        /\ row'[d] = "failed" => report = "failed"
        /\ row'[d] = Absent => credits'[d] = 0
    BY <1>1, <1>2, <2>1, SettleHonest DEF IInv, Absent
  <2>6. credits'[d] > 0 => Collected(d)'
    BY <2>2, <2>3, <2>4, <2>5 DEF Collected
  <2>7. row'[d] = "failed" => NotPaid(d)'
    BY <2>2, <2>3, <2>4, <2>5 DEF NotPaid
  <2>8. Once(d)'
    <3>1. credits'[d] = 0 \/ (credits'[d] = 1 /\ row'[d] = "completed")
      BY <1>1, <1>2, <2>1, SettleHonest DEF IInv
    <3>. QED BY <1>2, <1>3, <3>1 DEF Once
  <2>. QED BY <1>2, <1>3, <2>5, <2>6, <2>7, <2>8 DEF Honest, Events
<1>. QED BY <1>4, <1>5

\* What is settled at the provider stays so.
LEMMA ProviderHonest ==
  ASSUME IInv, NEW d \in Deposits, Honest(d), NEW k \in Calls, ProviderSettles(d, k)
  PROVE  Honest(d)'
<1>1. UNCHANGED <<row, credits, ref, inbox, batch, verdict>> /\ order[d][k] = "open"
  BY DEF ProviderSettles, ledger, checkerVars
<1>2. PICK s : order' = [order EXCEPT ![d][k] = s]
  BY DEF ProviderSettles
<1>3. d \in Asked
  BY DEF Asked
<1>4. ref[d] = k \/ order'[d][ref[d]] = order[d][ref[d]]
  BY <1>2, <1>3 DEF IInv, TypeOK
<1>5. order[d][ref[d]] # "open" => order'[d][ref[d]] = order[d][ref[d]]
  BY <1>1, <1>4
<1>6. Once(d) => Once(d)'
  BY <1>1 DEF Once
<1>. QED BY <1>1, <1>5, <1>6 DEF Honest, Collected, NotPaid

\* An event that arrives says what the provider says, and what it says stays true
\* while the webhook deals with it.
LEMMA WebhookHonest ==
  ASSUME IInv, NEW d \in Deposits, Honest(d), Webhook(d)
  PROVE  Honest(d)'
<1>1. PICK e \in Events : WebhookRead(d, e) \/ WebhookApply(d, e) \/ WebhookLost(d, e)
  BY DEF Webhook
<1>2. UNCHANGED <<ref, order, batch, verdict>>
  BY <1>1 DEF WebhookRead, WebhookApply, WebhookLost, checkerVars
<1>3. e \in {"success", "failed"}
  BY DEF Events
<1>4. "none" \notin Status /\ "processed" \notin Status /\ Absent \notin Status
  BY DEF Status, Final, Absent
<1>5. CASE WebhookRead(d, e)
  <2>1. /\ UNCHANGED <<row, credits>>
        /\ inbox' = [inbox EXCEPT ![d][e] = row[d]]
    BY <1>5 DEF WebhookRead, ledger
  <2>2. e = "success" => order[d][ref[d]] \in {"paid", "odd"}
    BY <1>5 DEF WebhookRead, Announced
  <2>3. e = "failed" => NotPaid(d)
    BY <1>5 DEF WebhookRead, Announced, NotPaid
  <2>4. /\ inbox'[d]["success"] \in Status => order[d][ref[d]] \in {"paid", "odd"}
        /\ inbox'[d]["failed"] \in Status => NotPaid(d)
    BY <1>3, <2>1, <2>2, <2>3 DEF Honest, IInv, TypeOK, Events
  <2>5. d \notin Contended => Once(d)'
    <3>. SUFFICES ASSUME d \notin Contended PROVE Once(d)'
      OBVIOUS
    <3>1. /\ Once(d) /\ \A f \in Events : inbox[d][f] \notin Status
          /\ \A c \in Checkers : \A b \in batch[c] : b.op # d
      BY <1>5 DEF WebhookRead, MayTake, Held, Handling, Honest
    <3>2. inbox'[d][e] = row[d] /\ \A f \in Events : f # e => inbox'[d][f] = inbox[d][f]
      BY <2>1 DEF IInv, TypeOK
    <3>. QED BY <1>2, <2>1, <3>1, <3>2 DEF Once
  <2>. QED BY <1>2, <2>1, <2>4, <2>5 DEF Honest, Collected, NotPaid
<1>6. CASE WebhookLost(d, e)
  <2>1. /\ UNCHANGED <<row, credits>>
        /\ inbox' = [inbox EXCEPT ![d][e] = "none"]
    BY <1>6 DEF WebhookLost, ledger
  <2>2. \A f \in Events : inbox'[d][f] \in Status => inbox[d][f] \in Status
    BY <1>4, <2>1 DEF IInv, TypeOK
  <2>3. Once(d) => Once(d)'
    <3>1. \A f \in Events : inbox'[d][f] \in Status => inbox'[d][f] = inbox[d][f]
      BY <1>4, <2>1 DEF IInv, TypeOK
    <3>. QED BY <1>2, <2>1, <2>2, <3>1 DEF Once
  <2>. QED BY <1>2, <2>1, <2>2, <2>3 DEF Honest, Collected, NotPaid, Events
<1>7. CASE WebhookApply(d, e)
  <2>1. PICK report :
          /\ Settle(d, inbox[d][e], report)
          /\ report = IF e = "failed" THEN "failed"
                      ELSE IF order[d][ref[d]] = "odd" THEN "mismatch"
                      ELSE "completed"
    BY <1>7 DEF WebhookApply
  <2>2. /\ inbox[d][e] \in Status
        /\ inbox' = [inbox EXCEPT ![d][e] = "processed"]
    BY <1>7 DEF WebhookApply
  <2>3. report = "failed" => NotPaid(d)
    BY <1>3, <2>1, <2>2 DEF Honest
  <2>4. report = "completed" => Collected(d)
    BY <1>3, <2>1, <2>2 DEF Honest, Collected
  <2>5. /\ credits'[d] # credits[d] => report = "completed"
        /\ row'[d] = "failed" => row[d] = "failed" \/ report = "failed"
        /\ row'[d] = Absent => credits'[d] = 0
    BY <2>1, SettleHonest DEF IInv, Honest
  <2>6. \A f \in Events : inbox'[d][f] \in Status => inbox[d][f] \in Status
    BY <1>4, <2>2 DEF IInv, TypeOK
  <2>7. Once(d) => Once(d)'
    <3>. SUFFICES ASSUME Once(d) PROVE Once(d)'
      OBVIOUS
    <3>1. /\ inbox[d][e] = row[d]
          /\ \A f \in Events : inbox'[d][f] \notin Status
          /\ \A c \in Checkers : \A b \in batch[c] : b.op # d
      BY <1>4, <2>2 DEF Once, IInv, TypeOK
    <3>2. CASE row[d] = "pending"
      <4>1. credits'[d] = 0 \/ (credits'[d] = 1 /\ row'[d] = "completed")
        BY <2>1, <3>2, SettleHonest DEF Once, IInv, Honest
      <4>. QED BY <1>2, <3>1, <4>1 DEF Once
    <3>3. CASE row[d] # "pending"
      <4>1. UNCHANGED <<row, credits>>
        BY <1>4, <2>1, <2>2, <3>1, <3>3, SettleHonest DEF IInv, Honest
      <4>. QED BY <1>2, <3>1, <4>1 DEF Once
    <3>. QED BY <3>2, <3>3
  <2>. QED BY <1>2, <2>3, <2>4, <2>5, <2>6, <2>7 DEF Honest, Collected, NotPaid, Events
<1>. QED BY <1>1, <1>5, <1>6, <1>7

\* A checker asks about the order the row names, and gets the provider's answer.
LEMMA CheckHonest ==
  ASSUME IInv, NEW d \in Deposits, Honest(d), NEW c \in Checkers, Check(c)
  PROVE  Honest(d)'
<1>0. UNCHANGED <<ref, order, inbox>>
  BY DEF Check, CheckStart, CheckVerify, CheckApply, CheckStops
<1>1. ASSUME NEW S \in SUBSET Asked, CheckStart(c, S)
      PROVE  Honest(d)'
  <2>1. UNCHANGED <<row, credits, verdict>>
        /\ batch' = [batch EXCEPT ![c] = {[op |-> o, ref |-> ref[o]] : o \in S}]
    BY <1>1 DEF CheckStart, ledger
  <2>2. \A e \in Checkers : \A b \in batch'[e] : b.op = d => b.ref = ref[d]
    BY <2>1 DEF Honest, IInv, TypeOK
  <2>3. d \notin Contended => Once(d)'
    <3>. SUFFICES ASSUME d \notin Contended PROVE Once(d)'
      OBVIOUS
    <3>. DEFINE new == {[op |-> o, ref |-> ref[o]] : o \in S}
    <3>1. /\ batch'[c] = new /\ batch[c] = {}
          /\ \A e \in Checkers : e # c => batch'[e] = batch[e]
      BY <1>1, <2>1 DEF CheckStart, IInv, TypeOK
    <3>2. CASE d \in S
      <4>1. /\ Once(d) /\ \A f \in Events : inbox[d][f] \notin Status
            /\ \A e \in Checkers : \A b \in batch[e] : b.op # d
            /\ row[d] = "pending"
        BY <1>1, <3>2 DEF CheckStart, MayTake, Held, Handling, Reconcilable, Honest
      <4>2. \A a \in new : a.op = d => a = [op |-> d, ref |-> ref[d]]
        OBVIOUS
      <4>. HIDE DEF new
      <4>. QED BY <1>0, <2>1, <3>1, <4>1, <4>2 DEF Once
    <3>3. CASE d \notin S
      <4>1. \A a \in new : a.op # d
        BY <3>3
      <4>. HIDE DEF new
      <4>. QED BY <1>0, <2>1, <3>1, <4>1 DEF Once, Honest
    <3>. QED BY <3>2, <3>3
  <2>. QED BY <1>0, <2>1, <2>2, <2>3 DEF Honest, Collected, NotPaid
<1>2. ASSUME NEW b \in batch[c], CheckVerify(c, b)
      PROVE  Honest(d)'
  <2>1. UNCHANGED <<row, credits, batch>>
    BY <1>2 DEF CheckVerify, ledger
  <2>2. PICK report \in Verifiable(b.op, b.ref) :
          verdict' = [verdict EXCEPT ![c] = {[about |-> b, report |-> report]}]
    BY <1>2 DEF CheckVerify
  <2>3. b.op = d => /\ report = "completed" => Collected(d)
                    /\ report = "failed" => NotPaid(d)
    <3>1. b.op = d => b.ref = ref[d]
      BY DEF Honest
    <3>. QED BY <2>2, <3>1 DEF Verifiable, Collected, NotPaid
  <2>4. \A e \in Checkers : \A v \in verdict'[e] : v.about.op = d =>
          /\ v.report = "completed" => Collected(d)
          /\ v.report = "failed" => NotPaid(d)
    BY <2>2, <2>3 DEF Honest, IInv, TypeOK
  <2>5. Once(d) => Once(d)'
    BY <1>0, <2>1 DEF Once
  <2>. QED BY <1>0, <2>1, <2>4, <2>5 DEF Honest, Collected, NotPaid
<1>3. ASSUME NEW v \in verdict[c], CheckApply(c, v)
      PROVE  Honest(d)'
  <2>1. /\ Settle(v.about.op, "pending", v.report)
        /\ batch' = [batch EXCEPT ![c] = @ \ {v.about}]
        /\ verdict' = [verdict EXCEPT ![c] = {}]
    BY <1>3 DEF CheckApply
  <2>2. /\ \A e \in Checkers : batch'[e] \subseteq batch[e]
        /\ \A e \in Checkers : verdict'[e] \subseteq verdict[e]
    BY <2>1 DEF IInv, TypeOK
  <2>3. CASE v.about.op = d
    <3>1. /\ credits'[d] # credits[d] => v.report = "completed"
          /\ row'[d] = "failed" => row[d] = "failed" \/ v.report = "failed"
          /\ row'[d] = Absent => credits'[d] = 0
      BY <2>1, <2>3, SettleHonest DEF IInv, Honest
    <3>2. /\ v.report = "completed" => Collected(d)
          /\ v.report = "failed" => NotPaid(d)
      BY <2>3 DEF Honest
    <3>3. Once(d) => Once(d)'
      <4>. SUFFICES ASSUME Once(d) PROVE Once(d)'
        OBVIOUS
      <4>1. v.about \in batch[c] /\ row[d] = "pending" /\ credits[d] = 0
        BY <2>3 DEF Once, IInv, TypeOK
      <4>2. /\ \A e \in Checkers : \A b \in batch'[e] : b.op # d
            /\ \A f \in Events : inbox[d][f] \notin Status
        BY <2>1, <2>2, <2>3, <4>1 DEF Once, IInv, TypeOK
      <4>3. credits'[d] = 0 \/ (credits'[d] = 1 /\ row'[d] = "completed")
        BY <2>1, <2>3, <4>1, SettleHonest DEF IInv, Honest
      <4>. QED BY <1>0, <4>2, <4>3 DEF Once
    <3>. QED BY <1>0, <2>2, <3>1, <3>2, <3>3 DEF Honest, Collected, NotPaid
  <2>4. CASE v.about.op # d
    <3>1. row'[d] = row[d] /\ credits'[d] = credits[d]
      BY <2>1, <2>4 DEF Settle, ledger, IInv, TypeOK, Asked, Ops
    <3>2. Once(d) => Once(d)'
      BY <1>0, <2>2, <3>1 DEF Once
    <3>. QED BY <1>0, <2>2, <3>1, <3>2 DEF Honest, Collected, NotPaid
  <2>. QED BY <2>3, <2>4
<1>4. CASE CheckStops(c)
  <2>1. /\ UNCHANGED <<row, credits>>
        /\ batch' = [batch EXCEPT ![c] = {}] /\ verdict' = [verdict EXCEPT ![c] = {}]
    BY <1>4 DEF CheckStops, ledger
  <2>2. /\ \A e \in Checkers : batch'[e] \subseteq batch[e]
        /\ \A e \in Checkers : verdict'[e] \subseteq verdict[e]
    BY <2>1 DEF IInv, TypeOK
  <2>3. Once(d) => Once(d)'
    BY <1>0, <2>1, <2>2 DEF Once
  <2>. QED BY <1>0, <2>1, <2>2, <2>3 DEF Honest, Collected, NotPaid
<1>. QED BY <1>1, <1>2, <1>3, <1>4 DEF Check

\* Requests for other operations and other deposits' webhooks leave it alone.
LEMMA OthersHonest ==
  ASSUME IInv, NEW d \in Deposits, Honest(d),
         \/ \E o \in Ops \ {d}, k \in Calls :
              \/ o \in Deposits /\ DepositCall(o, k)
              \/ o \in Debits /\ (DebitRead(o, k) \/ DebitRefused(o, k))
              \/ o \in Withdrawals /\ (WithdrawCall(o, k) \/ WithdrawReplay(o, k))
              \/ o \in Transfers /\ TransferPost(o, k)
              \/ o \in Asked /\ Answered(o, k)
              \/ o \in Asked /\ ProviderSettles(o, k)
         \/ \E o \in Asked, k \in Calls : RolledBack(o, k)
         \/ \E p \in Deposits \ {d} : Webhook(p)
         \/ \E a \in Suspendable : Freeze(a)
  PROVE  Honest(d)'
<1>0. d \in Asked /\ d \in Ops
  BY DEF Asked, Ops
<1>1. ASSUME NEW o \in Ops \ {d}, NEW k \in Calls,
             \/ o \in Deposits /\ DepositCall(o, k)
             \/ o \in Asked /\ ProviderSettles(o, k)
             \/ o \in Withdrawals /\ (WithdrawCall(o, k) \/ WithdrawReplay(o, k))
      PROVE  Honest(d)'
  <2>1. \E s : order' = [order EXCEPT ![o][k] = s]
    BY <1>1 DEF DepositCall, ProviderSettles, WithdrawCall, WithdrawReplay
  <2>2. order'[d] = order[d]
    BY <1>0, <1>1, <2>1 DEF IInv, TypeOK
  <2>3. UNCHANGED <<row, credits, ref, inbox, batch, verdict>>
    BY <1>1 DEF DepositCall, ProviderSettles, WithdrawCall, WithdrawReplay, ledger, checkerVars
  <2>. QED BY <2>2, <2>3, Steady
<1>2. ASSUME NEW t \in Transfers, NEW k \in Calls, TransferPost(t, k)
      PROVE  Honest(d)'
  <2>1. t # d
    BY DEF Debits
  <2>2. row'[d] = row[d]
    BY <1>0, <1>2, <2>1 DEF TransferPost, IInv, TypeOK
  <2>3. UNCHANGED <<credits, ref, order, inbox, batch, verdict>>
    BY <1>2 DEF TransferPost, checkerVars
  <2>. QED BY <2>2, <2>3, Steady
<1>3. ASSUME NEW o \in Asked, NEW k \in Calls, o # d, Answered(o, k)
      PROVE  Honest(d)'
  <2>1. PICK report : Settle(o, call[o][k].seen, report)
    BY <1>3 DEF Answered
  <2>2. row'[d] = row[d] /\ credits'[d] = credits[d]
    BY <1>0, <1>3, <2>1 DEF Settle, ledger, IInv, TypeOK
  <2>3. ref'[d] = ref[d] /\ UNCHANGED <<order, inbox, batch, verdict>>
    BY <1>0, <1>3 DEF Answered, checkerVars, IInv, TypeOK
  <2>. QED BY <2>2, <2>3, Steady
<1>4. ASSUME NEW p \in Deposits, p # d, Webhook(p)
      PROVE  Honest(d)'
  <2>1. PICK e \in Events : WebhookRead(p, e) \/ WebhookApply(p, e) \/ WebhookLost(p, e)
    BY <1>4 DEF Webhook
  <2>2. row'[d] = row[d] /\ credits'[d] = credits[d]
    BY <1>0, <1>4, <2>1 DEF WebhookRead, WebhookApply, WebhookLost, Settle, ledger, IInv, TypeOK
  <2>3. UNCHANGED <<ref, order, batch, verdict>>
    BY <2>1 DEF WebhookRead, WebhookApply, WebhookLost, checkerVars
  <2>4. inbox'[d] = inbox[d]
    BY <1>4, <2>1 DEF WebhookRead, WebhookApply, WebhookLost, IInv, TypeOK
  <2>. QED BY <2>2, <2>3, <2>4, Steady
<1>5. ASSUME UNCHANGED <<row, credits, ref, order, inbox, batch, verdict>>
      PROVE  Honest(d)'
  BY <1>5, Steady
<1>6. ASSUME NEW o \in Ops, NEW k \in Calls,
             DebitRead(o, k) \/ DebitRefused(o, k) \/ RolledBack(o, k)
      PROVE  Honest(d)'
  BY <1>5, <1>6 DEF DebitRead, DebitRefused, RolledBack, ledger, checkerVars
<1>7. CASE \E o \in Asked, k \in Calls : RolledBack(o, k)
  BY <1>6, <1>7 DEF Asked, Ops
<1>8. CASE \E a \in Suspendable : Freeze(a)
  BY <1>5, <1>8 DEF Freeze, ledger, checkerVars
<1>9. CASE \E p \in Deposits \ {d} : Webhook(p)
  BY <1>4, <1>9
<1>10. CASE \E o \in Ops \ {d}, k \in Calls :
              \/ o \in Deposits /\ DepositCall(o, k)
              \/ o \in Debits /\ (DebitRead(o, k) \/ DebitRefused(o, k))
              \/ o \in Withdrawals /\ (WithdrawCall(o, k) \/ WithdrawReplay(o, k))
              \/ o \in Transfers /\ TransferPost(o, k)
              \/ o \in Asked /\ Answered(o, k)
              \/ o \in Asked /\ ProviderSettles(o, k)
  <2>1. PICK o \in Ops \ {d}, k \in Calls :
          \/ o \in Deposits /\ DepositCall(o, k)
          \/ o \in Debits /\ (DebitRead(o, k) \/ DebitRefused(o, k))
          \/ o \in Withdrawals /\ (WithdrawCall(o, k) \/ WithdrawReplay(o, k))
          \/ o \in Transfers /\ TransferPost(o, k)
          \/ o \in Asked /\ Answered(o, k)
          \/ o \in Asked /\ ProviderSettles(o, k)
    BY <1>10
  <2>2. CASE \/ o \in Deposits /\ DepositCall(o, k)
             \/ o \in Asked /\ ProviderSettles(o, k)
             \/ o \in Withdrawals /\ (WithdrawCall(o, k) \/ WithdrawReplay(o, k))
    BY <1>1, <2>2
  <2>3. CASE o \in Transfers /\ TransferPost(o, k)
    BY <1>2, <2>3
  <2>4. CASE o \in Asked /\ Answered(o, k)
    BY <1>3, <2>4
  <2>5. CASE o \in Debits /\ (DebitRead(o, k) \/ DebitRefused(o, k))
    BY <1>6, <2>5
  <2>. QED BY <2>1, <2>2, <2>3, <2>4, <2>5
<1>. QED BY <1>7, <1>8, <1>9, <1>10

LEMMA DepositsInit == Init => DepositsInv
BY DEF Init, DepositsInv, Honest, Once, Asked, Ops, Status, Final, Events, Absent

LEMMA DepositsStep == IInv /\ DepositsInv /\ [Next]_vars => DepositsInv'
<1>. SUFFICES ASSUME IInv, DepositsInv, [Next]_vars, NEW d \in Deposits PROVE Honest(d)'
  BY DEF DepositsInv
<1>0. /\ Honest(d) /\ d \in Ops /\ d \in Asked /\ d \notin Debits
      /\ Deposits \subseteq Ops /\ Debits \subseteq Ops /\ Asked \subseteq Ops
      /\ Withdrawals \subseteq Debits /\ Transfers \subseteq Debits
  BY DEF DepositsInv, Asked, Debits, Ops
<1>1. CASE UNCHANGED vars
  BY <1>0, <1>1, Steady DEF vars, ledger, checkerVars
<1>2. ASSUME NEW k \in Calls, Request(k) PROVE Honest(d)'
  <2>1. CASE DepositCall(d, k) \/ Answered(d, k)
    BY <1>0, <2>1, RequestHonest
  <2>2. CASE ~(DepositCall(d, k) \/ Answered(d, k))
    BY <1>0, <1>2, <2>2, OthersHonest DEF Request
  <2>. QED BY <2>1, <2>2
<1>3. ASSUME NEW o \in Asked, NEW k \in Calls, ProviderSettles(o, k) PROVE Honest(d)'
  <2>1. CASE o = d
    BY <1>0, <1>3, <2>1, ProviderHonest
  <2>2. CASE o # d
    BY <1>0, <1>3, <2>2, OthersHonest
  <2>. QED BY <2>1, <2>2
<1>4. ASSUME NEW p \in Deposits, Webhook(p) PROVE Honest(d)'
  BY <1>0, <1>4, WebhookHonest, OthersHonest
<1>5. ASSUME NEW a \in Suspendable, Freeze(a) PROVE Honest(d)'
  BY <1>0, <1>5, OthersHonest
<1>6. ASSUME NEW c \in Checkers, Check(c) PROVE Honest(d)'
  BY <1>0, <1>6, CheckHonest
<1>. QED BY <1>1, <1>2, <1>3, <1>4, <1>5, <1>6 DEF Next

\* What the rows, the webhook and the checkers hold of a deposit is true.
THEOREM DepositsHonest == Spec => []DepositsInv
<1>. QED BY DepositsInit, DepositsStep, Safe, PTL DEF Spec

\* Money credited for a deposit was collected, by the payment its row names and in
\* full where the gateway states the amount, however many processes confirm it at
\* once; and it was credited once where they did not.
THEOREM CreditsAreCollected == Spec => []CreditedIsCollected
<1>1. DepositsInv => CreditedIsCollected
  BY DEF DepositsInv, Honest, Once, Collected, CreditedIsCollected
<1>. QED BY <1>1, DepositsHonest, PTL

\* A deposit called failed was refused, unless its gateway gives up on payments
\* that can still be made.
THEOREM FailuresAreUncollected == Spec => []FailedIsUncollected
<1>1. DepositsInv => FailedIsUncollected
  BY DEF DepositsInv, Honest, NotPaid, FailedIsUncollected
<1>. QED BY <1>1, DepositsHonest, PTL

-----------------------------------------------------------------------------
(* Withdrawals *)

\* Those that one process handles at a time, through a gateway that does not fail.
Reliable == Withdrawals \ (Contended \union Unreliable)

Busy(w, k) == call[w][k].at \in {"read", "calling"}
Refused(w) == order[w][ref[w]] = "refused"

\* One request works on a withdrawal, and only before its row is committed; an order
\* that may be paid out is that request's, or the one the row names; and nobody takes
\* a withdrawal for failed unless that order was refused.
Backed(w) ==
  /\ row[w] # "failed"
  /\ \A k, j \in Calls : Busy(w, k) /\ Busy(w, j) => k = j
  /\ \A k \in Calls : Busy(w, k) => row[w] = Absent /\ call[w][k].seen = Absent
  /\ \A k \in Calls : order[w][k] \notin {"none", "refused"} =>
       call[w][k].at = "calling" \/ (row[w] # Absent /\ ref[w] = k)
  /\ row[w] = "reversed" => Refused(w)
  /\ \A c \in Checkers : \A b \in batch[c] : b.op = w => b.ref = ref[w]
  /\ \A c \in Checkers : \A v \in verdict[c] :
       v.about.op = w /\ v.report = "failed" => Refused(w)

WithdrawalsInv == \A w \in Reliable : Backed(w)

LEMMA ReliableType ==
  ASSUME NEW w \in Reliable
  PROVE  /\ w \in Withdrawals /\ w \in Debits /\ w \in Asked /\ w \in Ops
         /\ w \notin Deposits /\ w \notin Transfers /\ w \notin Abandonable
BY DEF Reliable, Debits, Asked, Ops

\* Nothing about a withdrawal depends on the others.
LEMMA StaysBacked ==
  ASSUME NEW w \in Reliable, Backed(w),
         row'[w] = row[w], ref'[w] = ref[w], order'[w] = order[w], call'[w] = call[w],
         \A c \in Checkers : batch'[c] \subseteq batch[c] /\ verdict'[c] \subseteq verdict[c]
  PROVE  Backed(w)'
BY DEF Backed, Busy, Refused

\* A status write of a withdrawal.
LEMMA SettleBacked ==
  ASSUME TypeOK, NEW w \in Withdrawals, NEW seen, NEW report, Settle(w, seen, report)
  PROVE  /\ row'[w] = row[w] \/ row'[w] \in {"pending", "completed", "reversed"}
         /\ row'[w] = "reversed" => row[w] = "reversed" \/ report = "failed"
         /\ row[w] # Absent => row'[w] # Absent
         /\ seen = Absent => row'[w] # Absent
<1>1. w \in Asked /\ w \in Ops /\ w \notin Deposits
  BY DEF Asked, Ops, Debits
<1>2. /\ StatusAfter(w, report) \in {"pending", "completed", "reversed"}
      /\ StatusAfter(w, report) = "reversed" => report = "failed"
  BY <1>1 DEF StatusAfter
<1>3. CASE Writes(seen, report)
  <2>1. row' = [row EXCEPT ![w] = StatusAfter(w, report)]
    BY <1>3 DEF Settle
  <2>. QED BY <1>1, <1>2, <2>1 DEF TypeOK, Absent
<1>4. CASE ~Writes(seen, report)
  BY <1>4 DEF Settle, ledger, Writes
<1>. QED BY <1>3, <1>4

\* The request that reads the account is the only one: its predecessors left no
\* order that can still be paid.
LEMMA ReadBacked ==
  ASSUME IInv, NEW w \in Reliable, Backed(w), NEW k \in Calls, DebitRead(w, k)
  PROVE  Backed(w)'
<1>1. w \in Ops /\ w \in Asked
  BY ReliableType
<1>2. \A j \in Calls : ~Busy(w, j)
  BY DEF DebitRead, MayTake, Held, Reliable, Busy
<1>3. /\ row[w] = Absent
      /\ call' = [call EXCEPT ![w][k] =
           [call[w][k] EXCEPT !.at = "read", !.active = owner[w] \notin frozen]]
      /\ UNCHANGED <<row, ref, order, batch, verdict>>
  BY DEF DebitRead, Goes, ledger, checkerVars
<1>4. \A j \in Calls : j # k => call'[w][j] = call[w][j]
  BY <1>1, <1>3 DEF IInv, TypeOK
<1>5. \A j \in Calls : Busy(w, j)' => j = k
  BY <1>2, <1>4 DEF Busy
<1>6. \A j \in Calls : order[w][j] \in {"none", "refused"}
  BY <1>2, <1>3 DEF Backed, Busy
<1>7. call'[w][k].seen = Absent
  <2>1. call[w][k].seen = Absent
    BY <1>1 DEF DebitRead, MaySend, IInv, CallsInv
  <2>. QED BY <1>1, <1>3, <2>1 DEF IInv, TypeOK, Call
<1>. QED BY <1>3, <1>5, <1>6, <1>7 DEF Backed, Refused

\* It goes on to the gateway, where the order is its own.
LEMMA CallBacked ==
  ASSUME IInv, NEW w \in Reliable, Backed(w), NEW k \in Calls,
         WithdrawCall(w, k) \/ WithdrawReplay(w, k)
  PROVE  Backed(w)'
<1>1. w \in Ops /\ w \in Asked
  BY ReliableType
<1>2. Busy(w, k) /\ row[w] = Absent
  BY DEF WithdrawCall, WithdrawReplay, Busy, Backed
<1>3. WithdrawCall(w, k)
  BY <1>2 DEF WithdrawReplay
<1>4. /\ call' = [call EXCEPT ![w][k] =
           [call[w][k] EXCEPT !.at = "calling", !.seen = row[w], !.locks = TRUE]]
      /\ order' = [order EXCEPT ![w][k] = "open"]
      /\ UNCHANGED <<row, ref, batch, verdict>>
  BY <1>3 DEF WithdrawCall, Goes, ledger, checkerVars
<1>5. /\ call'[w][k].at = "calling" /\ call'[w][k].seen = Absent
      /\ \A j \in Calls : j # k => call'[w][j] = call[w][j] /\ order'[w][j] = order[w][j]
  BY <1>1, <1>2, <1>4 DEF IInv, TypeOK, Call
<1>6. \A j \in Calls : j # k => ~Busy(w, j)
  BY <1>2 DEF Backed
<1>7. \A j \in Calls : Busy(w, j)' => j = k
  BY <1>5, <1>6 DEF Busy
<1>8. \A c \in Checkers : \A b \in batch[c] : b.op # w
  BY <1>2 DEF IInv, RowsInv
<1>9. \A c \in Checkers : \A v \in verdict[c] : v.about.op # w
  BY <1>8 DEF IInv, TypeOK
<1>10. \A j \in Calls : order'[w][j] \notin {"none", "refused"} => call'[w][j].at = "calling"
  BY <1>2, <1>5 DEF Backed
<1>. QED BY <1>2, <1>4, <1>7, <1>8, <1>9, <1>10 DEF Backed, Absent

\* It commits its row, which names its own order.
LEMMA AnsweredBacked ==
  ASSUME IInv, NEW w \in Reliable, Backed(w), NEW k \in Calls, Answered(w, k)
  PROVE  Backed(w)'
<1>1. w \in Ops /\ w \in Asked /\ w \in Withdrawals /\ w \in Debits
  BY ReliableType
<1>2. Busy(w, k) /\ row[w] = Absent /\ call[w][k].at = "calling"
  BY DEF Answered, Busy, Backed
<1>3. PICK report \in Answers(w, k) : Settle(w, call[w][k].seen, report)
  BY DEF Answered
<1>4. ref' = [ref EXCEPT ![w] = k] /\ UNCHANGED <<order, batch, verdict>> /\ Ends(w, k)
  BY DEF Answered, checkerVars
<1>5. ref'[w] = k
  BY <1>1, <1>4 DEF IInv, TypeOK
<1>6. /\ call'[w][k].at = "done"
      /\ \A j \in Calls : j # k => call'[w][j] = call[w][j]
  BY <1>1, <1>4, EndsOne DEF IInv
<1>7. \A j \in Calls : j # k => ~Busy(w, j)
  BY <1>2 DEF Backed
<1>8. \A j \in Calls : ~Busy(w, j)'
  BY <1>6, <1>7 DEF Busy
<1>9. report = "failed" => order[w][k] = "refused"
  BY <1>3 DEF Answers
<1>10. /\ row'[w] = Absent \/ row'[w] \in {"pending", "completed", "reversed"}
       /\ row'[w] = "reversed" => report = "failed"
  BY <1>1, <1>2, <1>3, SettleBacked DEF IInv, Absent
<1>11. \A c \in Checkers : \A b \in batch[c] : b.op # w
  BY <1>2 DEF IInv, RowsInv
<1>12. \A c \in Checkers : \A v \in verdict[c] : v.about.op # w
  BY <1>11 DEF IInv, TypeOK
<1>13. row'[w] # Absent
  <2>1. call[w][k].seen = Absent
    BY <1>2 DEF Backed
  <2>. QED BY <1>1, <1>3, <2>1, SettleBacked DEF IInv
<1>14. \A j \in Calls : order'[w][j] \notin {"none", "refused"} => ref'[w] = j
  BY <1>2, <1>4, <1>5, <1>7 DEF Backed, Busy
<1>15. row'[w] = "reversed" => Refused(w)'
  BY <1>4, <1>5, <1>9, <1>10 DEF Refused
<1>. QED BY <1>4, <1>8, <1>10, <1>11, <1>12, <1>13, <1>14, <1>15 DEF Backed, Absent

\* It ends without a row: refused the debit, or told that the order is refused.
LEMMA EndBacked ==
  ASSUME IInv, NEW w \in Reliable, Backed(w), NEW k \in Calls,
         DebitRefused(w, k) \/ RolledBack(w, k)
  PROVE  Backed(w)'
<1>1. w \in Ops /\ w \in Asked
  BY ReliableType
<1>2. Busy(w, k) /\ row[w] = Absent
  BY DEF DebitRefused, RolledBack, Busy, Backed
<1>3. Ends(w, k) /\ UNCHANGED <<row, ref, order, batch, verdict>>
  BY DEF DebitRefused, RolledBack, ledger, checkerVars
<1>4. /\ call'[w][k].at = "done"
      /\ \A j \in Calls : j # k => call'[w][j] = call[w][j]
  BY <1>1, <1>3, EndsOne DEF IInv
<1>5. \A j \in Calls : ~Busy(w, j)'
  BY <1>2, <1>4 DEF Backed, Busy
<1>6. call[w][k].at = "calling" => order[w][k] = "refused"
  BY DEF DebitRefused, RolledBack, Reliable
<1>7. \A j \in Calls : order[w][j] \in {"none", "refused"}
  <2>1. ASSUME NEW j \in Calls, order[w][j] \notin {"none", "refused"}
        PROVE  call[w][j].at = "calling" /\ j # k
    BY <1>2, <1>6, <2>1 DEF Backed
  <2>2. \A j \in Calls : j # k => call[w][j].at # "calling"
    BY <1>2 DEF Backed, Busy
  <2>. QED BY <2>1, <2>2
<1>. QED BY <1>2, <1>3, <1>5, <1>7 DEF Backed, Refused, Absent

\* An order the provider has refused stays so.
LEMMA ProviderBacked ==
  ASSUME IInv, NEW w \in Reliable, Backed(w), NEW k \in Calls, ProviderSettles(w, k)
  PROVE  Backed(w)'
<1>1. w \in Asked
  BY ReliableType
<1>2. UNCHANGED <<row, ref, call, batch, verdict>> /\ order[w][k] = "open"
  BY DEF ProviderSettles, ledger, checkerVars
<1>3. PICK s : order' = [order EXCEPT ![w][k] = s]
  BY DEF ProviderSettles
<1>4. \A j \in Calls : j # k => order'[w][j] = order[w][j]
  BY <1>1, <1>3 DEF IInv, TypeOK
<1>5. row[w] # Absent => ref[w] \in Calls
  BY <1>1 DEF IInv, TypeOK
<1>6. \A j \in Calls : order'[w][j] \notin {"none", "refused"} =>
        order[w][j] \notin {"none", "refused"}
  BY <1>2, <1>4
<1>7. row[w] # Absent /\ Refused(w) => Refused(w)'
  BY <1>2, <1>4, <1>5 DEF Refused
<1>8. /\ row[w] = "reversed" => Refused(w)'
      /\ \A c \in Checkers : \A v \in verdict[c] :
           v.about.op = w /\ v.report = "failed" => Refused(w)'
  <2>1. \A c \in Checkers : \A v \in verdict[c] : v.about.op = w => row[w] # Absent
    BY DEF IInv, TypeOK, RowsInv
  <2>. QED BY <1>7, <2>1 DEF Backed, Absent
<1>9. \A j \in Calls : order'[w][j] \notin {"none", "refused"} =>
        call'[w][j].at = "calling" \/ (row'[w] # Absent /\ ref'[w] = j)
  BY <1>2, <1>6 DEF Backed
<1>. QED BY <1>2, <1>8, <1>9 DEF Backed, Busy

\* A checker asks about the order the row names.
LEMMA CheckBacked ==
  ASSUME IInv, NEW w \in Reliable, Backed(w), NEW c \in Checkers, Check(c)
  PROVE  Backed(w)'
<1>0. UNCHANGED <<ref, order, call>>
  BY DEF Check, CheckStart, CheckVerify, CheckApply, CheckStops
<1>1. ASSUME NEW S \in SUBSET Asked, CheckStart(c, S)
      PROVE  Backed(w)'
  <2>1. UNCHANGED <<row, verdict>>
        /\ batch' = [batch EXCEPT ![c] = {[op |-> o, ref |-> ref[o]] : o \in S}]
    BY <1>1 DEF CheckStart, ledger
  <2>2. \A e \in Checkers : \A b \in batch'[e] : b.op = w => b.ref = ref[w]
    BY <2>1 DEF Backed, IInv, TypeOK
  <2>. QED BY <1>0, <2>1, <2>2 DEF Backed, Busy, Refused
<1>2. ASSUME NEW b \in batch[c], CheckVerify(c, b)
      PROVE  Backed(w)'
  <2>1. UNCHANGED <<row, batch>>
    BY <1>2 DEF CheckVerify, ledger
  <2>2. PICK report \in Verifiable(b.op, b.ref) :
          verdict' = [verdict EXCEPT ![c] = {[about |-> b, report |-> report]}]
    BY <1>2 DEF CheckVerify
  <2>3. b.op = w /\ report = "failed" => Refused(w)
    <3>1. b.op = w => b.ref = ref[w]
      BY DEF Backed
    <3>. QED BY <2>2, <3>1, ReliableType DEF Verifiable, Refused
  <2>4. \A e \in Checkers : \A v \in verdict'[e] :
          v.about.op = w /\ v.report = "failed" => Refused(w)
    BY <2>2, <2>3 DEF Backed, IInv, TypeOK
  <2>. QED BY <1>0, <2>1, <2>4 DEF Backed, Busy, Refused
<1>3. ASSUME NEW v \in verdict[c], CheckApply(c, v)
      PROVE  Backed(w)'
  <2>1. /\ Settle(v.about.op, "pending", v.report)
        /\ batch' = [batch EXCEPT ![c] = @ \ {v.about}]
        /\ verdict' = [verdict EXCEPT ![c] = {}]
    BY <1>3 DEF CheckApply
  <2>2. \A e \in Checkers : batch'[e] \subseteq batch[e] /\ verdict'[e] \subseteq verdict[e]
    BY <2>1 DEF IInv, TypeOK
  <2>3. CASE v.about.op = w
    <3>1. /\ row'[w] = row[w] \/ row'[w] \in {"pending", "completed", "reversed"}
          /\ row'[w] = "reversed" => row[w] = "reversed" \/ v.report = "failed"
          /\ row[w] # Absent => row'[w] # Absent
      BY <2>1, <2>3, ReliableType, SettleBacked DEF IInv
    <3>2. v.report = "failed" => Refused(w)
      BY <2>3 DEF Backed
    <3>3. row[w] # Absent
      BY <2>3 DEF IInv, TypeOK, RowsInv
    <3>. QED BY <1>0, <2>2, <3>1, <3>2, <3>3 DEF Backed, Busy, Refused
  <2>4. CASE v.about.op # w
    <3>1. row'[w] = row[w]
      BY <2>1, <2>4, ReliableType DEF Settle, ledger, IInv, TypeOK, Asked, Ops
    <3>. QED BY <1>0, <2>2, <3>1, StaysBacked
  <2>. QED BY <2>3, <2>4
<1>4. CASE CheckStops(c)
  <2>1. /\ UNCHANGED row
        /\ batch' = [batch EXCEPT ![c] = {}] /\ verdict' = [verdict EXCEPT ![c] = {}]
    BY <1>4 DEF CheckStops, ledger
  <2>2. \A e \in Checkers : batch'[e] \subseteq batch[e] /\ verdict'[e] \subseteq verdict[e]
    BY <2>1 DEF IInv, TypeOK
  <2>. QED BY <1>0, <2>1, <2>2, StaysBacked
<1>. QED BY <1>1, <1>2, <1>3, <1>4 DEF Check

\* Other operations' requests, webhooks and suspensions leave it alone.
LEMMA OthersBacked ==
  ASSUME IInv, NEW w \in Reliable, Backed(w),
         \/ \E o \in Ops \ {w}, k \in Calls :
              \/ o \in Deposits /\ DepositCall(o, k)
              \/ o \in Debits /\ (DebitRead(o, k) \/ DebitRefused(o, k))
              \/ o \in Withdrawals /\ (WithdrawCall(o, k) \/ WithdrawReplay(o, k))
              \/ o \in Transfers /\ TransferPost(o, k)
              \/ o \in Asked /\ (Answered(o, k) \/ RolledBack(o, k))
              \/ o \in Asked /\ ProviderSettles(o, k)
         \/ \E d \in Deposits : Webhook(d)
         \/ \E a \in Suspendable : Freeze(a)
  PROVE  Backed(w)'
<1>0. w \in Asked /\ w \in Ops /\ w \notin Deposits
  BY ReliableType
<1>1. ASSUME NEW o \in Ops \ {w}, NEW k \in Calls,
             \/ o \in Deposits /\ DepositCall(o, k)
             \/ o \in Debits /\ (DebitRead(o, k) \/ DebitRefused(o, k))
             \/ o \in Withdrawals /\ (WithdrawCall(o, k) \/ WithdrawReplay(o, k))
             \/ o \in Transfers /\ TransferPost(o, k)
             \/ o \in Asked /\ (Answered(o, k) \/ RolledBack(o, k))
             \/ o \in Asked /\ ProviderSettles(o, k)
      PROVE  Backed(w)'
  <2>1. UNCHANGED <<batch, verdict>>
    BY <1>1 DEF DepositCall, DebitRead, DebitRefused, WithdrawCall, WithdrawReplay,
       TransferPost, Answered, RolledBack, ProviderSettles, checkerVars
  <2>2. (\E c : call' = [call EXCEPT ![o][k] = c]) \/ call' = call
    BY <1>1 DEF DepositCall, DebitRead, DebitRefused, WithdrawCall, WithdrawReplay,
       TransferPost, Answered, RolledBack, ProviderSettles, Ends, Goes
  <2>3. (\E s : order' = [order EXCEPT ![o][k] = s]) \/ order' = order
    BY <1>1 DEF DepositCall, DebitRead, DebitRefused, WithdrawCall, WithdrawReplay,
       TransferPost, Answered, RolledBack, ProviderSettles
  <2>4. (\E s : row' = [row EXCEPT ![o] = s]) \/ row' = row
    BY <1>1 DEF DepositCall, DebitRead, DebitRefused, WithdrawCall, WithdrawReplay,
       TransferPost, Answered, RolledBack, ProviderSettles, Settle, ledger
  <2>5. ref' = [ref EXCEPT ![o] = k] \/ ref' = ref
    BY <1>1 DEF DepositCall, DebitRead, DebitRefused, WithdrawCall, WithdrawReplay,
       TransferPost, Answered, RolledBack, ProviderSettles
  <2>6. row'[w] = row[w] /\ ref'[w] = ref[w]
    BY <1>0, <2>4, <2>5 DEF IInv, TypeOK
  <2>7. call'[w] = call[w] /\ order'[w] = order[w]
    BY <1>0, <2>2, <2>3 DEF IInv, TypeOK
  <2>. QED BY <2>1, <2>6, <2>7, StaysBacked
<1>2. ASSUME NEW d \in Deposits, Webhook(d)
      PROVE  Backed(w)'
  <2>1. PICK e \in Events : WebhookRead(d, e) \/ WebhookApply(d, e) \/ WebhookLost(d, e)
    BY <1>2 DEF Webhook
  <2>2. UNCHANGED <<ref, order, call, batch, verdict>>
    BY <2>1 DEF WebhookRead, WebhookApply, WebhookLost, checkerVars
  <2>3. (\E s : row' = [row EXCEPT ![d] = s]) \/ row' = row
    BY <2>1 DEF WebhookRead, WebhookApply, WebhookLost, Settle, ledger
  <2>4. row'[w] = row[w]
    BY <1>0, <2>3 DEF IInv, TypeOK
  <2>. QED BY <2>2, <2>4, StaysBacked
<1>3. ASSUME NEW a \in Suspendable, Freeze(a)
      PROVE  Backed(w)'
  BY <1>3, StaysBacked DEF Freeze, ledger, checkerVars
<1>. QED BY <1>1, <1>2, <1>3

LEMMA WithdrawalsInit == Init => WithdrawalsInv
<1>. SUFFICES ASSUME Init, NEW w \in Reliable PROVE Backed(w)
  BY DEF WithdrawalsInv
<1>1. w \in Ops /\ w \in Asked
  BY ReliableType
<1>2. /\ row[w] = Absent
      /\ \A k \in Calls : call[w][k] = Fresh /\ order[w][k] = "none"
      /\ \A c \in Checkers : batch[c] = {} /\ verdict[c] = {}
  BY <1>1 DEF Init
<1>. QED BY <1>2 DEF Backed, Busy, Fresh, Absent

LEMMA WithdrawalsStep == IInv /\ WithdrawalsInv /\ [Next]_vars => WithdrawalsInv'
<1>. SUFFICES ASSUME IInv, WithdrawalsInv, [Next]_vars, NEW w \in Reliable PROVE Backed(w)'
  BY DEF WithdrawalsInv
<1>0. /\ Backed(w) /\ Deposits \subseteq Ops /\ Debits \subseteq Ops /\ Asked \subseteq Ops
      /\ Withdrawals \subseteq Debits /\ Transfers \subseteq Debits
      /\ w \notin Deposits /\ w \notin Transfers
  BY ReliableType DEF WithdrawalsInv, Asked, Debits, Ops
<1>1. CASE UNCHANGED vars
  BY <1>0, <1>1, StaysBacked DEF vars, ledger, checkerVars
<1>2. ASSUME NEW k \in Calls, Request(k) PROVE Backed(w)'
  <2>1. CASE DebitRead(w, k)
    BY <1>0, <2>1, ReadBacked
  <2>2. CASE WithdrawCall(w, k) \/ WithdrawReplay(w, k)
    BY <1>0, <2>2, CallBacked
  <2>3. CASE Answered(w, k)
    BY <1>0, <2>3, AnsweredBacked
  <2>4. CASE DebitRefused(w, k) \/ RolledBack(w, k)
    BY <1>0, <2>4, EndBacked
  <2>5. CASE ~(\/ DebitRead(w, k) \/ WithdrawCall(w, k) \/ WithdrawReplay(w, k)
               \/ Answered(w, k) \/ DebitRefused(w, k) \/ RolledBack(w, k))
    BY <1>0, <1>2, <2>5, OthersBacked DEF Request
  <2>. QED BY <2>1, <2>2, <2>3, <2>4, <2>5
<1>3. ASSUME NEW o \in Asked, NEW k \in Calls, ProviderSettles(o, k) PROVE Backed(w)'
  <2>1. CASE o = w
    BY <1>0, <1>3, <2>1, ProviderBacked
  <2>2. CASE o # w
    BY <1>0, <1>3, <2>2, OthersBacked
  <2>. QED BY <2>1, <2>2
<1>4. ASSUME NEW d \in Deposits, Webhook(d) PROVE Backed(w)'
  BY <1>0, <1>4, OthersBacked
<1>5. ASSUME NEW a \in Suspendable, Freeze(a) PROVE Backed(w)'
  BY <1>0, <1>5, OthersBacked
<1>6. ASSUME NEW c \in Checkers, Check(c) PROVE Backed(w)'
  BY <1>0, <1>6, CheckBacked
<1>. QED BY <1>1, <1>2, <1>3, <1>4, <1>5, <1>6 DEF Next

\* What a reliable withdrawal's row, its orders and the checkers say agrees.
THEOREM WithdrawalsBacked == Spec => []WithdrawalsInv
BY WithdrawalsInit, WithdrawalsStep, Safe, PTL DEF Spec

\* What a provider pays out for such a withdrawal was taken from the owner and is not
\* given back, however often the client sends the request and checkers ask.
THEOREM PayoutsAreDebited == Spec => []PaidOutIsDebited
<1>1. IInv /\ WithdrawalsInv => PaidOutIsDebited
  <2>. SUFFICES ASSUME IInv, NEW w \in Reliable, Backed(w), NEW k \in Calls, order[w][k] = "paid"
                PROVE  \/ call[w][k].at = "calling" /\ row[w] = Absent
                       \/ row[w] \in {"pending", "completed"} /\ ref[w] = k
    BY DEF WithdrawalsInv, PaidOutIsDebited, Reliable
  <2>1. w \in Ops /\ row[w] \in {"completed", "failed", "reversed", "pending", Absent}
    BY ReliableType DEF IInv, TypeOK, Status, Final
  <2>2. call[w][k].at = "calling" => row[w] = Absent
    BY DEF Backed, Busy
  <2>3. row[w] = "reversed" /\ ref[w] = k => FALSE
    BY DEF Backed, Refused
  <2>. QED BY <2>1, <2>2, <2>3 DEF Backed
<1>. QED BY <1>1, Safe, WithdrawalsBacked, PTL
=============================================================================
