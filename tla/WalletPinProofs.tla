--------------------------- MODULE WalletPinProofs ---------------------------
(***************************************************************************)
(* Proofs about WalletPin: for any accounts, proofs and requests at once,  *)
(* the PIN's row lock and the primary key of the spent proofs are enough   *)
(* for each proof to be spent on one thing, for a replaced PIN not to come *)
(* back, and for what serves once to serve nobody who comes later.         *)
(***************************************************************************)
EXTENDS WalletPin, TLAPS

USE PinAssumption

-----------------------------------------------------------------------------
(* The inductive invariant *)

Live(r) == req[r].at \in {"read", "again", "verified"}
Choice == Requests \union {Original, NoOne}
ReqState == [at : {"idle", "read", "again", "verified", "done", "refused"},
             pin : [by : Choice, legacy : BOOLEAN], usable : BOOLEAN, fresh : BOOLEAN]

\* What the other parts need of the domains.
WellTyped ==
  /\ pin \in [Accounts -> [by : Choice, legacy : BOOLEAN]]
  /\ codes \in [Accounts -> SUBSET Choice]
  /\ spent \in [Proofs -> Requests \union {NoOne}]
  /\ posted \in [Keys -> Requests \union {NoOne}]
  /\ retired \in [Accounts -> SUBSET Choice]
  /\ req \in [Requests -> ReqState]

\* What a request checked when it began still holds while it is alive.
Checked ==
  \A r \in Requests :
    /\ Live(r) /\ Kind[r] = "set" => Proof[r] # NoProof /\ Verified(r)
    /\ req[r].at = "done" /\ Kind[r] = "set" => Proof[r] # NoProof
    /\ Live(r) /\ Kind[r] = "transfer" /\ Proof[r] # NoProof => Verified(r)
    /\ Live(r) /\ Kind[r] \in Typing => req[r].pin # NoPin
    /\ req[r].at = "verified" => Kind[r] \in Typing

\* Verifying a PIN locks its row: one request of an account does so at a time, and
\* what it found out about its key stays so.
OneVerified ==
  /\ \A r, s \in Requests :
       req[r].at = "verified" /\ req[s].at = "verified" /\ Of[r] = Of[s] => r = s
  /\ \A r \in Requests :
       req[r].at = "verified" /\ req[r].fresh => posted[Key[r]] = NoOne

\* Where requests come one after the other, what one read is still there.
ReadIsCurrent ==
  \A r \in Requests : Of[r] \in Serial /\ Live(r) =>
    /\ req[r].pin = pin[Of[r]]
    /\ \A s \in Requests : Of[s] = Of[r] /\ Live(s) => s = r

\* The PIN, and the PINs and codes that were, come from requests that are done; once
\* there is a PIN there always is one, and a legacy hash is one from the start.
PinHistory ==
  \A a \in Accounts :
    /\ pin[a].by \in Requests => req[pin[a].by].at = "done"
    /\ \A c \in retired[a] : c # NoOne /\ (c \in Requests => req[c].at = "done")
    /\ \A c \in codes[a] : c # Original => c \in Requests /\ req[c].at = "done"
    /\ pin[a].legacy => a \in Legacy
    /\ pin[a].by = NoOne => pin[a] = NoPin /\ a \notin WithPin

\* What was read is some PIN the account had.
ReadHistory ==
  \A r \in Requests :
    /\ req[r].pin.legacy => Of[r] \in Legacy
    /\ req[r].pin.by = NoOne => req[r].pin = NoPin
    /\ req[r].pin.by \in Requests => req[req[r].pin.by].at = "done"

\* A request that is let in came before anything was done that it should have met.
Served ==
  /\ usedCode \in [Accounts -> [Choosers -> SUBSET Requests]]
  /\ before \in [Requests -> SUBSET Requests]
  /\ \A r \in Requests : \A s \in before[r] : req[s].at = "done"
  /\ \A r \in Requests : Kind[r] \in {"set", "admin"} /\ req[r].at = "done" =>
       pin[Of[r]] # NoPin
  /\ \A r \in Requests : Kind[r] = "set" /\ (Live(r) \/ req[r].at = "done") =>
       Of[r] \notin WithPin /\ \A s \in before[r] : Kind[s] \notin {"set", "admin"}
  /\ \A r \in Requests : Kind[r] = "reset" /\ (Live(r) \/ req[r].at = "done") =>
       \A s \in before[r] : s \notin usedCode[Of[r]][Code[r]]

IInv ==
  /\ WellTyped /\ Checked /\ OneVerified /\ ReadIsCurrent /\ PinHistory /\ ReadHistory
  /\ Served /\ ProofsAreSpent /\ PinMovesForward

-----------------------------------------------------------------------------
(* What a step does to the requests *)

\* A request that ends, well or not, forgets what it read.
LEMMA EndFrame ==
  ASSUME WellTyped, NEW r \in Requests, NEW at \in {"done", "refused"},
         req' = [req EXCEPT ![r] = Blank(at)]
  PROVE  /\ req'[r] = [at |-> at, pin |-> NoPin, usable |-> FALSE, fresh |-> FALSE]
         /\ \A s \in Requests \ {r} : req'[s] = req[s]
         /\ req' \in [Requests -> ReqState]
<1>1. PICK x : x = [at |-> at, pin |-> NoPin, usable |-> FALSE, fresh |-> FALSE]
  OBVIOUS
<1>2. req' = [req EXCEPT ![r] = x]
  BY <1>1 DEF Blank
<1>3. x \in ReqState
  BY <1>1 DEF NoPin, Choice, ReqState
<1>4. req \in [Requests -> ReqState]
  BY DEF WellTyped
<1>5. /\ req'[r] = x /\ req' \in [Requests -> ReqState]
      /\ \A s \in Requests \ {r} : req'[s] = req[s]
  BY <1>2, <1>3, <1>4
<1>. QED BY <1>1, <1>5

LEMMA ReadFrame ==
  ASSUME WellTyped, NEW r \in Requests, Reads(r)
  PROVE  /\ req[r].at = "idle"
         /\ req'[r].at = "read" /\ req'[r].pin = pin[Of[r]]
         /\ \A s \in Requests \ {r} : req'[s] = req[s]
         /\ req' \in [Requests -> ReqState]
<1>1. PICK x : x = [at |-> "read", pin |-> pin[Of[r]], usable |-> Usable(r), fresh |-> FALSE]
  OBVIOUS
<1>2. req' = [req EXCEPT ![r] = x]
  BY <1>1 DEF Reads
<1>3. Usable(r) \in BOOLEAN
  BY DEF Usable
<1>4. x \in ReqState
  BY <1>1, <1>3 DEF WellTyped, ReqState
<1>5. req \in [Requests -> ReqState] /\ req[r].at = "idle"
  BY DEF WellTyped, Reads
<1>. QED BY <1>1, <1>2, <1>4, <1>5

\* No PIN is no PIN, however it is looked at.
LEMMA NoPinIs == NoPin.by = NoOne /\ NoPin.legacy = FALSE
BY DEF NoPin

\* A step that writes nothing and ends no request well keeps what the rows say.
LEMMA RowsKept ==
  ASSUME WellTyped, PinHistory, ProofsAreSpent, PinMovesForward,
         UNCHANGED <<pin, codes, spent, posted, retired>>,
         \A s \in Requests : req[s].at = "done" <=> req'[s].at = "done"
  PROVE  PinHistory' /\ ProofsAreSpent' /\ PinMovesForward'
<1>1. ASSUME NEW a \in Accounts
      PROVE  /\ pin'[a].by \in Requests => req'[pin'[a].by].at = "done"
             /\ \A c \in retired'[a] : c # NoOne /\ (c \in Requests => req'[c].at = "done")
             /\ \A c \in codes'[a] : c # Original => c \in Requests /\ req'[c].at = "done"
             /\ pin'[a].legacy => a \in Legacy
             /\ pin'[a].by = NoOne => pin'[a] = NoPin /\ a \notin WithPin
  BY DEF PinHistory
<1>2. PinHistory'
  BY <1>1 DEF PinHistory
<1>3. ASSUME NEW p \in Proofs, spent'[p] # NoOne
      PROVE  /\ Proof[spent'[p]] = p /\ req'[spent'[p]].at = "done"
             /\ IssuedTo[p] = Of[spent'[p]] /\ IssuedFor[p] = Purpose(spent'[p])
             /\ Kind[spent'[p]] = "transfer" => posted'[Key[spent'[p]]] = spent'[p]
  <2>1. PICK s \in Requests : s = spent[p] /\ s = spent'[p]
    BY <1>3 DEF WellTyped
  <2>2. /\ Proof[s] = p /\ req[s].at = "done"
        /\ IssuedTo[p] = Of[s] /\ IssuedFor[p] = Purpose(s)
        /\ Kind[s] = "transfer" => posted[Key[s]] = s
    BY <1>3, <2>1 DEF ProofsAreSpent
  <2>. QED BY <2>1, <2>2
<1>4. \A r \in Requests : Kind[r] = "set" /\ req'[r].at = "done" => spent'[Proof[r]] = r
  BY DEF ProofsAreSpent
<1>5. \A k \in Keys : posted'[k] # NoOne /\ Kind[posted'[k]] = "transfer" /\ High[posted'[k]] =>
        Proof[posted'[k]] # NoProof /\ spent'[Proof[posted'[k]]] = posted'[k]
  BY DEF ProofsAreSpent
<1>6. \A x : Purpose(x)' = Purpose(x)
  BY DEF Purpose
<1>7. ProofsAreSpent'
  BY <1>3, <1>4, <1>5, <1>6 DEF ProofsAreSpent
<1>8. PinMovesForward'
  BY DEF PinMovesForward
<1>. QED BY <1>2, <1>7, <1>8

-----------------------------------------------------------------------------
(* Every action keeps the invariant *)

\* At first no request has begun; the PINs that there are were there before.
LEMMA InitIInv == Init => IInv
<1>. SUFFICES ASSUME Init PROVE IInv
  OBVIOUS
<1>1. \A r \in Requests : req[r].at = "idle" /\ req[r].pin = NoPin
  BY DEF Init, Blank
<1>2. WellTyped
  <2>1. req \in [Requests -> ReqState]
    BY DEF Init, Blank, ReqState, NoPin, Choice
  <2>2. pin \in [Accounts -> [by : Choice, legacy : BOOLEAN]]
    BY DEF Init, NoPin, Choice
  <2>3. /\ codes \in [Accounts -> SUBSET Choice]
        /\ spent \in [Proofs -> Requests \union {NoOne}]
        /\ posted \in [Keys -> Requests \union {NoOne}]
        /\ retired \in [Accounts -> SUBSET Choice]
    BY DEF Init, Choice
  <2>. QED BY <2>1, <2>2, <2>3 DEF WellTyped
<1>3. Checked /\ OneVerified /\ ReadIsCurrent
  BY <1>1 DEF Checked, OneVerified, ReadIsCurrent, Live
<1>8. Served
  <2>1. /\ usedCode \in [Accounts -> [Choosers -> SUBSET Requests]]
        /\ before \in [Requests -> SUBSET Requests]
        /\ \A r \in Requests : before[r] = {}
    BY DEF Init
  <2>. QED BY <1>1, <2>1 DEF Served, Live
<1>4. PinHistory
  BY DEF Init, PinHistory, NoPin, NoOne, Original
<1>5. ReadHistory
  BY <1>1, NoPinIs DEF ReadHistory
<1>6. ProofsAreSpent
  BY <1>1 DEF Init, ProofsAreSpent
<1>7. PinMovesForward
  BY DEF Init, PinMovesForward
<1>. QED BY <1>2, <1>3, <1>4, <1>5, <1>6, <1>7, <1>8 DEF IInv

\* A request goes on: what it was let in for stays so, also when it consumes its code.
LEMMA ServedKept ==
  ASSUME IInv, NEW r \in Requests, Live(r), UNCHANGED before,
         \A s \in Requests \ {r} : req'[s] = req[s],
         \A a \in Accounts : pin[a] # NoPin => pin'[a] # NoPin,
         req'[r].at = "done" /\ Kind[r] \in {"set", "admin"} => pin'[Of[r]] # NoPin,
         \/ UNCHANGED usedCode
         \/ usedCode' = [usedCode EXCEPT ![Of[r]][Code[r]] = @ \union {r}]
  PROVE  Served'
<1>1. Served /\ req[r].at # "done" /\ Of[r] \in Accounts /\ Code[r] \in Choosers
  BY DEF IInv, Live
<1>2. \A s \in Requests : r \notin before[s]
  BY <1>1 DEF Served
<1>3. /\ usedCode' \in [Accounts -> [Choosers -> SUBSET Requests]]
      /\ \A a \in Accounts, c \in Choosers : usedCode'[a][c] \subseteq usedCode[a][c] \union {r}
  <2>1. usedCode \in [Accounts -> [Choosers -> SUBSET Requests]]
    BY <1>1 DEF Served
  <2>2. CASE UNCHANGED usedCode
    BY <2>1, <2>2
  <2>3. CASE usedCode' = [usedCode EXCEPT ![Of[r]][Code[r]] = @ \union {r}]
    BY ONLY <1>1, <2>1, <2>3, r \in Requests
  <2>. QED BY <2>2, <2>3
<1>4. /\ before' \in [Requests -> SUBSET Requests]
      /\ \A s \in Requests : \A t \in before'[s] : req'[t].at = "done" /\ t # r /\ t \in Requests
  <2>1. before \in [Requests -> SUBSET Requests]
    BY <1>1 DEF Served
  <2>2. ASSUME NEW s \in Requests, NEW t \in before[s]
        PROVE  req'[t].at = "done" /\ t # r /\ t \in Requests
    <3>1. t \in Requests /\ t # r /\ req[t].at = "done"
      BY <1>1, <1>2, <2>1 DEF Served
    <3>. QED BY <3>1
  <2>. QED BY <2>1, <2>2
<1>5. \A s \in Requests : Kind[s] \in {"set", "admin"} /\ req'[s].at = "done" =>
        pin'[Of[s]] # NoPin
  BY <1>1 DEF Served
<1>6. \A s \in Requests : (Live(s) \/ req[s].at = "done")' => Live(s) \/ req[s].at = "done"
  BY DEF Live
<1>7. \A s \in Requests : Kind[s] = "set" /\ (Live(s) \/ req[s].at = "done")' =>
        Of[s] \notin WithPin /\ \A t \in before'[s] : Kind[t] \notin {"set", "admin"}
  BY <1>1, <1>6 DEF Served
<1>8. ASSUME NEW s \in Requests, Kind[s] = "reset", (Live(s) \/ req[s].at = "done")'
      PROVE  \A t \in before'[s] : t \notin usedCode'[Of[s]][Code[s]]
  <2>1. \A t \in before[s] : t \notin usedCode[Of[s]][Code[s]] /\ t # r
    BY <1>1, <1>4, <1>6, <1>8 DEF Served
  <2>2. usedCode'[Of[s]][Code[s]] \subseteq usedCode[Of[s]][Code[s]] \union {r}
    BY <1>3
  <2>. QED BY <2>1, <2>2
<1>. QED BY <1>3, <1>4, <1>5, <1>7, <1>8 DEF Served

\* A request begins: what it reads is true at that moment.
LEMMA BeginStep ==
  ASSUME IInv, NEW r \in Requests,
         \/ SetBegin(r) \/ ChangeBegin(r) \/ ResetBegin(r)
         \/ AdminBegin(r) \/ TransferBegin(r) \/ MerchantBegin(r)
  PROVE  IInv'
<1>1. /\ Reads(r)
      /\ Kind[r] = "set" => Proof[r] # NoProof /\ Verified(r) /\ pin[Of[r]] = NoPin
      /\ Kind[r] = "reset" => usedCode[Of[r]][Code[r]] = {}
      /\ Kind[r] = "transfer" /\ Proof[r] # NoProof => Verified(r)
      /\ Kind[r] \in Typing => pin[Of[r]] # NoPin
  BY DEF SetBegin, ChangeBegin, ResetBegin, AdminBegin, TransferBegin, MerchantBegin, ReadsPin,
     Typing, Paying, Undefined, Usable
<1>2. UNCHANGED <<pin, codes, spent, posted, retired>>
  BY <1>1 DEF Reads
<1>3. /\ req[r].at = "idle"
      /\ req'[r].at = "read" /\ req'[r].pin = pin[Of[r]]
      /\ \A s \in Requests \ {r} : req'[s] = req[s]
      /\ req' \in [Requests -> ReqState]
  BY <1>1, ReadFrame DEF IInv
<1>4. WellTyped'
  BY <1>2, <1>3 DEF IInv, WellTyped
<1>5. Checked'
  <2>1. \A s \in Requests : Verified(s)' <=> Verified(s)
    BY DEF Verified
  <2>. QED BY <1>1, <1>3, <2>1 DEF IInv, Checked, Live
<1>6. OneVerified'
  BY <1>2, <1>3 DEF IInv, OneVerified
<1>7. ReadIsCurrent'
  <2>1. Of[r] \in Serial => \A s \in Requests : Of[s] = Of[r] => ~Live(s)
    BY <1>1 DEF Reads, Busy, Live, Underway
  <2>. QED BY <1>2, <1>3, <2>1 DEF IInv, ReadIsCurrent, Live
<1>8. ReadHistory'
  <2>1. \A s \in Requests : req[s].at = "done" => req'[s].at = "done"
    BY <1>3
  <2>2. ASSUME NEW s \in Requests
        PROVE  /\ req'[s].pin.by \in Requests => req'[req'[s].pin.by].at = "done"
               /\ req'[s].pin.legacy => Of[s] \in Legacy
               /\ req'[s].pin.by = NoOne => req'[s].pin = NoPin
    <3>1. CASE s = r
      BY <1>3, <2>1, <3>1 DEF IInv, PinHistory
    <3>2. CASE s # r
      <4>1. req'[s] = req[s]
        BY <1>3, <3>2
      <4>. QED BY <2>1, <4>1 DEF IInv, ReadHistory
    <3>. QED BY <3>1, <3>2
  <2>. QED BY <2>2 DEF ReadHistory
<1>9. Served'
  <2>1. Served /\ UNCHANGED usedCode
        /\ before' = [before EXCEPT ![r] = {s \in Requests : Of[s] = Of[r] /\ req[s].at = "done"}]
    BY <1>1 DEF IInv, Reads
  <2>2. /\ before' \in [Requests -> SUBSET Requests]
        /\ \A s \in Requests \ {r} : before'[s] = before[s]
        /\ \A t \in before'[r] : t \in Requests /\ Of[t] = Of[r] /\ req[t].at = "done"
    BY <2>1 DEF Served
  <2>3. ASSUME NEW s \in Requests, NEW t \in before'[s] PROVE req'[t].at = "done"
    <3>1. t \in Requests /\ req[t].at = "done"
      BY <2>1, <2>2 DEF Served
    <3>2. t # r
      BY <1>3, <3>1
    <3>. QED BY <1>3, <3>1, <3>2
  <2>4. ASSUME NEW s \in Requests, Kind[s] \in {"set", "admin"}, req'[s].at = "done"
        PROVE  pin'[Of[s]] # NoPin
    <3>1. req[s].at = "done"
      BY <1>3, <2>4
    <3>. QED BY <1>2, <2>1, <2>4, <3>1 DEF Served
  <2>5. ASSUME NEW s \in Requests, Kind[s] = "set", (Live(s) \/ req[s].at = "done")'
        PROVE  Of[s] \notin WithPin /\ \A t \in before'[s] : Kind[t] \notin {"set", "admin"}
    <3>1. CASE s = r
      <4>1. pin[Of[r]] = NoPin /\ Of[r] \in Accounts
        BY <1>1, <2>5, <3>1
      <4>2. Of[r] \notin WithPin
        BY <4>1, NoPinIs DEF IInv, PinHistory
      <4>. QED BY <2>1, <2>2, <3>1, <4>1, <4>2 DEF Served
    <3>2. CASE s # r
      BY <1>3, <2>1, <2>2, <2>5, <3>2 DEF Served, Live
    <3>. QED BY <3>1, <3>2
  <2>6. ASSUME NEW s \in Requests, Kind[s] = "reset", (Live(s) \/ req[s].at = "done")'
        PROVE  \A t \in before'[s] : t \notin usedCode'[Of[s]][Code[s]]
    <3>1. CASE s = r
      BY <1>1, <2>1, <2>6, <3>1
    <3>2. CASE s # r
      BY <1>3, <2>1, <2>2, <2>6, <3>2 DEF Served, Live
    <3>. QED BY <3>1, <3>2
  <2>. QED BY <2>1, <2>2, <2>3, <2>4, <2>5, <2>6 DEF Served
<1>10. PinHistory' /\ ProofsAreSpent' /\ PinMovesForward'
  BY <1>2, <1>3, RowsKept DEF IInv
<1>. QED BY <1>4, <1>5, <1>6, <1>7, <1>8, <1>9, <1>10 DEF IInv

\* A PIN is verified: its row is this request's alone.
LEMMA VerifyStep ==
  ASSUME IInv, NEW r \in Requests, Verify(r)
  PROVE  IInv'
<1>1. UNCHANGED <<pin, codes, spent, posted, retired>>
  BY DEF Verify
<1>2. /\ req[r].at = "read" /\ Kind[r] \in Typing
      /\ req'[r].at = "verified" /\ req'[r].pin = req[r].pin
      /\ req'[r].fresh => posted[Key[r]] = NoOne
      /\ \A s \in Requests \ {r} : req'[s] = req[s]
      /\ req' \in [Requests -> ReqState]
  <2>. DEFINE isFresh == posted[Key[r]] = NoOne
  <2>1. PICK x : x = [at |-> "verified", pin |-> req[r].pin, usable |-> req[r].usable,
                      fresh |-> isFresh]
    OBVIOUS
  <2>2. req' = [req EXCEPT ![r] = x]
    BY <2>1 DEF Verify
  <2>3. isFresh \in BOOLEAN
    BY SMT
  <2>4. isFresh => posted[Key[r]] = NoOne
    OBVIOUS
  <2>. HIDE DEF isFresh
  <2>5. req \in [Requests -> ReqState]
    BY DEF IInv, WellTyped
  <2>6. x \in ReqState
    BY <2>1, <2>3, <2>5 DEF ReqState
  <2>7. x.at = "verified" /\ x.pin = req[r].pin /\ (x.fresh => posted[Key[r]] = NoOne)
    BY <2>1, <2>4
  <2>8. req'[r] = x /\ (\A s \in Requests \ {r} : req'[s] = req[s])
        /\ req' \in [Requests -> ReqState]
    BY <2>2, <2>5, <2>6
  <2>. QED BY <2>7, <2>8 DEF Verify
<1>3. WellTyped'
  BY <1>1, <1>2 DEF IInv, WellTyped
<1>4. Checked'
  <2>1. \A s \in Requests : Verified(s)' <=> Verified(s)
    BY DEF Verified
  <2>. QED BY <1>2, <2>1 DEF IInv, Checked, Live
<1>5. OneVerified'
  <2>1. \A s \in Requests : Of[s] = Of[r] /\ req[s].at = "verified" => s = r
    BY DEF Verify, Free
  <2>. QED BY <1>1, <1>2, <2>1 DEF IInv, OneVerified
<1>6. ReadIsCurrent'
  BY <1>1, <1>2 DEF IInv, ReadIsCurrent, Live
<1>7. ReadHistory'
  BY <1>1, <1>2 DEF IInv, ReadHistory
<1>8. Served'
  BY <1>1, <1>2, ServedKept DEF Verify, Live
<1>9. PinHistory' /\ ProofsAreSpent' /\ PinMovesForward'
  BY <1>1, <1>2, RowsKept DEF IInv
<1>. QED BY <1>3, <1>4, <1>5, <1>6, <1>7, <1>8, <1>9 DEF IInv

\* set_pin reads the row again: what is there now is what the request goes by.
LEMMA ReadAgainStep ==
  ASSUME IInv, NEW r \in Requests, SetReadAgain(r)
  PROVE  IInv'
<1>1. UNCHANGED <<pin, codes, usedCode, spent, posted, retired, before>>
  BY DEF SetReadAgain
<1>2. /\ req[r].at = "read" /\ Live(r) /\ Kind[r] = "set" /\ Of[r] \in Accounts
      /\ req'[r].at = "again" /\ req'[r].pin = pin[Of[r]]
      /\ \A s \in Requests \ {r} : req'[s] = req[s]
      /\ req' \in [Requests -> ReqState]
  <2>1. PICK x : x = [at |-> "again", pin |-> pin[Of[r]], usable |-> req[r].usable,
                      fresh |-> req[r].fresh]
    OBVIOUS
  <2>2. req' = [req EXCEPT ![r] = x]
    BY <2>1 DEF SetReadAgain
  <2>3. req \in [Requests -> ReqState] /\ pin[Of[r]] \in [by : Choice, legacy : BOOLEAN]
    BY DEF IInv, WellTyped
  <2>4. x \in ReqState
    BY <2>1, <2>3 DEF ReqState
  <2>5. x.at = "again" /\ x.pin = pin[Of[r]]
    BY <2>1
  <2>6. req'[r] = x /\ (\A s \in Requests \ {r} : req'[s] = req[s])
        /\ req' \in [Requests -> ReqState]
    BY <2>2, <2>3, <2>4
  <2>. QED BY <2>5, <2>6 DEF SetReadAgain, Live
<1>3. WellTyped'
  BY <1>1, <1>2 DEF IInv, WellTyped
<1>4. Checked'
  <2>1. \A s \in Requests : Verified(s)' <=> Verified(s)
    BY DEF Verified
  <2>2. Kind[r] \notin Typing /\ Kind[r] # "transfer"
    BY <1>2 DEF Typing, Paying
  <2>. QED BY <1>2, <2>1, <2>2 DEF IInv, Checked, Live
<1>5. OneVerified'
  BY <1>1, <1>2 DEF IInv, OneVerified
<1>6. ReadIsCurrent'
  BY <1>1, <1>2 DEF IInv, ReadIsCurrent, Live
<1>7. ReadHistory'
  <2>1. ASSUME NEW s \in Requests
        PROVE  /\ req'[s].pin.by \in Requests => req'[req'[s].pin.by].at = "done"
               /\ req'[s].pin.legacy => Of[s] \in Legacy
               /\ req'[s].pin.by = NoOne => req'[s].pin = NoPin
    <3>1. CASE s = r
      BY <1>2, <3>1 DEF IInv, PinHistory
    <3>2. CASE s # r
      <4>1. req'[s] = req[s]
        BY <1>2, <3>2
      <4>. QED BY <1>2, <4>1 DEF IInv, ReadHistory
    <3>. QED BY <3>1, <3>2
  <2>. QED BY <2>1 DEF ReadHistory
<1>8. Served'
  BY <1>1, <1>2, ServedKept
<1>9. PinHistory' /\ ProofsAreSpent' /\ PinMovesForward'
  BY <1>1, <1>2, RowsKept DEF IInv
<1>. QED BY <1>3, <1>4, <1>5, <1>6, <1>7, <1>8, <1>9 DEF IInv

\* A request that is refused leaves nothing behind.
LEMMA RefusedStep ==
  ASSUME IInv, NEW r \in Requests, Refused(r)
  PROVE  IInv'
<1>1. UNCHANGED <<pin, codes, spent, posted, retired>> /\ Live(r)
  BY DEF Refused, Live, Underway
<1>2. /\ req'[r] = [at |-> "refused", pin |-> NoPin, usable |-> FALSE, fresh |-> FALSE]
      /\ \A s \in Requests \ {r} : req'[s] = req[s]
      /\ req' \in [Requests -> ReqState]
  BY EndFrame DEF Refused, IInv
<1>3. req'[r].at = "refused" /\ req'[r].pin = NoPin /\ ~req'[r].fresh
  BY <1>2
<1>4. WellTyped'
  BY <1>1, <1>2 DEF IInv, WellTyped
<1>5. Checked'
  <2>1. \A s \in Requests : Verified(s)' <=> Verified(s)
    BY DEF Verified
  <2>. QED BY <1>2, <1>3, <2>1 DEF IInv, Checked, Live
<1>6. OneVerified'
  BY <1>1, <1>2, <1>3 DEF IInv, OneVerified
<1>7. ReadIsCurrent'
  BY <1>1, <1>2, <1>3 DEF IInv, ReadIsCurrent, Live
<1>8. ReadHistory'
  <2>1. \A s \in Requests : req[s].at = "done" => req'[s].at = "done"
    BY <1>1, <1>2 DEF Live
  <2>2. NoOne \notin Requests
    OBVIOUS
  <2>. QED BY <1>2, <1>3, <2>1, <2>2, NoPinIs DEF IInv, ReadHistory
<1>9. Served'
  BY <1>1, <1>2, <1>3, ServedKept DEF Refused
<1>10. PinHistory' /\ ProofsAreSpent' /\ PinMovesForward'
  BY <1>1, <1>2, <1>3, RowsKept DEF IInv, Live
<1>. QED BY <1>4, <1>5, <1>6, <1>7, <1>8, <1>9, <1>10 DEF IInv

\* A request that is done has a new PIN chosen: what is said of PINs and requests
\* stays true, whatever proof it spent.
LEMMA ChooseStep ==
  ASSUME IInv, NEW r \in Requests, Live(r), Chooses(r), Ends(r), UNCHANGED posted,
         codes' \in {codes, [codes EXCEPT ![Of[r]] = @ \union {r}]},
         spent' \in [Proofs -> Requests \union {NoOne}]
  PROVE  /\ WellTyped' /\ Checked' /\ OneVerified' /\ ReadIsCurrent' /\ PinHistory' /\ ReadHistory'
         /\ PinMovesForward'
         /\ req'[r].at = "done" /\ pin'[Of[r]] # NoPin
         /\ \A s \in Requests \ {r} : req'[s] = req[s]
         /\ \A a \in Accounts \ {Of[r]} : pin'[a] = pin[a]
<1>1. /\ req'[r] = [at |-> "done", pin |-> NoPin, usable |-> FALSE, fresh |-> FALSE]
      /\ \A s \in Requests \ {r} : req'[s] = req[s]
      /\ req' \in [Requests -> ReqState]
  BY EndFrame DEF Ends, IInv
<1>2. req'[r].at = "done" /\ req'[r].pin = NoPin /\ ~req'[r].fresh
  BY <1>1
<1>3. Of[r] \in Accounts /\ r # NoOne /\ r # Original /\ req[r].at # "done"
  BY DEF Live
<1>4. /\ pin'[Of[r]].by = r /\ pin'[Of[r]].legacy = FALSE
      /\ \A a \in Accounts \ {Of[r]} : pin'[a] = pin[a]
      /\ pin' \in [Accounts -> [by : Choice, legacy : BOOLEAN]]
  BY <1>3 DEF Chooses, IInv, WellTyped, Choice
<1>5. /\ retired'[Of[r]] = retired[Of[r]] \union ({pin[Of[r]].by} \ {NoOne})
      /\ \A a \in Accounts \ {Of[r]} : retired'[a] = retired[a]
      /\ retired' \in [Accounts -> SUBSET Choice]
  BY <1>3 DEF Chooses, IInv, WellTyped
<1>6. /\ \A a \in Accounts : codes'[a] \subseteq codes[a] \union {r}
      /\ codes' \in [Accounts -> SUBSET Choice]
  <2>1. codes \in [Accounts -> SUBSET Choice] /\ r \in Choice
    BY DEF IInv, WellTyped, Choice
  <2>2. CASE codes' = codes
    BY <2>1, <2>2
  <2>3. CASE codes' = [codes EXCEPT ![Of[r]] = @ \union {r}]
    BY <1>3, <2>1, <2>3
  <2>. QED BY <2>2, <2>3
<1>7. pin'[Of[r]] # NoPin
  BY <1>3, <1>4, NoPinIs
<1>8. WellTyped'
  BY <1>1, <1>4, <1>5, <1>6 DEF IInv, WellTyped
<1>9. Checked'
  <2>1. \A s \in Requests : Verified(s)' <=> Verified(s)
    BY DEF Verified
  <2>. QED BY <1>1, <1>2, <2>1 DEF IInv, Checked, Live
<1>10. OneVerified'
  BY <1>1, <1>2 DEF IInv, OneVerified
<1>11. ReadIsCurrent'
  <2>1. ASSUME NEW s \in Requests, Of[s] \in Serial, Live(s)'
        PROVE  s # r /\ Live(s) /\ Of[s] # Of[r] /\ req'[s] = req[s] /\ pin'[Of[s]] = pin[Of[s]]
    <3>1. s # r
      BY <1>2, <2>1 DEF Live
    <3>2. req'[s] = req[s] /\ Live(s)
      BY <1>1, <2>1, <3>1 DEF Live
    <3>3. Of[s] # Of[r]
      BY <2>1, <3>1, <3>2 DEF IInv, ReadIsCurrent
    <3>. QED BY <1>4, <3>1, <3>2, <3>3
  <2>. QED BY <2>1 DEF IInv, ReadIsCurrent
<1>12. PinHistory'
  <2>1. \A s \in Requests : req[s].at = "done" => req'[s].at = "done"
    BY <1>1, <1>2
  <2>2. ASSUME NEW a \in Accounts
        PROVE  /\ pin'[a].by \in Requests => req'[pin'[a].by].at = "done"
               /\ pin'[a].legacy => a \in Legacy
               /\ pin'[a].by = NoOne => pin'[a] = NoPin /\ a \notin WithPin
    <3>1. CASE a = Of[r]
      BY <1>2, <1>3, <1>4, <3>1
    <3>2. CASE a # Of[r]
      <4>1. pin'[a] = pin[a]
        BY <1>4, <3>2
      <4>. QED BY <2>1, <4>1 DEF IInv, PinHistory
    <3>. QED BY <3>1, <3>2
  <2>3. ASSUME NEW a \in Accounts, NEW c \in retired'[a]
        PROVE  c # NoOne /\ (c \in Requests => req'[c].at = "done")
    <3>1. c \in retired[a] \/ (c = pin[a].by /\ c # NoOne)
      BY <1>5, <2>3
    <3>. QED BY <2>1, <3>1 DEF IInv, PinHistory
  <2>4. ASSUME NEW a \in Accounts, NEW c \in codes'[a], c # Original
        PROVE  c \in Requests /\ req'[c].at = "done"
    <3>1. c \in codes[a] \/ c = r
      BY <1>6, <2>4
    <3>. QED BY <1>2, <2>1, <2>4, <3>1 DEF IInv, PinHistory
  <2>. QED BY <2>2, <2>3, <2>4 DEF PinHistory
<1>13. ReadHistory'
  <2>1. \A s \in Requests : req[s].at = "done" => req'[s].at = "done"
    BY <1>1, <1>2
  <2>2. NoOne \notin Requests
    OBVIOUS
  <2>. QED BY <1>1, <1>2, <2>1, <2>2, NoPinIs DEF IInv, ReadHistory
<1>14. PinMovesForward'
  <2>1. r \notin retired'[Of[r]]
    BY <1>3, <1>5 DEF IInv, PinHistory
  <2>. QED BY <1>4, <1>5, <2>1 DEF IInv, PinMovesForward
<1>. QED BY <1>1, <1>2, <1>4, <1>7, <1>8, <1>9, <1>10, <1>11, <1>12, <1>13, <1>14

\* A step that spends no proof and completes no definition of a PIN keeps the spent
\* proofs as they are.
LEMMA NothingSpent ==
  ASSUME IInv, NEW r \in Requests, Kind[r] # "set", req[r].at # "done",
         UNCHANGED <<spent, posted>>, \A s \in Requests \ {r} : req'[s] = req[s]
  PROVE  ProofsAreSpent'
<1>1. ASSUME NEW p \in Proofs, spent'[p] # NoOne
      PROVE  /\ Proof[spent'[p]] = p /\ req'[spent'[p]].at = "done"
             /\ IssuedTo[p] = Of[spent'[p]] /\ IssuedFor[p] = Purpose(spent'[p])
             /\ Kind[spent'[p]] = "transfer" => posted'[Key[spent'[p]]] = spent'[p]
  <2>1. PICK s \in Requests : s = spent[p] /\ s = spent'[p]
    BY <1>1 DEF IInv, WellTyped
  <2>2. /\ Proof[s] = p /\ req[s].at = "done"
        /\ IssuedTo[p] = Of[s] /\ IssuedFor[p] = Purpose(s)
        /\ Kind[s] = "transfer" => posted[Key[s]] = s
    BY <1>1, <2>1 DEF IInv, ProofsAreSpent
  <2>. QED BY <2>1, <2>2
<1>2. \A s \in Requests : Kind[s] = "set" /\ req'[s].at = "done" => spent'[Proof[s]] = s
  BY DEF IInv, ProofsAreSpent
<1>3. \A k \in Keys : posted'[k] # NoOne /\ Kind[posted'[k]] = "transfer" /\ High[posted'[k]] =>
        Proof[posted'[k]] # NoProof /\ spent'[Proof[posted'[k]]] = posted'[k]
  BY DEF IInv, ProofsAreSpent
<1>4. \A x : Purpose(x)' = Purpose(x)
  BY DEF Purpose
<1>. QED BY <1>1, <1>2, <1>3, <1>4 DEF ProofsAreSpent

\* The changes of a PIN that ask for no proof.
LEMMA RechooseStep ==
  ASSUME IInv, NEW r \in Requests, ChangePin(r) \/ ResetPin(r) \/ AdminResetPin(r)
  PROVE  IInv'
<1>1. /\ Live(r) /\ Kind[r] # "set" /\ req[r].at # "done"
      /\ Chooses(r) /\ Ends(r) /\ UNCHANGED <<spent, posted>>
      /\ codes' \in {codes, [codes EXCEPT ![Of[r]] = @ \union {r}]}
      /\ UNCHANGED before
      /\ \/ UNCHANGED usedCode
         \/ usedCode' = [usedCode EXCEPT ![Of[r]][Code[r]] = @ \union {r}]
  BY DEF ChangePin, ResetPin, AdminResetPin, Live, IssuesCodes
<1>2. spent' \in [Proofs -> Requests \union {NoOne}]
  BY <1>1 DEF IInv, WellTyped
<1>3. /\ WellTyped' /\ Checked' /\ OneVerified' /\ ReadIsCurrent' /\ PinHistory' /\ ReadHistory'
      /\ PinMovesForward'
      /\ pin'[Of[r]] # NoPin
      /\ \A s \in Requests \ {r} : req'[s] = req[s]
      /\ \A a \in Accounts \ {Of[r]} : pin'[a] = pin[a]
  BY <1>1, <1>2, ChooseStep
<1>4. ProofsAreSpent'
  BY <1>1, <1>3, NothingSpent
<1>5. Served'
  BY <1>1, <1>3, ServedKept
<1>. QED BY <1>3, <1>4, <1>5 DEF IInv

\* A PIN is defined, whether or not there is one by now: its proof was unspent.
LEMMA DefineStep ==
  ASSUME IInv, NEW r \in Requests, DefinePin(r)
  PROVE  IInv'
<1>1. /\ Live(r) /\ Kind[r] = "set" /\ req[r].at # "done"
      /\ Chooses(r) /\ Ends(r) /\ UNCHANGED <<posted, before, usedCode>>
      /\ codes' \in {codes, [codes EXCEPT ![Of[r]] = @ \union {r}]}
      /\ spent[Proof[r]] = NoOne /\ spent' = [spent EXCEPT ![Proof[r]] = r]
  BY DEF DefinePin, Live, IssuesCodes, Spends, Unspent
<1>2. /\ Proof[r] \in Proofs /\ IssuedTo[Proof[r]] = Of[r] /\ IssuedFor[Proof[r]] = Purpose(r)
      /\ r # NoOne
  BY <1>1 DEF IInv, Checked, Verified
<1>3. spent' \in [Proofs -> Requests \union {NoOne}]
  BY <1>1, <1>2 DEF IInv, WellTyped
<1>4. /\ WellTyped' /\ Checked' /\ OneVerified' /\ ReadIsCurrent' /\ PinHistory' /\ ReadHistory'
      /\ PinMovesForward'
      /\ req'[r].at = "done" /\ pin'[Of[r]] # NoPin
      /\ \A s \in Requests \ {r} : req'[s] = req[s]
      /\ \A a \in Accounts \ {Of[r]} : pin'[a] = pin[a]
  BY <1>1, <1>3, ChooseStep
<1>6. Served'
  BY <1>1, <1>4, ServedKept
<1>7. ProofsAreSpent'
  <2>1. /\ spent'[Proof[r]] = r
        /\ \A p \in Proofs \ {Proof[r]} : spent'[p] = spent[p]
    BY <1>1, <1>2 DEF IInv, WellTyped
  <2>2. ASSUME NEW p \in Proofs, spent'[p] # NoOne
        PROVE  /\ Proof[spent'[p]] = p /\ req'[spent'[p]].at = "done"
               /\ IssuedTo[p] = Of[spent'[p]] /\ IssuedFor[p] = Purpose(spent'[p])
               /\ Kind[spent'[p]] = "transfer" => posted'[Key[spent'[p]]] = spent'[p]
    <3>1. CASE p = Proof[r]
      BY <1>1, <1>2, <1>4, <2>1, <3>1
    <3>2. CASE p # Proof[r]
      <4>1. PICK s \in Requests : s = spent[p] /\ s = spent'[p]
        BY <2>1, <2>2, <3>2 DEF IInv, WellTyped
      <4>2. /\ Proof[s] = p /\ req[s].at = "done"
            /\ IssuedTo[p] = Of[s] /\ IssuedFor[p] = Purpose(s)
            /\ Kind[s] = "transfer" => posted[Key[s]] = s
        BY <2>1, <2>2, <3>2, <4>1 DEF IInv, ProofsAreSpent
      <4>. QED BY <1>1, <1>4, <4>1, <4>2
    <3>. QED BY <3>1, <3>2
  <2>3. ASSUME NEW s \in Requests, Kind[s] = "set", req'[s].at = "done"
        PROVE  spent'[Proof[s]] = s
    <3>1. CASE s = r
      BY <2>1, <3>1
    <3>2. CASE s # r
      <4>1. req[s].at = "done" /\ spent[Proof[s]] = s
        BY <1>4, <2>3, <3>2 DEF IInv, ProofsAreSpent
      <4>2. s # NoOne
        OBVIOUS
      <4>. QED BY <1>1, <4>1, <4>2 DEF IInv, WellTyped
    <3>. QED BY <3>1, <3>2
  <2>4. ASSUME NEW k \in Keys, posted'[k] # NoOne, Kind[posted'[k]] = "transfer", High[posted'[k]]
        PROVE  Proof[posted'[k]] # NoProof /\ spent'[Proof[posted'[k]]] = posted'[k]
    <3>1. PICK s \in Requests : s = posted[k] /\ s = posted'[k]
      BY <1>1, <2>4 DEF IInv, WellTyped
    <3>2. Proof[s] # NoProof /\ spent[Proof[s]] = s
      <4>1. posted[k] # NoOne /\ Kind[posted[k]] = "transfer" /\ High[posted[k]]
        BY <2>4, <3>1
      <4>2. Proof[posted[k]] # NoProof /\ spent[Proof[posted[k]]] = posted[k]
        BY <4>1 DEF IInv, ProofsAreSpent
      <4>. QED BY <3>1, <4>2
    <3>3. Proof[s] # Proof[r] /\ Proof[s] \in Proofs
      BY <1>1, <3>2
    <3>. QED BY <2>1, <3>1, <3>2, <3>3
  <2>5. \A x : Purpose(x)' = Purpose(x)
    BY DEF Purpose
  <2>. QED BY <2>2, <2>3, <2>4, <2>5 DEF ProofsAreSpent
<1>. QED BY <1>4, <1>6, <1>7 DEF IInv

\* A payment: its key is unknown for as long as it has the PIN's row to itself, so it
\* spends its proof on the transfer it posts.
LEMMA PayStep ==
  ASSUME IInv, NEW r \in Requests, PayAgain(r) \/ Pay(r)
  PROVE  IInv'
<1>1. /\ req[r].at = "verified" /\ Live(r) /\ Kind[r] \in Paying /\ Kind[r] # "set"
      /\ pin' = PinAfter(r) /\ Ends(r) /\ UNCHANGED <<codes, retired, before, usedCode>>
      /\ Kind[r] # "admin"
      /\ Of[r] \in Accounts /\ r # NoOne /\ Key[r] \in Keys
  BY DEF PayAgain, Pay, Live, Paying
<1>2. /\ req'[r] = [at |-> "done", pin |-> NoPin, usable |-> FALSE, fresh |-> FALSE]
      /\ \A s \in Requests \ {r} : req'[s] = req[s]
      /\ req' \in [Requests -> ReqState]
  BY <1>1, EndFrame DEF Ends, IInv
<1>3. /\ req'[r].at = "done" /\ req'[r].pin = NoPin /\ ~req'[r].fresh
      /\ \A s \in Requests : req[s].at = "done" => req'[s].at = "done"
  BY <1>1, <1>2
<1>4. req[r].pin # NoPin /\ req[r].pin \in [by : Choice, legacy : BOOLEAN]
      /\ req[r].pin.by # NoOne
  BY <1>1 DEF IInv, Checked, ReadHistory, WellTyped, ReqState, Typing
<1>5. /\ \A a \in Accounts \ {Of[r]} : pin'[a] = pin[a]
      /\ pin'[Of[r]] = pin[Of[r]]
           \/ (/\ Of[r] \in Legacy
               /\ pin'[Of[r]].by = req[r].pin.by /\ pin'[Of[r]].legacy = FALSE)
      /\ pin' \in [Accounts -> [by : Choice, legacy : BOOLEAN]]
  <2>1. pin \in [Accounts -> [by : Choice, legacy : BOOLEAN]] /\ req[r].pin.by \in Choice
    BY <1>4 DEF IInv, WellTyped
  <2>2. CASE Rehashes(r)
    <3>1. Of[r] \in Legacy
      BY <2>2 DEF Rehashes, IInv, ReadHistory
    <3>2. pin' = [pin EXCEPT ![Of[r]] = [by |-> req[r].pin.by, legacy |-> FALSE]]
      BY <1>1, <2>2 DEF PinAfter
    <3>. QED BY <1>1, <2>1, <3>1, <3>2
  <2>3. CASE ~Rehashes(r)
    <3>1. pin' = pin
      BY <1>1, <2>1, <2>3 DEF PinAfter
    <3>. QED BY <2>1, <3>1
  <2>. QED BY <2>2, <2>3
<1>6. \A a \in Accounts : pin[a] # NoPin => pin'[a] # NoPin
  BY <1>1, <1>4, <1>5, NoPinIs
<1>7. /\ spent' \in [Proofs -> Requests \union {NoOne}]
      /\ posted' \in [Keys -> Requests \union {NoOne}]
      /\ \A k \in Keys \ {Key[r]} : posted'[k] = posted[k]
  <2>1. /\ spent \in [Proofs -> Requests \union {NoOne}]
        /\ posted \in [Keys -> Requests \union {NoOne}]
    BY DEF IInv, WellTyped
  <2>2. CASE PayAgain(r)
    BY <2>1, <2>2 DEF PayAgain
  <2>3. CASE Pay(r)
    <3>1. spent' = spent \/ spent' = [spent EXCEPT ![Proof[r]] = r]
      BY <2>3 DEF Pay, Spends
    <3>2. posted' = [posted EXCEPT ![Key[r]] = IF @ = NoOne THEN r ELSE @]
      BY <2>3 DEF Pay
    <3>. QED BY <1>1, <2>1, <3>1, <3>2
  <2>. QED BY <2>2, <2>3
<1>8. WellTyped'
  BY <1>1, <1>2, <1>5, <1>7 DEF IInv, WellTyped
<1>9. Checked'
  <2>1. \A s \in Requests : Verified(s)' <=> Verified(s)
    BY DEF Verified
  <2>. QED BY <1>1, <1>2, <1>3, <2>1 DEF IInv, Checked, Live
<1>10. OneVerified'
  <2>1. ASSUME NEW s \in Requests, req'[s].at = "verified"
        PROVE  s # r /\ req'[s] = req[s] /\ Key[s] # Key[r] /\ Key[s] \in Keys
    <3>1. s # r /\ req'[s] = req[s]
      BY <1>2, <1>3, <2>1
    <3>2. Of[s] # Of[r]
      BY <1>1, <2>1, <3>1 DEF IInv, OneVerified
    <3>. QED BY <3>1, <3>2
  <2>. QED BY <1>7, <2>1 DEF IInv, OneVerified
<1>11. ReadIsCurrent'
  <2>1. ASSUME NEW s \in Requests, Of[s] \in Serial, Live(s)'
        PROVE  s # r /\ Live(s) /\ Of[s] # Of[r] /\ req'[s] = req[s] /\ pin'[Of[s]] = pin[Of[s]]
    <3>1. s # r
      BY <1>3, <2>1 DEF Live
    <3>2. req'[s] = req[s] /\ Live(s)
      BY <1>2, <2>1, <3>1 DEF Live
    <3>3. Of[s] # Of[r]
      BY <1>1, <2>1, <3>1, <3>2 DEF IInv, ReadIsCurrent
    <3>. QED BY <1>5, <3>1, <3>2, <3>3
  <2>. QED BY <2>1 DEF IInv, ReadIsCurrent
<1>12. PinHistory'
  <2>1. ASSUME NEW a \in Accounts
        PROVE  /\ pin'[a].by \in Requests => req'[pin'[a].by].at = "done"
               /\ pin'[a].legacy => a \in Legacy
               /\ pin'[a].by = NoOne => pin'[a] = NoPin /\ a \notin WithPin
    <3>1. CASE pin'[a] = pin[a]
      BY <1>3, <3>1 DEF IInv, PinHistory
    <3>2. CASE pin'[a] # pin[a]
      <4>1. a \in Legacy /\ pin'[a].by = req[r].pin.by /\ pin'[a].legacy = FALSE
        BY <1>5, <3>2
      <4>. QED BY <1>3, <1>4, <4>1 DEF IInv, ReadHistory
    <3>. QED BY <3>1, <3>2
  <2>2. ASSUME NEW a \in Accounts, NEW c \in retired'[a]
        PROVE  c # NoOne /\ (c \in Requests => req'[c].at = "done")
    BY <1>1, <1>3, <2>2 DEF IInv, PinHistory
  <2>3. ASSUME NEW a \in Accounts, NEW c \in codes'[a], c # Original
        PROVE  c \in Requests /\ req'[c].at = "done"
    BY <1>1, <1>3, <2>3 DEF IInv, PinHistory
  <2>. QED BY <2>1, <2>2, <2>3 DEF PinHistory
<1>13. ReadHistory'
  <2>1. NoOne \notin Requests
    OBVIOUS
  <2>. QED BY <1>2, <1>3, <2>1, NoPinIs DEF IInv, ReadHistory
<1>14. PinMovesForward'
  <2>1. Of[r] \in Serial => pin'[Of[r]].by = pin[Of[r]].by
    BY <1>1, <1>5 DEF IInv, ReadIsCurrent
  <2>. QED BY <1>1, <1>5, <2>1 DEF IInv, PinMovesForward
<1>16. Served'
  BY <1>1, <1>2, <1>6, ServedKept
<1>15. ProofsAreSpent'
  <2>1. CASE PayAgain(r)
    BY <1>1, <1>2, <2>1, NothingSpent DEF PayAgain
  <2>2. CASE Pay(r)
    <3>2. posted[Key[r]] = NoOne /\ posted'[Key[r]] = r
      BY <1>1, <2>2 DEF Pay, IInv, OneVerified, WellTyped
    <3>3. /\ NeedsProof(r) =>
               /\ Proof[r] # NoProof /\ Proof[r] \in Proofs
               /\ IssuedTo[Proof[r]] = Of[r] /\ IssuedFor[Proof[r]] = Purpose(r)
               /\ spent[Proof[r]] = NoOne /\ spent'[Proof[r]] = r
               /\ \A p \in Proofs \ {Proof[r]} : spent'[p] = spent[p]
          /\ ~NeedsProof(r) => spent' = spent
      <4>1. CASE NeedsProof(r)
        <5>1. /\ Proof[r] # NoProof /\ Proof[r] \in Proofs /\ spent[Proof[r]] = NoOne
              /\ spent' = [spent EXCEPT ![Proof[r]] = r]
          BY <2>2, <4>1 DEF Pay, Spends, Unspent
        <5>2. Kind[r] = "transfer"
          BY <4>1 DEF NeedsProof
        <5>. QED BY <1>1, <4>1, <5>1, <5>2 DEF IInv, Checked, Verified, WellTyped
      <4>2. CASE ~NeedsProof(r)
        BY <2>2, <4>2 DEF Pay
      <4>. QED BY <4>1, <4>2
    <3>4. ASSUME NEW p \in Proofs, spent'[p] # NoOne
          PROVE  /\ Proof[spent'[p]] = p /\ req'[spent'[p]].at = "done"
                 /\ IssuedTo[p] = Of[spent'[p]] /\ IssuedFor[p] = Purpose(spent'[p])
                 /\ Kind[spent'[p]] = "transfer" => posted'[Key[spent'[p]]] = spent'[p]
      <4>1. CASE NeedsProof(r) /\ p = Proof[r]
        BY <1>3, <3>2, <3>3, <4>1
      <4>2. CASE ~(NeedsProof(r) /\ p = Proof[r])
        <5>1. PICK s \in Requests : s = spent[p] /\ s = spent'[p]
          BY <3>3, <3>4, <4>2 DEF IInv, WellTyped
        <5>2. /\ Proof[s] = p /\ req[s].at = "done"
              /\ IssuedTo[p] = Of[s] /\ IssuedFor[p] = Purpose(s)
              /\ Kind[s] = "transfer" => posted[Key[s]] = s
          BY <3>3, <3>4, <4>2, <5>1 DEF IInv, ProofsAreSpent
        <5>3. Kind[s] = "transfer" => posted'[Key[s]] = s
          BY <1>7, <3>2, <5>2
        <5>. QED BY <1>3, <5>1, <5>2, <5>3
      <4>. QED BY <4>1, <4>2
    <3>5. ASSUME NEW s \in Requests, Kind[s] = "set", req'[s].at = "done"
          PROVE  spent'[Proof[s]] = s
      <4>1. s # r /\ req[s].at = "done" /\ spent[Proof[s]] = s /\ s # NoOne
        BY <1>1, <1>2, <3>5 DEF IInv, ProofsAreSpent
      <4>2. CASE NeedsProof(r)
        <5>1. Proof[s] # Proof[r]
          BY <3>3, <4>1, <4>2
        <5>2. Proof[s] \in Proofs
          BY <3>5, <4>1 DEF IInv, Checked
        <5>. QED BY <3>3, <4>1, <4>2, <5>1, <5>2
      <4>3. CASE ~NeedsProof(r)
        BY <3>3, <4>1, <4>3
      <4>. QED BY <4>2, <4>3
    <3>6. ASSUME NEW k \in Keys, posted'[k] # NoOne, Kind[posted'[k]] = "transfer", High[posted'[k]]
          PROVE  Proof[posted'[k]] # NoProof /\ spent'[Proof[posted'[k]]] = posted'[k]
      <4>1. CASE k = Key[r]
        BY <3>2, <3>3, <3>6, <4>1 DEF NeedsProof
      <4>2. CASE k # Key[r]
        <5>1. posted'[k] = posted[k]
          BY <1>7, <4>2
        <5>2. Proof[posted[k]] # NoProof /\ spent[Proof[posted[k]]] = posted[k]
          BY <3>6, <5>1 DEF IInv, ProofsAreSpent
        <5>3. posted[k] \in Requests /\ Proof[posted[k]] \in Proofs
          BY <3>6, <5>1, <5>2 DEF IInv, WellTyped
        <5>4. spent'[Proof[posted[k]]] = spent[Proof[posted[k]]]
          BY <3>3, <3>6, <5>1, <5>2, <5>3
        <5>. QED BY <5>1, <5>2, <5>4
      <4>. QED BY <4>1, <4>2
    <3>7. \A x : Purpose(x)' = Purpose(x)
      BY DEF Purpose
    <3>. QED BY <3>4, <3>5, <3>6, <3>7 DEF ProofsAreSpent
  <2>. QED BY <2>1, <2>2
<1>. QED BY <1>8, <1>9, <1>10, <1>11, <1>12, <1>13, <1>14, <1>15, <1>16 DEF IInv

\* Every step keeps the invariant.
LEMMA NextIInv == IInv /\ [Next]_vars => IInv'
<1>. SUFFICES ASSUME IInv, [Next]_vars PROVE IInv'
  OBVIOUS
<1>1. ASSUME NEW r \in Requests,
             \/ SetBegin(r) \/ ChangeBegin(r) \/ ResetBegin(r)
             \/ AdminBegin(r) \/ TransferBegin(r) \/ MerchantBegin(r)
      PROVE  IInv'
  BY <1>1, BeginStep
<1>2. ASSUME NEW r \in Requests, Verify(r) \/ SetReadAgain(r) PROVE IInv'
  BY <1>2, VerifyStep, ReadAgainStep
<1>3. ASSUME NEW r \in Requests, Refused(r) PROVE IInv'
  BY <1>3, RefusedStep
<1>4. ASSUME NEW r \in Requests, DefinePin(r) PROVE IInv'
  BY <1>4, DefineStep
<1>5. ASSUME NEW r \in Requests, ChangePin(r) \/ ResetPin(r) \/ AdminResetPin(r) PROVE IInv'
  BY <1>5, RechooseStep
<1>6. ASSUME NEW r \in Requests, PayAgain(r) \/ Pay(r) PROVE IInv'
  BY <1>6, PayStep
<1>7. CASE UNCHANGED vars
  <2>1. UNCHANGED <<pin, codes, usedCode, spent, posted, retired, before, req>>
    BY <1>7 DEF vars
  <2>2. WellTyped' /\ ReadIsCurrent' /\ OneVerified' /\ ReadHistory' /\ Served'
    BY <2>1 DEF IInv, WellTyped, ReadIsCurrent, OneVerified, ReadHistory, Served, Live
  <2>3. Checked'
    <3>1. \A s \in Requests : Verified(s)' <=> Verified(s)
      BY DEF Verified
    <3>. QED BY <2>1, <3>1 DEF IInv, Checked, Live
  <2>4. PinHistory' /\ ProofsAreSpent' /\ PinMovesForward'
    BY <2>1, RowsKept DEF IInv
  <2>. QED BY <2>2, <2>3, <2>4 DEF IInv
<1>. QED BY <1>1, <1>2, <1>3, <1>4, <1>5, <1>6, <1>7 DEF Next

-----------------------------------------------------------------------------
(* The theorems *)

LEMMA Invariant == Spec => []IInv
BY InitIInv, NextIInv, PTL DEF Spec

\* Each step-up proof is spent on one thing, and nothing that needs a proof is done
\* without: the row lock that verifying a PIN takes makes retries with one key meet.
THEOREM ProofsSpentOnce == Spec => []ProofsAreSpent
BY Invariant, PTL DEF IInv

\* A replaced PIN does not come back, but by the new hash of a legacy one.
THEOREM PinForward == Spec => []PinMovesForward
BY Invariant, PTL DEF IInv

\* Of any number of requests, none defines a PIN or uses a recovery code that was
\* defined, reset by support or used before it began.
THEOREM ServedOnce == Spec => []ServesOnce
<1>1. IInv => ServesOnce
  BY DEF IInv, Served, ServesOnce
<1>. QED BY <1>1, Invariant, PTL
=============================================================================
