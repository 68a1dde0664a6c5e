----------------------------- MODULE WalletPin -----------------------------
(***************************************************************************)
(* The PIN of a wallet, its recovery codes, and the step-up proofs issued  *)
(* by DiddiFreeID that some requests must spend.  A request is one         *)
(* transaction; it reads PIN and codes without a lock, and the row of the  *)
(* PIN is its own from its first write on: verifying a PIN is a write.     *)
(***************************************************************************)
EXTENDS Naturals, FiniteSets

CONSTANTS
  Accounts, Serial,       \* Serial: their requests come one after the other
  Requests, Of, Kind,     \* requests, their accounts and what they ask for
  Proofs, Proof, NoProof, \* step-up proofs, and the one a request presents
  IssuedTo, IssuedFor,    \* the account and the purpose a proof names
  Keys, Key, High,        \* of payments: the key, and whether above the threshold
  Code,                   \* of resets: the request that issued the code used
  WithPin, Legacy         \* accounts with a PIN, some hashed the old way

Kinds == {"set", "change", "reset", "admin", "transfer", "merchant"}
Paying == {"transfer", "merchant"}
Typing == Paying \union {"change"}    \* these type the PIN
NoOne == "no one"
Original == "original"                \* who chose the PIN and the codes at the start
Choosers == Requests \union {Original}

Purpose(r) == IF Kind[r] = "set" THEN "wallet.pin.set" ELSE "wallet.transfer.high_value"

ASSUME PinAssumption ==
  /\ Serial \subseteq Accounts /\ WithPin \subseteq Accounts /\ Legacy \subseteq WithPin
  /\ Of \in [Requests -> Accounts] /\ Kind \in [Requests -> Kinds]
  /\ Proof \in [Requests -> Proofs \union {NoProof}] /\ NoProof \notin Proofs
  /\ IssuedTo \in [Proofs -> Accounts]
  /\ Key \in [Requests -> Keys] /\ High \in [Requests -> BOOLEAN]
  /\ Code \in [Requests -> Choosers]
  /\ {NoOne, Original} \intersect Requests = {}
  \* A key is a client's own.
  /\ \A r, s \in Requests : Key[r] = Key[s] => Of[r] = Of[s]

VARIABLES
  pin,       \* wallet.transaction_pins: who chose the PIN, hashed which way
  codes,     \* codes in wallet.transaction_pin_recovery_codes, by issuer (one of six)
  usedCode,  \* the requests that consumed a code
  spent,     \* wallet.consumed_step_up_proofs: the request that spent a proof
  posted,    \* wallet.transactions: the payment of each key
  retired,   \* PINs that were replaced
  before,    \* of each request: those of its wallet that were done when it began
  req        \* each request: where it is and what it read

vars == <<pin, codes, usedCode, spent, posted, retired, before, req>>

PinRow == [by : Choosers \union {NoOne}, legacy : BOOLEAN]
RequestState == [at : {"idle", "read", "again", "verified", "done", "refused"},
                 pin : PinRow,                \* the row as it was read last
                 usable : BOOLEAN,            \* its code was unused
                 fresh : BOOLEAN]             \* its key was unknown

NoPin == [by |-> NoOne, legacy |-> FALSE]
Blank(at) == [at |-> at, pin |-> NoPin, usable |-> FALSE, fresh |-> FALSE]

Init ==
  /\ pin = [a \in Accounts |->
              IF a \in WithPin THEN [by |-> Original, legacy |-> a \in Legacy] ELSE NoPin]
  /\ codes = [a \in Accounts |-> IF a \in WithPin THEN {Original} ELSE {}]
  /\ usedCode = [a \in Accounts |-> [c \in Choosers |-> {}]]
  /\ spent = [p \in Proofs |-> NoOne]
  /\ posted = [k \in Keys |-> NoOne]
  /\ retired = [a \in Accounts |-> {}]
  /\ before = [r \in Requests |-> {}]
  /\ req = [r \in Requests |-> Blank("idle")]

-----------------------------------------------------------------------------
(* Reading, and the lock *)

Ends(r) == req' = [req EXCEPT ![r] = Blank("done")]

\* decode_step_up_token: a proof presented must name this user and this purpose.
Verified(r) == IssuedTo[Proof[r]] = Of[r] /\ IssuedFor[Proof[r]] = Purpose(r)

\* reset_pin_with_recovery: one of the account's codes, not consumed yet.
Usable(r) == Code[r] \in codes[Of[r]] /\ usedCode[Of[r]][Code[r]] = {}

Underway == {"read", "again", "verified"}
Busy(a) == \E r \in Requests : Of[r] = a /\ req[r].at \in Underway

\* A request reads the row of the PIN and the codes.
Reads(r) ==
  /\ req[r].at = "idle"
  /\ Of[r] \in Serial => ~Busy(Of[r])
  /\ req' = [req EXCEPT ![r] = [at |-> "read", pin |-> pin[Of[r]],
                                 usable |-> Usable(r), fresh |-> FALSE]]
  /\ before' = [before EXCEPT ![r] = {s \in Requests : Of[s] = Of[r] /\ req[s].at = "done"}]
  /\ UNCHANGED <<pin, codes, usedCode, spent, posted, retired>>

\* A wrong PIN is refused, and the refusal takes the count of failures with it:
\* a request goes on only with the PIN that it read, and no PIN is ever locked.
ReadsPin(r) == pin[Of[r]] # NoPin /\ Reads(r)

\* Mutant: set_pin is trusted with a PIN that is there.
Undefined_Any(r) == TRUE

Undefined(r) == pin[Of[r]] = NoPin

\* A PIN is defined where there is none, and with a proof.
SetBegin(r) ==
  /\ Kind[r] = "set" /\ Proof[r] # NoProof /\ Verified(r)
  /\ Undefined(r)
  /\ Reads(r)

\* The proof is consumed, the PIN hashed; then set_pin reads the row again.
SetReadAgain(r) ==
  /\ Kind[r] = "set" /\ req[r].at = "read"
  /\ req' = [req EXCEPT ![r] = [at |-> "again", pin |-> pin[Of[r]],
                                 usable |-> @.usable, fresh |-> @.fresh]]
  /\ UNCHANGED <<pin, codes, usedCode, spent, posted, retired, before>>

ChangeBegin(r) == Kind[r] = "change" /\ ReadsPin(r)

ResetBegin(r) == Kind[r] = "reset" /\ Usable(r) /\ Reads(r)

AdminBegin(r) == Kind[r] = "admin" /\ Reads(r)

\* A proof is looked at only when there is one.
TransferBegin(r) ==
  /\ Kind[r] = "transfer" /\ (Proof[r] # NoProof => Verified(r))
  /\ ReadsPin(r)

MerchantBegin(r) == Kind[r] = "merchant" /\ ReadsPin(r)

\* Mutant: clear_lock writes nothing when there is nothing to clear.
Free_Always(r) == TRUE

\* The row of the PIN is locked by the request that wrote it.
Free(r) == \A s \in Requests : Of[s] = Of[r] /\ req[s].at = "verified" => s = r

\* _verify_pin succeeds and clear_lock writes the row; transferer_p2p then looks
\* for the key, payer_marchand leaves that to the ledger.
Verify(r) ==
  /\ req[r].at = "read" /\ Kind[r] \in Typing
  /\ Free(r)
  /\ req' = [req EXCEPT ![r] = [at |-> "verified", pin |-> @.pin, usable |-> @.usable,
                                 fresh |-> posted[Key[r]] = NoOne]]
  /\ UNCHANGED <<pin, codes, usedCode, spent, posted, retired, before>>

\* An error or the end of the process: everything is rolled back.
Refused(r) ==
  /\ req[r].at \in Underway
  /\ req' = [req EXCEPT ![r] = Blank("refused")]
  /\ UNCHANGED <<pin, codes, usedCode, spent, posted, retired, before>>

-----------------------------------------------------------------------------
(* Writing *)

\* set_pin: whatever is there is replaced.
Chooses(r) ==
  /\ pin' = [pin EXCEPT ![Of[r]] = [by |-> r, legacy |-> FALSE]]
  /\ retired' = [retired EXCEPT ![Of[r]] = @ \union ({pin[Of[r]].by} \ {NoOne})]

\* Six codes, added to those there are.
IssuesCodes(r) == codes' = [codes EXCEPT ![Of[r]] = @ \union {r}]

\* The primary key of consumed_step_up_proofs.
Unspent(p) == spent[p] = NoOne

Spends(r) == Unspent(Proof[r]) /\ spent' = [spent EXCEPT ![Proof[r]] = r]

\* A row that was not there when set_pin read it is inserted, which fails if it is
\* there now; one that was is replaced.
Insertable(r) == req[r].pin = NoPin => pin[Of[r]] = NoPin

DefinePin(r) ==
  /\ Kind[r] = "set" /\ req[r].at = "again" /\ Free(r)
  /\ Spends(r)
  /\ Insertable(r)
  /\ Chooses(r)
  /\ IssuesCodes(r)
  /\ Ends(r)
  /\ UNCHANGED <<usedCode, posted, before>>

ChangePin(r) ==
  /\ Kind[r] = "change" /\ req[r].at = "verified"
  /\ Chooses(r)
  /\ Ends(r)
  /\ UNCHANGED <<codes, usedCode, spent, posted, before>>

ResetPin(r) ==
  /\ Kind[r] = "reset" /\ req[r].at = "read" /\ Free(r)
  /\ req[r].usable
  /\ usedCode' = [usedCode EXCEPT ![Of[r]][Code[r]] = @ \union {r}]
  /\ Chooses(r)
  /\ Ends(r)
  /\ UNCHANGED <<codes, spent, posted, before>>

AdminResetPin(r) ==
  /\ Kind[r] = "admin" /\ req[r].at = "read" /\ Free(r)
  /\ Insertable(r)
  /\ Chooses(r)
  /\ IssuesCodes(r)
  /\ Ends(r)
  /\ UNCHANGED <<usedCode, spent, posted, before>>

\* Mutant: check_needs_rehash says yes to every hash.
Rehashes_Always(r) == TRUE

\* A PIN hashed the old way is hashed anew: the PIN that was read.
Rehashes(r) == req[r].pin.legacy

PinAfter(r) ==
  [pin EXCEPT ![Of[r]] = IF Rehashes(r) THEN [by |-> req[r].pin.by, legacy |-> FALSE] ELSE @]

\* _require_transfer_step_up
NeedsProof(r) == Kind[r] = "transfer" /\ High[r]

\* A key seen before answers with its transaction, and for transfers without
\* asking for a proof, if it was the same transfer.
PayAgain(r) ==
  /\ Kind[r] \in Paying /\ req[r].at = "verified"
  /\ ~req[r].fresh
  /\ Kind[r] = "transfer" => Kind[posted[Key[r]]] = "transfer" /\ High[posted[Key[r]]] = High[r]
  /\ pin' = PinAfter(r)
  /\ Ends(r)
  /\ UNCHANGED <<codes, usedCode, spent, posted, retired, before>>

\* The ledger posts once per key.
Pay(r) ==
  /\ Kind[r] \in Paying /\ req[r].at = "verified"
  /\ req[r].fresh
  /\ IF NeedsProof(r) THEN Proof[r] # NoProof /\ Spends(r) ELSE UNCHANGED spent
  /\ posted' = [posted EXCEPT ![Key[r]] = IF @ = NoOne THEN r ELSE @]
  /\ pin' = PinAfter(r)
  /\ Ends(r)
  /\ UNCHANGED <<codes, usedCode, retired, before>>

Next == \E r \in Requests :
  \/ SetBegin(r) \/ SetReadAgain(r) \/ ChangeBegin(r) \/ ResetBegin(r)
  \/ AdminBegin(r) \/ TransferBegin(r) \/ MerchantBegin(r)
  \/ Verify(r) \/ Refused(r)
  \/ DefinePin(r) \/ ChangePin(r) \/ ResetPin(r) \/ AdminResetPin(r)
  \/ PayAgain(r) \/ Pay(r)

Spec == Init /\ [][Next]_vars

-----------------------------------------------------------------------------
(* Properties *)

TypeOK ==
  /\ pin \in [Accounts -> PinRow]
  /\ codes \in [Accounts -> SUBSET Choosers]
  /\ usedCode \in [Accounts -> [Choosers -> SUBSET Requests]]
  /\ spent \in [Proofs -> Requests \union {NoOne}]
  /\ posted \in [Keys -> Requests \union {NoOne}]
  /\ retired \in [Accounts -> SUBSET Choosers]
  /\ before \in [Requests -> SUBSET Requests]
  /\ req \in [Requests -> RequestState]

\* A proof is spent on one thing, done in the same transaction: the one transfer
\* above the threshold that its key stands for, or the PIN it let define; and no
\* such transfer or PIN is without.  Retries with one key, sent at once with a
\* proof each, leave the proofs of the losers unspent: the lock that verifying
\* the PIN takes makes them meet the transfer already posted.
ProofsAreSpent ==
  /\ \A p \in Proofs : spent[p] # NoOne =>
       /\ Proof[spent[p]] = p /\ req[spent[p]].at = "done"
       /\ IssuedTo[p] = Of[spent[p]] /\ IssuedFor[p] = Purpose(spent[p])
       /\ Kind[spent[p]] = "transfer" => posted[Key[spent[p]]] = spent[p]
  /\ \A k \in Keys : posted[k] # NoOne /\ Kind[posted[k]] = "transfer" /\ High[posted[k]] =>
       Proof[posted[k]] # NoProof /\ spent[Proof[posted[k]]] = posted[k]
  /\ \A r \in Requests : Kind[r] = "set" /\ req[r].at = "done" => spent[Proof[r]] = r

\* A PIN that was replaced is never the wallet's PIN again, whatever payments that
\* verified it are still under way; of wallets with an old hash, this is so only
\* where requests do not meet.
PinMovesForward ==
  \A a \in Accounts : a \notin Legacy \/ a \in Serial => pin[a].by \notin retired[a]

\* What serves once serves nobody who comes later: no PIN is defined by a request
\* that began after a definition, or a reset by support, was done, and no recovery
\* code resets a PIN again for one that began after its reset.  Those that are
\* under way at once may each succeed.
ServesOnce ==
  \A r \in Requests : req[r].at = "done" =>
    /\ Kind[r] = "set" => Of[r] \notin WithPin
                           /\ \A s \in before[r] : Kind[s] \notin {"set", "admin"}
    /\ Kind[r] = "reset" => \A s \in before[r] : s \notin usedCode[Of[r]][Code[r]]
=============================================================================
