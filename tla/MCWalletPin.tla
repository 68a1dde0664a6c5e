---------------------------- MODULE MCWalletPin ----------------------------
(***************************************************************************)
(* Three wallets: one with a PIN, whose requests meet; one without, whose  *)
(* PIN is set twice, by support, and reset twice with a code support gave; *)
(* one with an old hash, used by one device at a time.                     *)
(***************************************************************************)
EXTENDS WalletPin, TLC

CONSTANTS a1, a2, a3, change, recover, high1, high2, high3,
          set1, set2, support, lost1, lost2, old1, old2, p1, p2, p3, p4,
          k0, k1, k2, k3

MCOf == [r \in Requests |-> CASE r \in {set1, set2, support, lost1, lost2} -> a2
                              [] r \in {old1, old2} -> a3
                              [] OTHER -> a1]
MCKind == [r \in Requests |-> CASE r = change -> "change"
                                [] r \in {high1, high2, high3} -> "transfer"
                                [] r = old1 -> "merchant"
                                [] r = support -> "admin"
                                [] r \in {set1, set2} -> "set"
                                [] OTHER -> "reset"]
\* high2 is high1 sent again with a new proof, high3 another transfer with the
\* proof of high1.
MCProof == [r \in Requests |-> CASE r \in {high1, high3} -> p1 [] r = high2 -> p2
                                 [] r = set1 -> p3 [] r = set2 -> p4 [] OTHER -> NoProof]
MCKey == [r \in Requests |-> CASE r = high3 -> k3 [] Of[r] = a3 -> k2
                               [] Of[r] = a2 -> k0 [] OTHER -> k1]
MCHigh == [r \in Requests |-> r \in {high1, high2, high3}]
MCCode == [r \in Requests |-> IF r \in {lost1, lost2} THEN support ELSE "original"]
MCIssuedTo == [p \in Proofs |-> IF p \in {p3, p4} THEN a2 ELSE a1]
MCIssuedFor == [p \in Proofs |->
  IF p \in {p3, p4} THEN "wallet.pin.set" ELSE "wallet.transfer.high_value"]

\* Wallets share nothing, keys and proofs included: what happens to one happens
\* whatever the others do.
OneWallet == \A r, s \in Requests :
  req[r].at # "idle" /\ req[s].at # "idle" => Of[r] = Of[s]
=============================================================================
