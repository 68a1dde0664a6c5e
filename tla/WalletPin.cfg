\* Three wallets, one at a time.
SPECIFICATION Spec
\* Once every request was answered, nothing has to happen.
CHECK_DEADLOCK FALSE
CONSTANTS
  a1 = a1
  a2 = a2
  a3 = a3
  change = change
  recover = recover
  high1 = high1
  high2 = high2
  high3 = high3
  set1 = set1
  set2 = set2
  support = support
  lost1 = lost1
  lost2 = lost2
  old1 = old1
  old2 = old2
  p1 = p1
  p2 = p2
  p3 = p3
  p4 = p4
  k0 = k0
  k1 = k1
  k2 = k2
  k3 = k3
  NoProof = NoProof
  Accounts = {a1, a2, a3}
  Serial = {a3}
  Requests = {change, recover, high1, high2, high3, set1, set2, support, lost1, lost2, old1, old2}
  Proofs = {p1, p2, p3, p4}
  Keys = {k0, k1, k2, k3}
  WithPin = {a1, a3}
  Legacy = {a3}
  Of <- MCOf
  Kind <- MCKind
  Proof <- MCProof
  IssuedTo <- MCIssuedTo
  IssuedFor <- MCIssuedFor
  Key <- MCKey
  High <- MCHigh
  Code <- MCCode
CONSTRAINT OneWallet
INVARIANTS
  ProofsAreSpent
  PinMovesForward
  ServesOnce
