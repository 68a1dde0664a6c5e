\* Two withdrawals, a transfer and one of two deposits on one account; w1 is sent twice.
SPECIFICATION Spec
\* Once every operation ended, nothing has to happen.
CHECK_DEADLOCK FALSE
CONSTANTS
  a1 = a1
  a2 = a2
  d1 = d1
  d2 = d2
  w1 = w1
  w2 = w2
  t1 = t1
  k1 = k1
  k2 = k2
  c1 = c1
  Accounts = {a1, a2}
  Deposits = {d1, d2}
  Withdrawals = {w1, w2}
  Transfers = {t1}
  owner <- MCOwner
  payee <- MCPayee
  size <- MCSize
  opening <- MCOpening
  Calls = {k1, k2}
  First = k1
  Resent = {w1}
  Checkers = {c1}
  Contended = {w1}
  Unreliable = {w1}
  Abandonable = {}
  Unstated = {d2}
  Suspendable = {a1}
CONSTRAINT OneDeposit
INVARIANTS
  NoOverdraft
  CreditedIsCollected
  PaidOutIsDebited
PROPERTIES
  FrozenKeeps
