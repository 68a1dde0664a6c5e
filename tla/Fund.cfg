\* Two wallet investments, one with a key that another transaction may have, two
\* orders (o2 requested twice), and a loan, repaid in up to two calls.
SPECIFICATION Spec
\* Once everything was answered, nothing has to happen.
CHECK_DEADLOCK FALSE
CONSTANTS
  c1 = c1
  w1 = w1
  w2 = w2
  o1 = o1
  o2 = o2
  k1 = k1
  k2 = k2
  n1 = n1
  l1 = l1
  r1 = r1
  r2 = r2
  Campaigns = {c1}
  WalletKeys = {w1, w2}
  Shared = {w2}
  OrderKeys = {o1, o2}
  Calls = {k1, k2}
  First = k1
  Resent = {o2}
  News = {n1}
  Loans = {l1}
  Permille = 250
  RepayKeys = {r1, r2}
  MaxRepayment = 2
  Retried = {}
  Goal <- MCGoal
  Unreachable <- MCUnreachable
  Into <- MCInto
  Size <- MCSize
  PoolOf <- MCPoolOf
  Terms <- MCTerms
  RepaymentOf <- MCRepaymentOf
INVARIANTS
  RaisedIsInvested
  InvestedIsFunded
  InstalmentsAddUp
PROPERTIES
  PaidBecomesInvestment
