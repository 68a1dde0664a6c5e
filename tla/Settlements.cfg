\* Two requests among six orders on two payments, and a payout, over two days.
SPECIFICATION Spec
\* Every request ends.
CHECK_DEADLOCK FALSE
CONSTANTS
  p1 = p1
  p2 = p2
  o1 = o1
  r1 = r1
  r2 = r2
  s1 = s1
  s2 = s2
  e1 = e1
  e2 = e2
  e3 = e3
  f1 = f1
  f2 = f2
  Intents = {p1, p2}
  Payouts = {o1}
  Requests = {r1, r2}
  Orders <- MCOrders
  Gross <- MCGross
  Events = {e1, e2, e3}
  Confirms <- MCConfirms
  Fee <- MCFee
  Refunds = {f1, f2}
  GivesBack <- MCGivesBack
  Given <- MCGiven
  Service <- MCService
  Processor <- MCProcessor
  Flow <- MCFlow
  LastDay = 2
SYMMETRY Alike
CONSTRAINT SecondDay
INVARIANTS
  CommandOnce
  ReportsAddUp
PROPERTIES
  CommandsAreAtomic
  SettlementsFit
