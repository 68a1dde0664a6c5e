\* Two conversions from one account, one of them sent again, and one the other way.
SPECIFICATION Spec
\* Every request ends.
CHECK_DEADLOCK FALSE
CONSTANTS
  x1 = x1
  e1 = e1
  x2 = x2
  r1 = r1
  r2 = r2
  r3 = r3
  r4 = r4
  k1 = k1
  k3 = k3
  k4 = k4
  Currencies = {"XOF", "EUR"}
  Accounts = {x1, e1, x2}
  Requests = {r1, r2, r3, r4}
  Places = 10000
  Minor <- MCMinor
  Currency <- MCCurrency
  Opening <- MCOpening
  Source <- MCSource
  Target <- MCTarget
  Amount <- MCAmount
  Key <- MCKey
  Quotations <- MCQuotations
INVARIANTS
  BothLegs
  SourcesCover
  RemainderIsSmall
