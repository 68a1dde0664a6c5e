\* Two workers, whose runs overlap on p2 only.
SPECIFICATION PayoutsLiveSpec
\* Once every payout ended, nothing has to happen.
CHECK_DEADLOCK FALSE
CONSTANTS
  p1 = p1
  p2 = p2
  w1 = w1
  w2 = w2
  Payouts = {p1, p2}
  Runs = {w1, w2}
  Overlapped = {p2}
  GatewayErrors = {p2}
INVARIANTS
  SucceededIsPaid
  OneVerdict
PROPERTIES
  PaidIsConfirmed
