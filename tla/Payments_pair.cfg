\* Two intents that one reconciliation run handles together, one of which its client may
\* cancel, with webhooks and no refunds.
\* A payment that failed or was refunded in full stops: nothing has to follow.
CHECK_DEADLOCK FALSE
SPECIFICATION LiveSpec
CONSTANTS
  i1 = i1
  i2 = i2
  r1 = r1
  r2 = r2
  r3 = r3
  Intents = {i1, i2}
  Refunds = {}
  RefundOf <- MCRefundOf
  RefundAmount <- MCRefundAmount
  Amount = 3
  Pushed = {"succeeded"}
  MaxHandlers = 1
  Cancellable = {i2}
  LateSuccess = FALSE
  ErrorPages = {}
  BatchLimit = 2
  WorkerCrashes = FALSE
INVARIANTS
  CaptureOnce
  FailedIsUncharged
PROPERTIES
  PaidIsForever
  ChargedIsRecovered
