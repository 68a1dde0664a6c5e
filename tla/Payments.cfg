\* One payment that may be cancelled, with every kind of webhook, a reconciliation
\* worker that may die, and three competing refunds.
\* A payment that failed or was refunded in full stops: nothing has to follow.
CHECK_DEADLOCK FALSE
SPECIFICATION Spec
CONSTANTS
  i1 = i1
  i2 = i2
  r1 = r1
  r2 = r2
  r3 = r3
  Intents = {i1}
  Refunds = {r1, r2, r3}
  RefundOf <- MCRefundOf
  RefundAmount <- MCRefundAmount
  Amount = 3
  Pushed = {"succeeded", "failed"}
  MaxHandlers = 1
  Cancellable = {i1}
  LateSuccess = TRUE
  ErrorPages = {r2}
  BatchLimit = 1
  WorkerCrashes = TRUE
INVARIANTS
  RefundsWithinCapture
  PaidIsBacked
PROPERTIES
  PromiseKept
