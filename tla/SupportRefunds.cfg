\* Two support requests and a direct one that fit only in some combinations.
SPECIFICATION SupportSpec
\* Once a payment is refunded and every request is answered, nothing has to happen.
CHECK_DEADLOCK FALSE
CONSTANTS
  i1 = i1
  r1 = r1
  r2 = r2
  r3 = r3
  Intents = {i1}
  Refunds = {r1, r2, r3}
  RefundOf <- MCRefundOf
  RefundAmount <- MCRefundAmount
  Amount = 3
  Pushed = {"succeeded", "failed"}
  MaxHandlers = 1
  Cancellable = {}
  LateSuccess = TRUE
  ErrorPages = {r1}
  BatchLimit = 1
  WorkerCrashes = TRUE
  Supported = {r1, r2}
INVARIANTS
  AuditIsTrue
