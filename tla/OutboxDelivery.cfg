\* Two workers; a batch with m2 in it may outlast its lease.
SPECIFICATION LiveSpec
\* Once every event is delivered or given up, nothing has to happen.
CHECK_DEADLOCK FALSE
CONSTANTS
  m1 = m1
  m2 = m2
  w1 = w1
  w2 = w2
  Messages = {m1, m2}
  Routed = {m1, m2}
  Workers = {w1, w2}
  MaxAttempts = 2
  MaxReplays = 1
  Slow = {m2}
INVARIANTS
  DeliveredWasReceived
  SingleSender
PROPERTIES
  EveryEventIsDealtWith
