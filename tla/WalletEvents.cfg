\* Two processes and a relay job, two payments, a fault.
SPECIFICATION FairSpec
\* Once all is told and relayed, nothing has to happen.
CHECK_DEADLOCK FALSE
CONSTANTS
  u1 = u1
  u2 = u2
  p1 = p1
  p2 = p2
  w1 = w1
  w2 = w2
  d1 = d1
  d2 = d2
  heal = heal
  job = job
  Processes = {w1, w2}
  Job = job
  Payments = {d1, d2}
  Direct = {d1}
  Limit = 2
  News <- MCNews
  Requests = {heal}
  Ask <- MCAsk
  MaxFaults = 1
  Starts <- MCStarts
INVARIANTS
  PublishedWasSent
  NewsIsKept
PROPERTIES
  BookedIsSent
