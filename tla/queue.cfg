CONSTANTS
  c1 = c1
  c2 = c2
  c3 = c3
  t1 = t1
  t2 = t2
  None = None
  Calls <- ManyCalls
  HttpCalls <- Served
  Scheduled <- Timed
  Ticks <- TwoTicks
  MaxPending = 2
  MaxCrashes = 2
SPECIFICATION FairSpec
INVARIANTS
  ClaimedNeverWaits
  NoForgottenClaim
PROPERTIES
  ImplementsJobQueue
  AcceptedFinishes
CHECK_DEADLOCK FALSE
