CONSTANTS
  r1 = r1
  r2 = r2
  r3 = r3
  t1 = t1
  t2 = t2
  Reminds = {r1, r2, r3}
  Ticks = {t1, t2}
  Serial = TRUE
  MayFail = TRUE
  MaxCrashes = 2
SPECIFICATION FairReminders
INVARIANTS
  DeliveredOnce
  MarkedIsAccounted
PROPERTIES
  DueIsSettled
CHECK_DEADLOCK FALSE
