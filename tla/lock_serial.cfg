CONSTANTS
  p1 = p1
  p2 = p2
  p3 = p3
  p4 = p4
  NoPid = NoPid
  Procs <- Four
  SerialStarts = TRUE
SPECIFICATION FairLockSpec
INVARIANTS
  SingleInstance
PROPERTIES
  StartsEnd
CHECK_DEADLOCK FALSE
