SPECIFICATION Spec
CONSTANTS
  c1 = c1
  c2 = c2
  c3 = c3
  o1 = o1
  q1 = q1
  Calls <- MCCalls
  OldItems <- MCOldItems
  OldProposals <- MCOldProposals
  MaxOverlap = 2
  MaxTicks = 1
  MaxSkips = 2
  MaxThrows = 2
  MaxDeaths = 1
SYMMETRY Symmetry
CHECK_DEADLOCK FALSE
INVARIANTS
  RevokedStaysRevoked
  MigrationComplete
  OneItemPerApproval
  
  OneMissionPerSuggestion

