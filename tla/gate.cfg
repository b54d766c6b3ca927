CONSTANTS
  a1 = a1
  a2 = a2
  d1 = d1
  d2 = d2
  e1 = e1
  Requests <- TwoRequests
  Deciders <- TwoDeciders
  Resumes <- OneResume
  MaxDeaths = 1
SPECIFICATION Spec
SYMMETRY Alike
INVARIANTS
  NeverUnapproved
  CopiesAgree
PROPERTIES
  ImplementsConsent
  RulingsStand
CHECK_DEADLOCK FALSE
