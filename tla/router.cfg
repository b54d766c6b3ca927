CONSTANTS
  c1 = c1
  c2 = c2
  c3 = c3
  Calls = {c1, c2, c3}
  Endpoints = {"cloud", "backup", "local", "spare", "stub"}
  Stubs = {"stub"}
  Loopback = {"local"}
  Keyless = {"spare"}
  EnvEndpoint = "stub"
  Routings <- MCRoutings
  Policies <- MCPolicies
  PerCall = 2
  NoLimit = 99
  MaxOverlap = 2
  MaxEdits = 1
  MaxDeaths = 1
SPECIFICATION Spec
SYMMETRY MCCallSymmetry
INVARIANTS
  CloudNeedsConsent
  ConsentOnce
  BudgetKept
  PlanIsAccounted
CHECK_DEADLOCK FALSE
