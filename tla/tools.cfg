SPECIFICATION Spec
CONSTANTS
  Calls = {c1, c2}
  Targets = {"a"}
  Dangerous = {}
  Requests <- MCRequests
  Policies <- MCPolicies
  Absent = Absent
  MaxDeaths = 1
  MaxTries = 2
  MaxEdits = 1
  MaxRewinds = 2
  MaxOverlap = 1
INVARIANTS RewindRestores OnceUnlessFailed ListedHasFile
PROPERTY NoStalePolicy
SYMMETRY Symmetry
CHECK_DEADLOCK FALSE
