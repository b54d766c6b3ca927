CONSTANTS
  c1 = c1
  c2 = c2
  c3 = c3
  c4 = c4
  Calls = {c1, c2, c3, c4}
  Files = {1, 2}
  Contents = {"short", "long"}
  Bytes <- MCBytes
  Hits <- MCHits
  Secret = {"long"}
  SecretPaths = {2}
  Remembered <- MCRemembered
  WorkspaceNotes = "long"
  PackMaxBytes = 10
  PackMaxTokens = 3
  Committed <- MCCommitted
  Diets <- MCDiets
  FirstDisks <- MCDisks
  MaxOverlap = 2
  MaxEdits = 2
  MaxCallDeaths = 1
SPECIFICATION ContextSpec
SYMMETRY MCCallSymmetry
INVARIANTS
  IndexMatchesMission
  AttachedIsListed
  PackFits
  FlagCoversPack
  LoggedHasArtifact
CHECK_DEADLOCK FALSE
