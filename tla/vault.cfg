CONSTANTS
  c1 = c1
  c2 = c2
  c3 = c3
  c4 = c4
  Calls = {c1, c2, c3, c4}
  Missions = {"m_1", "m_2"}
  Names = {"token", "key"}
  Values = {"s3", "s4"}
  Passphrases = {"old", "new"}
  MaxOverlap = 2
  MaxDeaths = 1
SPECIFICATION Spec
SYMMETRY MCCallSymmetry
INVARIANTS
  ListedOpens
  RekeyIsTotal
CHECK_DEADLOCK FALSE
