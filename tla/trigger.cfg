CONSTANTS
  e1 = e1
  e2 = e2
  e3 = e3
  e4 = e4
  k1 = k1
  k2 = k2
  k3 = k3
  NoMission = NoMission
  Events <- FourEvents
  Keys <- ThreeKeys
  MaxEntries = 2
  MaxOverlap = 3
  MaxDeaths = 1
SPECIFICATION IngestSpec
SYMMETRY Alike
INVARIANTS
  SkipsAreDuplicates
  SecondHasReason
CHECK_DEADLOCK FALSE
