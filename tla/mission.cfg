CONSTANTS
  run1 = run1
  resume1 = resume1
  job1 = job1
  pause1 = pause1
  boot1 = boot1
  decide1 = decide1
  plan1 = plan1
  Safe = 2
  ToolNodes <- SecondNode
  Runs = {run1}
  Resumes = {resume1}
  Jobs = {job1}
  Pausers = {pause1}
  Boots = {boot1}
  Deciders = {decide1}
  Planners = {plan1}
  Overlaps <- Pairs
  MaxDeaths = 2
  MaxPlans = 1
SPECIFICATION FairSpec
INVARIANTS
  AskedOnce
  WaitingIsAnswerable
  RecordsAgree
PROPERTIES
  WorkIsKept
  MissionEnds
CHECK_DEADLOCK FALSE
