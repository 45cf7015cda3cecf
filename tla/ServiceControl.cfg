SPECIFICATION FairSpec
CONSTANTS
  VM = {v1, v2}
  NoVM = NoVM
  MaxRequests = 2
  MaxTasks = 2
CHECK_DEADLOCK FALSE
INVARIANTS
  LogFollowed
  ModeKnown
PROPERTIES
  DestroyKeepsOthers
  PollerRuns
