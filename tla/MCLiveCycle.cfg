SPECIFICATION FairSpec
CONSTANTS
  Key = {"k1", "k2"}
  Loss = {0, 2}
  Limit <- MCLimit
  Bridged = TRUE
  MaxDay = 1
  MaxCycles = 2
  MaxControls = 2
  MaxKills = 1
  MaxCrashes = 1
CHECK_DEADLOCK FALSE
INVARIANTS
  CycleExclusive
  KillBoundsSends
  DailyLimits
PROPERTIES
  SendsOnce
  CycleEnds
  WorkerRunsAgain
