SPECIFICATION FairSpec
CONSTANTS
  Operator = {"o1", "o2"}
  Poller = "dashboard"
  Key = {"k"}
  NoKey = "none"
  Configured = TRUE
  Cooldown = 1
  Timeout = 1
  MaxClock = 2
  MaxRequests = 2
  MaxChanges = 1
  MaxBoots = 1
CHECK_DEADLOCK FALSE
INVARIANTS
  HooksDisciplined
  ConvergedIsReported

  
