SPECIFICATION FairSpec
CONSTANTS
  Operator = {"o"}
  Poller = "dashboard"
  Destination = {"primary"}
  Config <- MCConfig
  Production = TRUE
  Configured = TRUE
  HeartbeatTimeout = 1
  Timeout = 2
  RepeatWindow = 2
  RepeatThreshold = 1
  QuietWindow = 2
  Cooldown = 2
  MaxClock = 2
  MaxRequests = 1
  MaxActs = 1
CHECK_DEADLOCK FALSE
PROPERTIES
  SendsSpaced
  AckSticks
  
