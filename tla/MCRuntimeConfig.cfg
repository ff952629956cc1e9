SPECIFICATION Spec
CONSTANTS
  Modes = {"paper", "live"}
  MaxChanges = 3
  MaxFaults = 2
INVARIANTS
  CycleObeysRecord
  ControlAgrees
PROPERTIES
  AppliedAtBoundary
  KillStopsPaperWorker
CHECK_DEADLOCK FALSE
