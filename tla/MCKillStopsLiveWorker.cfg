SPECIFICATION Spec
CONSTANTS
  Modes = {"paper", "live"}
  MaxChanges = 3
  MaxFaults = 2
PROPERTY KillStopsLiveWorker
CHECK_DEADLOCK FALSE
