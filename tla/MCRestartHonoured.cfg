SPECIFICATION Spec
CONSTANTS
  Modes = {"paper", "live"}
  MaxChanges = 3
  MaxFaults = 2
INVARIANT RestartHonoured
CHECK_DEADLOCK FALSE
