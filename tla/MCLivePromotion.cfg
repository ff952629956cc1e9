SPECIFICATION MCSpec
CONSTANTS
  Window = 1
  FailureThreshold = 2
  SummariesSent = FALSE
  MaxClock = 3
  MaxWork = 6
  Operator = {"ada", "bob", "olga"}
  Role <- MCRole
  Id = {"p"}
  PaperMode = "paper"
CHECK_DEADLOCK FALSE
INVARIANTS
  
  GateAgreesWithFreshness
PROPERTIES
  
  AlertFollows
