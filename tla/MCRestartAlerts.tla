--------------------------- MODULE MCRestartAlerts ---------------------------
(* RestartAlerts with the first two default slots of the routing *)
EXTENDS RestartAlerts

MCConfig(d) ==
  [enabled |-> TRUE, inScope |-> TRUE, allowWarning |-> FALSE, recoveryEnabled |-> TRUE,
   repeatedFailureSummaryEnabled |-> d = "secondary", malformed |-> FALSE]
=============================================================================
