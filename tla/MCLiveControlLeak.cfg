SPECIFICATION Spec
CONSTANTS
  h1 = h1
  h2 = h2
  Handler = {h1, h2}
  Notional = {2, 4}
  Rollout = {"micro_live", "staged_live_candidate", "invalid"}
  Deployment <- MCDeployment
  RequireArm = TRUE
  MaxNotionalPerTrade = 2
  MaxTradesPerWindow = 1
  Window = 2
  Cooldown = 2
  MaxInFlight = 2
  FailuresToBlock = 2
  FailureWindow = 1
  MaxDailyNotional = 4
  DayLength = 3
  MaxTime = 3
  MaxAttempts = 3
SYMMETRY HandlerSymmetry
INVARIANT InFlightIsExecuting
