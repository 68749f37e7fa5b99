SPECIFICATION WatchSpec
CONSTANTS
  MaxPolls = 7
  StableThreshold = 3
  MetricsActions <- RegisteredActions
  Answers = {TRUE, FALSE}
CHECK_DEADLOCK FALSE
INVARIANT ClosedOnlyWhenHealthy
