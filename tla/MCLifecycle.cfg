SPECIFICATION LiveSpec
CONSTANTS
  i1 = i1
  i2 = i2
  Inv <- TwoInv
  Key = {k1}
  Severity <- TwoSeverities
  NoState = NoState
  Cooldown <- Cooldowns
  Threads = 1
  Dynamo = TRUE
  DedupEnabled = TRUE
  DbFails = TRUE
  MaxTime = 2
  MaxControl = 1
  MaxRestart = 1
CHECK_DEADLOCK FALSE
INVARIANTS DuplicatesSuppressed CompletedWasInvestigated
PROPERTIES TerminalUntilControl EveryInvestigationEnds
