CONSTANTS
  s1 = s1 a1 = a1 e1 = e1
  Runner = Runner
  Service = {s1}
  Agent = {a1}
  Engineer = {e1}
  Cooldown = 1 Window = 0
  MaxPred = 2 MaxCalls = 1 MaxRefused = 1 MaxNow = 0
SPECIFICATION FairSpec
CHECK_DEADLOCK FALSE
INVARIANTS CooldownKept LearnsFinalOutcome
PROPERTIES RecordsAllOpen StopIsFinal EveryPredictionResolves
