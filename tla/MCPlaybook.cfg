SPECIFICATION LiveSpec
CONSTANTS
  w1 = w1
  w2 = w2
  w3 = w3
  Worker <- ThreeWorkers
  Registered <- TwoWorkers
  Steps <- Uneven
  MaxToolCalls = 4
  MaxRetries = 1
  Threshold = 1
  PoolSize = 1
  Interval = 1
  MaxStall = 1
CHECK_DEADLOCK FALSE
INVARIANTS WorkersAreContained EvidenceComplete
PROPERTIES AnswersMatch EverythingEnds
