SPECIFICATION LiveSpec
CONSTANTS
  t1 = t1
  t2 = t2
  t3 = t3
  Thread <- ThreeThreads
  OAuth = TRUE
  MaxWaves = 2
  MaxCalls = 1
CHECK_DEADLOCK FALSE
INVARIANTS StartsAreShared UsableClients
PROPERTIES StartsResolve
