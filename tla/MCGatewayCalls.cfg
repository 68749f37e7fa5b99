CONSTANTS
  t1 = t1 t2 = t2 a = a b = b
  Thread <- TwoThreads
  Signature <- TwoSignatures
  Dedup = TRUE Static = TRUE
  Capacity = 2 Cost = 2 Timeout = 3 MaxSleep = 1
  MaxNow = 0 MaxCalls = 3 MaxStarts = 2 MaxToken = 2
  Revocable <- IssuedTokens
SPECIFICATION FairSpec
CHECK_DEADLOCK FALSE
INVARIANTS RateHolds CallsNotRepeated
PROPERTIES TokenIsShared CallsEnd
