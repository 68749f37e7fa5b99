CONSTANTS
  e1 = e1 e2 = e2 e3 = e3 c1 = c1
  NoEvent = NoEvent
  Event <- ThreeEvents
  SeqNum <- Repeated3
  Streamed = FALSE
  Client <- OneClient
  Dynamo = TRUE
  QueueMax = 1
  SeenMax = 1
  SeenTrim = 1
  MaxConn = 1
  MaxRestart = 1
SPECIFICATION FairSpec
CHECK_DEADLOCK FALSE
INVARIANTS NothingMissed DedupWindow
PROPERTIES StoredBeforeDelivery StreamProgresses
