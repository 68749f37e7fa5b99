CONSTANTS
  s1 = s1 s2 = s2
  Session <- TwoSessions
  Snapshots <- StoredSnapshots
  Modes <- FastAndStep
  ZeroSpeed = {TRUE, FALSE}
  MaxStep = 3
SPECIFICATION FairReplaySpec
CHECK_DEADLOCK FALSE
INVARIANTS ReplaysWhole ControlsHold
PROPERTIES SessionEnds AbortIsFinal
