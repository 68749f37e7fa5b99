CONSTANTS
  k1 = k1 k2 = k2 k3 = k3 apply = apply restart = restart scale = scale
  NoToken = NoToken NoAction = NoAction Pill = Pill
  Call <- ThreeCalls
  Item <- Records
  Action <- ThreeActions
  Target <- Targets
  Disruptive <- OneDisruptive
  Refused <- None
  TooWide <- TheTooWide
  FromFile <- OneDisruptive
  DryRunMode = FALSE
  QueueMax = 1
  BatchSize = 2
  Current = 3
  MaxStart = 2
SPECIFICATION Spec
SYMMETRY CallSymmetry
CHECK_DEADLOCK FALSE
INVARIANTS SchemaMatchesVersion WritesKept ClearedOnce
PROPERTIES LiveWasAudited
