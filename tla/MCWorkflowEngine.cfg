CONSTANTS
  c1 = c1 c2 = c2 c3 = c3 p1 = p1
  NoCaller = NoCaller
  Caller <- ThreeCallers
  Phase <- OnePhase
  MaxNow = 2
SPECIFICATION WorkflowSpec
SYMMETRY CallerSymmetry
CHECK_DEADLOCK FALSE
INVARIANTS AnswersWereProduced RunningHasOwner PhasesHaveSnapshots
