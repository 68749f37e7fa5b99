SPECIFICATION FairSpec
CONSTANTS
  f1 = f1
  f2 = f2
  o1 = o1
  o2 = o2
  NoFix = NoFix
  NoActor = NoActor
  Fix <- TwoFixes
  Automated <- OneAutomated
  Operator <- TwoOperators
  Discovery <- AnyAnswer
  Submit <- Never
CHECK_DEADLOCK FALSE
INVARIANTS CalledOnceApproved NoApplyingAtRest BffClosesAfterApply
PROPERTIES ImplementsGate VerifyingResolves
