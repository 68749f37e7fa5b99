SPECIFICATION Spec
CONSTANTS
  f1 = f1
  f2 = f2
  o1 = o1
  o2 = o2
  NoFix = NoFix
  NoActor = NoActor
  Fix <- OneFix
  Automated <- OneAutomated
  Operator <- OneOperator
  Discovery <- Always
  Submit <- Always
CHECK_DEADLOCK FALSE
INVARIANTS TicketClosedOnlyAfterApply
