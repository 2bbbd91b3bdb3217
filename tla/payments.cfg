SPECIFICATION Spec
CONSTANTS
  Spends = {s1, s2}
  OutTasks = {o1}
  InTasks = {i1}
  None = None
  Amounts = {1}
  PerTxLimit = 1
  PerPeriodLimit = 1
  Period = 1
  ApprovalWindow = 1
  MaxTime = 2
  LastArrival = 1
  MaxDepth = 3
  MaxCrashes = 0
SYMMETRY Symmetry
CHECK_DEADLOCK FALSE
INVARIANTS
  MovesCoveredByGrants
  InboundNeverAutonomous
  WaitingTaskHasOpenSpend
  AutonomousWithinBudget
PROPERTIES
  WithdrawnNeverGranted
  SettledThroughOneSpend
  LedgerSpec
