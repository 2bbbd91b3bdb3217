SPECIFICATION Spec
CONSTANTS
  Spends = {s1, s2}
  OutTasks = {o1}
  InTasks = {i1}
  None = None
  Amounts = {1}
  PerTxLimit = 1
  PerPeriodLimit = 1
  Period = 1
  ApprovalWindow = 0
  MaxTime = 1
  LastArrival = 1
  MaxDepth = 2
  MaxCrashes = 2
SYMMETRY Symmetry
CHECK_DEADLOCK FALSE
INVARIANTS
  AgentTypeOK
  AutonomousWithinBudget
  PaidMeansMoved
  NoStrandedExecution
  SettlingReconciled
PROPERTIES
  InboundTerminalFinal
