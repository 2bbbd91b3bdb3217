SPECIFICATION Spec
CONSTANTS
  Spends = {s1}
  OutTasks = {}
  InTasks = {i1}
  None = None
  Amounts = {1}
  PerTxLimit = 1
  PerPeriodLimit = 1
  Period = 1
  ApprovalWindow = 1
  MaxTime = 0
  LastArrival = 0
  MaxDepth = 2
  MaxCrashes = 1
CHECK_DEADLOCK FALSE
PROPERTY
  WithdrawnNeverGranted
