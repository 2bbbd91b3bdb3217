SPECIFICATION FairSpec
CONSTANTS
  Spends = {s1, s2}
  OutTasks = {o1}
  InTasks = {}
  None = None
  Amounts = {1}
  PerTxLimit = 1
  PerPeriodLimit = 1
  Period = 1
  ApprovalWindow = 0
  MaxTime = 1
  LastArrival = 0
  MaxDepth = 2
  MaxCrashes = 1
CHECK_DEADLOCK FALSE
PROPERTIES
  EveryHeldRequestDecided
  EveryTransferResolved
  EverySettlementEnds
  RecoveryCompletes
