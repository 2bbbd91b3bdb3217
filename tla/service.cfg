SPECIFICATION ServiceSpec
CONSTANTS
  Tasks = {t1, t2, t3}
  Senders = {a}
  PeerKeys = {k1, k2}
  OwnerKeys = {w1, w2}
  None = None
  InboundMax = 2
  ServiceMax = 1
  Window = 1
  TTL = 1
  RowCap = 1
  MaxTime = 2
  MaxDepth = 3
  MaxEvents = 5
  MaxNonce = 2
  HistoryCap = 2
SYMMETRY Symmetry
CHECK_DEADLOCK FALSE
INVARIANTS
  ConversationTypeOK
  AnswersAgree
  RerunOnlyAfterEviction
  FloodBound
  StrangersNeverNest
  OneKeyPerSender
  OwnerMessageOnce
  OwnerInOrder
  PairsTogether
  QueueIsWatched
PROPERTIES
  OnlyThePinnedOwner
