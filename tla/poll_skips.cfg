SPECIFICATION IntakeSpec
CONSTANTS
  n1 = n1
  n2 = n2
  n3 = n3
  k1 = k1
  k2 = k2
  m1 = m1
  m2 = m2
  m3 = m3
  Npks = {n1, n2, n3}
  Same <- MCSame
  Keys = {k1, k2}
  Cards <- MCCards
  Files <- MCFiles
  Hires = {}
  None = None
  CacheMax = 1
  Messages = {m3}
  Content <- MCContent
  Searched = {"discovery"}
  Inboxes = {"inbox"}
  Overlap = 1
  LookBack = 2
  PageSize = 1
  SeenCap = 0
  MaxTime = 2
  MaxDepth = 2
  MaxEvents = 2
CHECK_DEADLOCK FALSE
INVARIANTS
  NothingSkipped
