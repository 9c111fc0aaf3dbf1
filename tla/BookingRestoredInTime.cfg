SPECIFICATION Spec
CONSTANTS
  Member = {m1}
  Session <- TwoSessions
  Class <- Classes
  ClassOf <- OneEach
  Overlapping <- BothAtOnce
  Capacity = 1
  Quota = 2
  Request = {r1, r2}
  Kinds = {"book", "course", "join", "transfer", "restore"}
  MaxSubs = 1
  MaxPenalties = 1
  NoMember = NoMember
  NoSession = NoSession
  NoRequest = NoRequest
SYMMETRY Symmetric
PROPERTIES OnlyCoursesOverlap OnlyStaleFillsCancelled OnlyRestoresRevoked OnlyMovesPassQuota
CHECK_DEADLOCK FALSE
