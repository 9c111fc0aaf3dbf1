SPECIFICATION Spec
CONSTANTS
  Member = {m1, m2}
  Session <- TwoSessions
  Class <- Classes
  ClassOf <- OneEach
  Overlapping <- NoOverlap
  Capacity = 1
  Quota = 1
  Request = {r1, r2}
  Kinds = {"book", "course", "join", "transfer"}
  MaxSubs = 1
  MaxPenalties = 0
  NoMember = NoMember
  NoSession = NoSession
  NoRequest = NoRequest
SYMMETRY Symmetric
PROPERTIES OnlyMovesPassQuota OnlyStaleFillsCancelled
CHECK_DEADLOCK FALSE
