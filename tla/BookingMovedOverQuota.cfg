SPECIFICATION Spec
CONSTANTS
  Member = {m1}
  Session <- Sessions
  Class <- Classes
  ClassOf <- ClassOfSession
  Overlapping <- NoOverlap
  Capacity = 1
  Quota = 1
  Request = {r1, r2}
  Kinds = {"book", "transfer"}
  MaxSubs = 1
  MaxPenalties = 0
  NoMember = NoMember
  NoSession = NoSession
  NoRequest = NoRequest
INVARIANT QuotaKept
CHECK_DEADLOCK FALSE
