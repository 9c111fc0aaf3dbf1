SPECIFICATION Spec
CONSTANTS
  Member = {m1}
  Session <- TwoSessions
  Class <- OneClass
  ClassOf <- YogaOnly
  Overlapping <- NoOverlap
  Capacity = 1
  Quota = 1
  Request = {r1}
  Kinds = {"book", "transfer"}
  MaxSubs = 1
  MaxPenalties = 0
  NoMember = NoMember
  NoSession = NoSession
  NoRequest = NoRequest
INVARIANT CancelledIsEmpty
CHECK_DEADLOCK FALSE
