SPECIFICATION Spec
CONSTANTS
  Member = {m1}
  Session <- TwoSessions
  Class <- OneClass
  ClassOf <- YogaOnly
  Overlapping <- BothAtOnce
  Capacity = 1
  Quota = 1
  Request = {r1, r2}
  Kinds = {"course"}
  MaxSubs = 1
  MaxPenalties = 1
  NoMember = NoMember
  NoSession = NoSession
  NoRequest = NoRequest
INVARIANT NoTimeConflict
CHECK_DEADLOCK FALSE
