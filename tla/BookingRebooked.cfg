SPECIFICATION Spec
CONSTANTS
  Member = {m1, m2}
  Session <- OneSession
  Class <- OneClass
  ClassOf <- OneClassOf
  Overlapping <- NoOverlap
  Capacity = 1
  Quota = 1
  Request = {r1, r2}
  Kinds = {"book", "join", "cancel"}
  MaxSubs = 1
  MaxPenalties = 0
  NoMember = NoMember
  NoSession = NoSession
  NoRequest = NoRequest
PROPERTY CancelFrees
CHECK_DEADLOCK FALSE
