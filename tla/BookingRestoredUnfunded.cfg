SPECIFICATION Spec
CONSTANTS
  Member = {m1}
  Session <- OneSession
  Class <- OneClass
  ClassOf <- OneClassOf
  Overlapping <- NoOverlap
  Capacity = 1
  Quota = 1
  Request = {r1}
  Kinds = {"book", "restore"}
  MaxSubs = 1
  MaxPenalties = 1
  NoMember = NoMember
  NoSession = NoSession
  NoRequest = NoRequest
INVARIANT RevokedFundsNothing
CHECK_DEADLOCK FALSE
