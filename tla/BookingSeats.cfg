SPECIFICATION Spec
CONSTANTS
  Member = {m1, m2}
  Session <- OneSession
  Class <- OneClass
  ClassOf <- OneClassOf
  Overlapping <- NoOverlap
  Capacity = 1
  Quota = 1
  Request = {r1, r2}
  Kinds = {"book", "course", "join", "cancel", "revoke", "restore"}
  MaxSubs = 1
  MaxPenalties = 1
  NoMember = NoMember
  NoSession = NoSession
  NoRequest = NoRequest
SYMMETRY Symmetric
INVARIANTS TypeOK NotOverbooked
PROPERTIES QueueKept PenaltyBars OnlyRestoresRevoked
CHECK_DEADLOCK FALSE
