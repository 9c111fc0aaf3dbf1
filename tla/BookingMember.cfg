SPECIFICATION Spec
CONSTANTS
  Member = {m1}
  Session <- Sessions
  Class <- Classes
  ClassOf <- ClassOfSession
  Overlapping <- YogaOverlaps
  Capacity = 1
  Quota = 2
  Request = {r1, r2}
  Kinds = {"book", "course", "join", "transfer"}
  MaxSubs = 1
  MaxPenalties = 0
  NoMember = NoMember
  NoSession = NoSession
  NoRequest = NoRequest
SYMMETRY Symmetric
PROPERTY OnlyCoursesOverlap
CHECK_DEADLOCK FALSE
