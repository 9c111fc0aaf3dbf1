SPECIFICATION Spec
CONSTANTS
  m1 = m1  m2 = m2  s1 = s1  s2 = s2  k1 = k1  k2 = k2  i1 = i1  i2 = i2  q1 = q1  q2 = q2
  Members = {m1}
  Sessions = {s1}
  Codes = {k1, k2}
  Reports = {i1, i2}
  Jobs = {q1, q2}
  None = None
  WarnAt = 20
  ViolationAt = 30
  MaxOps = 3
SYMMETRY Swap
CHECK_DEADLOCK FALSE
INVARIANT CodesByRequests
