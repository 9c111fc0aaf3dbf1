SPECIFICATION Spec
CONSTANTS
  s1 = s1  s2 = s2  s3 = s3  yoga = yoga  swim = swim  r1 = r1  r2 = r2
  c1 = c1  c2 = c2  c3 = c3  l1 = l1  q1 = q1  q2 = q2
  Sessions = {s1, s2, s3}
  Classes = {yoga, swim}
  Rooms = {r1, r2}
  Coaches = {c1, c2, c3}
  Slots = {1, 2}
  Leaves = {l1}
  Jobs = {q1, q2}
  None = None
  Openings <- MCOpenings
  MaxOps = 3
SYMMETRY Swap
CHECK_DEADLOCK FALSE
INVARIANT RoomOnceAlways
