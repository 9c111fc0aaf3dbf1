SPECIFICATION Spec
CONSTANTS
  p1 = p1
  p2 = p2
  r1 = r1
  Payment = {p1}
  Purpose = {u1}
  Client = {k1}
  Staff = {m1}
  Credit = {c1}
  Ref = {r1}
  Transfer <- ExactTransfers
  NoPayment = NoPayment
  NoPurpose = NoPurpose
  NoCredit = NoCredit
  NoRef = NoRef
INVARIANTS ReturnedStaysRevoked
CHECK_DEADLOCK FALSE
