SPECIFICATION FairSpec
CONSTANTS
  p1 = p1
  p2 = p2
  r1 = r1
  Payment = {p1}
  Purpose = {u1}
  Client = {k1}
  Staff = {m1, m2}
  Credit = {c1, c2}
  Ref = {r1}
  Transfer <- ExactTransfers
  NoPayment = NoPayment
  NoPurpose = NoPurpose
  NoCredit = NoCredit
  NoRef = NoRef
INVARIANTS TypeOK GrantedOnce ReturnedOnce
PROPERTIES OnlyCheckoutsOverwrite OnlyStatusWritesRestore OrderSettles
CHECK_DEADLOCK FALSE
