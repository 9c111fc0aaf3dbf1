SPECIFICATION Spec
CONSTANTS
  p1 = p1
  p2 = p2
  r1 = r1
  Payment = {p1, p2}
  Purpose = {u1}
  Client = {k1}
  Staff = {m1}
  Credit = {c1, c2}
  Ref = {r1}
  Transfer <- MixedTransfers
  NoPayment = NoPayment
  NoPurpose = NoPurpose
  NoCredit = NoCredit
  NoRef = NoRef
INVARIANTS MoneyBehindRight MoneyInView
PROPERTIES KeepsPromise
SYMMETRY CreditSymmetry
CHECK_DEADLOCK FALSE
