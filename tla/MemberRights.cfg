SPECIFICATION SubscriptionsSpec
CONSTANTS
  Request = {r1, r2}
  MaxOrders = 2
  MaxTime = 3
  Day = 1
  Duration = 2
  FreeEnd = 2
  Threshold = 1
  Lag = 0
  Offers <- UpAndDown
  FullHouse <- AnyHouse
INVARIANTS SubscriptionsTypeOK OnePlan
PROPERTIES OnlyStatusWritesMisqueue OnlyStatusWritesUnback OnlyStatusWritesRevive FullRefundWithinADay SuspensionsExplained
VIEW Seen
SYMMETRY Symmetric
CHECK_DEADLOCK FALSE
