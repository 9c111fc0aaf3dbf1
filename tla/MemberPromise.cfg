SPECIFICATION SubscriptionsSpec
CONSTANTS
  Request = {r1, r2}
  MaxOrders = 1
  MaxTime = 6
  Day = 2
  Duration = 4
  FreeEnd = 10
  Threshold = 1
  Lag = 1
  Offers <- FirstOrder
  FullHouse <- AnyHouse
PROPERTIES OrdersKeepPromise OnlyLateSalesRevive
  OnlyStatusWritesUnback OnlyStatusWritesRevive FullRefundWithinADay
SYMMETRY Symmetric
CHECK_DEADLOCK FALSE
