SPECIFICATION SubscriptionsSpec
CONSTANTS
  Request = {r1}
  MaxOrders = 1
  MaxTime = 2
  Day = 1
  Duration = 2
  FreeEnd = 4
  Threshold = 1
  Lag = 1
  Offers <- FirstOrder
  FullHouse <- NoFullHouse
PROPERTY FailedIsFinal
CHECK_DEADLOCK FALSE
