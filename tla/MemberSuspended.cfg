SPECIFICATION SubscriptionsSpec
CONSTANTS
  Request = {r1}
  MaxOrders = 2
  MaxTime = 4
  Day = 1
  Duration = 2
  FreeEnd = 6
  Threshold = 1
  Lag = 1
  Offers <- UpAndDown
  FullHouse <- AnyHouse
PROPERTY SuspendedIsReplaced
CHECK_DEADLOCK FALSE
