SPECIFICATION FairSpec
CONSTANTS
  Rows = 1
  Worker = {w1, w2}
  Batch = 1
  MaxAttempts = 2
  Stops = 1
PROPERTY Handled
CHECK_DEADLOCK FALSE
