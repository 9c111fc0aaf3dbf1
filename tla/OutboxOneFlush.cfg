SPECIFICATION Spec
CONSTANTS
  Rows = 2
  Worker = {w1}
  Batch = 1
  MaxAttempts = 3
  Stops = 1
INVARIANT AttemptsBounded
CHECK_DEADLOCK FALSE
