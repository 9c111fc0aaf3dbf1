SPECIFICATION Spec
CONSTANTS
  Rows = 1
  Worker = {w1, w2}
  Batch = 1
  MaxAttempts = 2
  Stops = 0
INVARIANT AttemptsBounded
CHECK_DEADLOCK FALSE
