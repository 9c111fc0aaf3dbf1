SPECIFICATION Spec
CONSTANTS
  Rows = 2
  Worker = {w1, w2}
  Batch = 1
  MaxAttempts = 2
  Stops = 2
INVARIANT StrandedByStops
PROPERTIES OnlyStopsStrand HandledIsFinal
CHECK_DEADLOCK FALSE
