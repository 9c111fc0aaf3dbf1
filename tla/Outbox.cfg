SPECIFICATION FairSpec
CONSTANTS
  Rows = 2
  Worker = {w1, w2}
  Batch = 1
  MaxAttempts = 2
  Stops = 1
INVARIANTS TypeOK OneSender SendsAccounted GivesUpLate
PROPERTIES HandledOrStranded
CHECK_DEADLOCK FALSE
