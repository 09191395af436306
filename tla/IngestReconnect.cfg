SPECIFICATION Spec
CONSTANTS
  MaxEpoch = 1
  MaxSeq = 2
  RingSize = 2
  Leftover = 0
  MaxDrops = 1
  MaxFailures = 0
  MaxRestarts = 0
INVARIANT ReconnectLosesNothing
CHECK_DEADLOCK FALSE
