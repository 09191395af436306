SPECIFICATION Spec
CONSTANTS
  MaxEpoch = 1
  MaxSeq = 2
  RingSize = 2
  Leftover = 2
  MaxDrops = 0
  MaxFailures = 0
  MaxRestarts = 0
INVARIANT FirstEpochUnfiltered
CHECK_DEADLOCK FALSE
