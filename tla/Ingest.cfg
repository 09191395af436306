SPECIFICATION FairSpec
CONSTANTS
  MaxEpoch = 2
  MaxSeq = 2
  RingSize = 1
  Leftover = 0
  MaxDrops = 1
  MaxFailures = 1
  MaxRestarts = 1
INVARIANTS
  RepeatNeedsDeath
  MarkIsHonest
  NothingSkipped
  OneEpochPerBatch
PROPERTY EventsArrive
CHECK_DEADLOCK FALSE
