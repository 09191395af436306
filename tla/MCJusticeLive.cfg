SPECIFICATION FairSpec
CONSTANTS
  Character = {alice}
  Nobody = Nobody
  Tick = {t1}
  Initial = 2
  Heat = 1
  Payments = {1}
  Running = {"monitor", "decay"}
  Overlap = 2
  Limit <- JailLimit
INVARIANTS
  TypeOK
  ConfiscationCovered
PROPERTIES
  
  JailEnds
CHECK_DEADLOCK FALSE
