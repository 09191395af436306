SPECIFICATION Spec
CONSTANTS
  Character = {alice}
  Nobody = Nobody
  Tick = {t1}
  Initial = 2
  Heat = 1
  Payments = {1}
  Running = {"monitor"}
  Overlap = 2
  Limit <- JailLimit
PROPERTIES
  JailHolds
CHECK_DEADLOCK FALSE
