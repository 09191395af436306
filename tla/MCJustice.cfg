SPECIFICATION Spec
CONSTANTS
  Character = {alice}
  Nobody = Nobody
  Tick = {t1, t2}
  Initial = 2
  Heat = 1
  Payments = {1}
  Running = {}
  Overlap = 2
  Limit <- ChaseLimit
SYMMETRY Ticks
INVARIANTS
  ZeroIsBeingExpired
  ServedInFull
  ArrestTeleportIsFree
PROPERTIES
  ClosedForGood
CHECK_DEADLOCK FALSE
