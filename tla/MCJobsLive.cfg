SPECIFICATION FairSpec
CONSTANTS
  Job = {j1}
  Character = {alice}
  Task = {t1, t2}
  Size = {2}
  Quantity = {1, 2}
  Bonus = {5}
  Allocation = 6
  PenaltyEnabled = TRUE
  MaxDeliveries = 2
  MaxSpends = 1
  MaxForced = 0
  MaxCrashes = 1
  MaxGrants = 2
PROPERTIES
  FullJobIsClaimed
  ExpiredEscrowReturns
CHECK_DEADLOCK FALSE
