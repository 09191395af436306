SPECIFICATION Spec
CONSTANTS
  Job = {j1}
  Character = {alice, bob}
  Task = {t1, t2}
  Size = {2}
  Quantity = {1, 2}
  Bonus = {5}
  Allocation = 6
  PenaltyEnabled = TRUE
  MaxDeliveries = 2
  MaxSpends = 0
  MaxForced = 1
  MaxCrashes = 1
  MaxGrants = 2
SYMMETRY Symmetry
INVARIANTS
  TypeOK
  FulfilledIsLogged
  PaidWithinGrants
  FundedSettledOnce
  UnfundedSettledOnce
  EscrowBacksJobs
  OneOutcome
PROPERTY
  ImplementsContract
CHECK_DEADLOCK FALSE
