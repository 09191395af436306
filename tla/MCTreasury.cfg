SPECIFICATION Spec
CONSTANTS
  Character = {alice}
  Internal = Internal
  Task = {t1, t2}
  MaxAmount = 2
  MaxStarts = 3
  MaxCrashes = 1
  Opening <- MCOpening
  Floor = 2
  Exempt = 0
  MaxLoan = 2
  Fees = {0, 1}
  NircDivisor = 2
SYMMETRY Symmetry
INVARIANTS
  TypeOK
  BalanceMatchesRows
  BooksTiltByWealthTaxOnly
  OvershootBounded
  CashAccountedFor
  DepositMirrorsEquity
CHECK_DEADLOCK FALSE
