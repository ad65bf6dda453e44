SPECIFICATION CheckingSpec
CONSTANTS
  Fetches = {f1, f2}
  MaxRedirects = 1
  MaxBytes = 1
  AllowPrivate = FALSE
  BudgetFetches = 2
  BudgetBytes = 1
  ByProxy = {FALSE}
SYMMETRY Interchangeable
INVARIANTS
  RefusalIsSaid
  TrustNeedsEvidence
  BudgetHolds
\* The row is written: the system stops.
CHECK_DEADLOCK FALSE
