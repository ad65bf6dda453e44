SPECIFICATION FairSpec
CONSTANTS
  Fetches = {f1}
  MaxRedirects = 2
  MaxBytes = 2
  AllowPrivate = TRUE
  BudgetFetches = 3
  BudgetBytes = 2
  ByProxy = {TRUE, FALSE}
INVARIANTS
  WatchdogMissesNothing
  CutIsDeadline
  GoesWhereVetted
PROPERTIES
  Finishes
\* Every fetch ends: the system stops.
CHECK_DEADLOCK FALSE
