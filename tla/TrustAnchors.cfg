SPECIFICATION MCSpec
CONSTANTS
  Fetchers = {p1, p2}
  Readers = {r1}
  Versions = {"old", "new"}
  Certs = {"r1", "m1", "r2", "m2"}
  RootPin <- MCRootPin
  InterPin <- MCInterPin
  Issued <- MCIssued
  Supplies <- MCSupplies
  Newest = p2
  Worlds <- MCWorlds
  Retries = 2
INVARIANTS
  OnlyPinned
  RefusedTouchesNothing
  FetchedIsFound
PROPERTIES
  ServedIsCached
\* Every call ends: the system stops.
CHECK_DEADLOCK FALSE
