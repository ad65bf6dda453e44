SPECIFICATION MCFairSpec
CONSTANTS
  Writers = {"first", "second", "over"}
  Overwriting = {"over"}
  Settings <- EitherVolume
  EnvFiles = {e1}
  Scannable = {"stage", "env"}
  Scanners = 1
  EnvOps = {"create", "remove"}
  Faults = {"io", "interrupt", "kill"}
  Attempts = 2
  Tries = 2
  Nothing = Nothing
PROPERTIES
  ImplementsAtomicOutput
  OnlyOthersStandInTheWay
  Finishes
\* Every call ends and no other program need act: the system may stop.
CHECK_DEADLOCK FALSE
