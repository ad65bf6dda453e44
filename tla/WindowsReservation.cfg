SPECIFICATION Spec
CONSTANTS
  Writers = {"first", "second", "over"}
  Overwriting = {"over"}
  Settings <- OneOnFat
  EnvFiles = {e1}
  Scannable = {"holder"}
  Scanners = 1
  EnvOps = {}
  Faults = {}
  Attempts = 4
  Tries = 20
  Nothing = Nothing
INVARIANTS
  LeavesNoTruncatedFile
\* Every call ends and no other program need act: the system may stop.
CHECK_DEADLOCK FALSE
