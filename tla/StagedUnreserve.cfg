SPECIFICATION Spec
CONSTANTS
  Writers = {w1, w2}
  Overwriting = {w2}
  HardLinks = FALSE
  EnvFiles = {e1}
  EnvAccess <- WithoutAcls
  EnvOps = {}
  MaxRewrites = 0
  Modes <- MCModes
  Private = "0600"
  FreshMode = "0644"
  Owners <- MCOwners
  Me = "me"
  Acls <- MCAcls
  AclAbsent = "absent"
  AclUnsupported = "unsupported"
  InheritedAcl = "unsupported"
  Nothing = Nothing
  NoAccess = NoAccess
  Attempts = 4
  Faults = {"io"}
PROPERTIES
  RemovesOnlyItsReservation
\* Every call ends and no other program need act: the system may stop.
CHECK_DEADLOCK FALSE
