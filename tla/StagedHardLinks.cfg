SPECIFICATION Spec
CONSTANTS
  Writers = {w1, w2}
  Overwriting = {w2}
  HardLinks = TRUE
  EnvFiles = {e1}
  EnvAccess <- WithOwners
  EnvOps = {"create", "replace", "remove", "aside", "rewrite"}
  MaxRewrites = 2
  Modes <- MCModes
  Private = "0600"
  FreshMode = "0644"
  Owners <- MCOwners
  Me = "me"
  Acls <- MCAcls
  AclAbsent = "absent"
  AclUnsupported = "unsupported"
  InheritedAcl = "grant"
  Nothing = Nothing
  NoAccess = NoAccess
  Attempts = 2
  Faults = {"io", "unlink", "interrupt", "kill"}
CONSTRAINT Scope
INVARIANTS
  OutcomeTellsTruth
  PrivateWhileStaged
  PublishedAccess
  CaptureExact
  WholeAndPrivateAtPath
PROPERTIES
  NoClobber
  ImplementsAtomicOutput
\* Every call ends and no other program need act: the system may stop.
CHECK_DEADLOCK FALSE
