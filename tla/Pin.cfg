SPECIFICATION MCSpec
CONSTANTS
  Sessions = {n1, p1}
  Native = {n1}
  MaxTries = 3
  Pins = {"right", "wrong", "malformed", "missing"}
  Tokens <- ManyTokens
  SigningCerts <- MCSigningCerts
  Ids = {"a", "b"}
  NoId = NoId
  BadId = BadId
  ReportsFlags = TRUE
  AnswersProbe = TRUE
  OthersTries = 1
  LastDay = 1
  MaxFiles = 2
  Faults = {"card", "read", "module"}
  Nobody = Nobody
  NoCert = NoCert
  Unknown = Unknown
INVARIANTS
  KeepsLastTry
  CostOfACall
  ChosenIsUsable
  AskedLast
PROPERTIES
  SignsItsOwn
  EarlyRefusalIsFinal
\* Every session has ended and no other program need act.
CHECK_DEADLOCK FALSE
