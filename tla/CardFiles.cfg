SPECIFICATION MCSpec
CONSTANTS
  Cards <- MCCards
  Shapes = {"plain", "nested", "long", "bare", "sizeless", "cut"}
  Readers = {r1, r2}
  MaxChunk = 3
  MaxOffset = 11
  MaxOthers = 1
INVARIANTS
  ReadsWhatWasPutIn
  AbsenceIsTrue
PROPERTIES
  Finishes
\* Every call ends: the system stops.
CHECK_DEADLOCK FALSE
