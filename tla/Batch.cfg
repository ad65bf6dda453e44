SPECIFICATION Spec
CONSTANTS
  in1 = in1
  in2 = in2
  out1 = out1
  out2 = out2
  N = 2
  Paths = {in1, in2, out1, out2}
  Source <- MCSource
  Kind <- MCKind
  Targets = {out1, out2, in1, in2}
  Nothing = Nothing
  MaxEdits = 2
SYMMETRY Names
INVARIANTS
  ReportsStand
  LeftoverIsNamed
  SignsWhatWasListed
  SuccessMeansAll
\* The batch ends.
CHECK_DEADLOCK FALSE
