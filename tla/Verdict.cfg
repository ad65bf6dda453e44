SPECIFICATION Spec
CONSTANTS
  LastDay = 2
  Roots = {r1, r2}
SYMMETRY Interchangeable
INVARIANTS
  BrokenHoldsBack
  MomentIsEarned
  FormatsAgree
PROPERTIES
  DoesNotDecay
