SPECIFICATION Spec
CONSTANTS
  Sessions = {s1, s2}
  MaxDrafts = 2
  MaxRuns = 3
  MaxInputs = 0
SYMMETRY SessionSymmetry
PROPERTY NoForeignOverwrite
CHECK_DEADLOCK FALSE
