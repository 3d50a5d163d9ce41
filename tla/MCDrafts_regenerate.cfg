SPECIFICATION Spec
CONSTANTS
  Sessions = {s1, s2}
  MaxDrafts = 3
  MaxRuns = 3
  MaxInputs = 1
SYMMETRY SessionSymmetry
INVARIANTS TypeOK ConsumedStaysOut CommittedWasWritten
CHECK_DEADLOCK FALSE
