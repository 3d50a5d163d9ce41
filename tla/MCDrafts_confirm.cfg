SPECIFICATION Spec
CONSTANTS
  Sessions = {s1, s2}
  MaxDrafts = 3
  MaxRuns = 4
  MaxInputs = 0
SYMMETRY SessionSymmetry
INVARIANTS AbandonedStaysOut NoFork OneSuccessor
CHECK_DEADLOCK FALSE
