SPECIFICATION Spec
CONSTANTS
  Runs = {r1, r2}
  None = none
  MaxPlans = 1
  MaxRequests = 0
  MaxFaults = 1
SYMMETRY RunSymmetry
INVARIANT OneWriterPerPlan
CHECK_DEADLOCK FALSE
