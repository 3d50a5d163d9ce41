SPECIFICATION Spec
CONSTANTS
  Runs = {r1, r2}
  None = none
  MaxPlans = 2
  MaxRequests = 2
  MaxFaults = 2
SYMMETRY RunSymmetry
INVARIANTS TypeOK OnePlanEntry LockHeldByListed CancelledIsFinal FailedIsReleased
PROPERTY ReleasedAfterExit
CHECK_DEADLOCK FALSE
