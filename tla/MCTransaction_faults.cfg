SPECIFICATION Spec
CONSTANTS
  Threads = {t1}
  N = 3
  Existing = {1}
  Updates = {u1, u2}
  Edits = {e1, e2}
  Old = old
  Absent = absent
  MaxErrors = 2
  MaxCrashes = 2
INVARIANT TypeOK
INVARIANT ConflictMeansEdit
INVARIANT OneErrorIsCleanedUp
PROPERTY AllOrNothing
CHECK_DEADLOCK FALSE
