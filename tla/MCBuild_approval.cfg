SPECIFICATION Spec
CONSTANTS
  db = db
  be = be
  fe = fe
  Tasks = {db, be, fe}
  Deps <- MCDeps
  Locks <- MCLocks
  Database = {db}
  Rank <- MCRank
  Failures = {"retry", "repair"}
  MaxRepairs <- MCMaxRepairs
  MaxRuns = 2
  MaxVersions = 1
  MaxFaults = 0
INVARIANT AnswerMeetsItsQuestion
CHECK_DEADLOCK FALSE
