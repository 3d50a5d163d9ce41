SPECIFICATION Spec
CONSTANTS
  db = db
  be = be
  fe = fe
  Tasks = {db, be, fe}
  Deps <- MCDeps
  Locks <- MCLocks
  Database = {db}
  Rank <- MCRank
  Failures = {"retry", "repair"}
  MaxRepairs <- MCMaxRepairs
  MaxRuns = 3
  MaxVersions = 2
  MaxFaults = 1
INVARIANTS TypeOK DoneInOrder DoneWasRun ExhaustedByRepairs
PROPERTY WorkKept
CHECK_DEADLOCK FALSE
