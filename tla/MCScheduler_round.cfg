CONSTANTS
  u1 = u1
  u2 = u2
  u3 = u3
  None = None
  Main = Main
  Units <- MCThree
  Strategy <- MCThreeMixed
  UnitOrder <- MCThreeOrder
  Concurrency = 2
  LocalMax = 2
  GlobalLimit = 1
  Recoverable <- MCFirst
  MaxFaults = 0
  MaxCancels = 1
SPECIFICATION FairSpec
INVARIANTS
  OutcomeMatchesRun
  NoWorkerOutlivesTheRun
  RejectedOnlyAfterTheEnd
PROPERTIES
  RunEnds
CHECK_DEADLOCK FALSE
