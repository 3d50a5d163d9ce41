CONSTANTS
  u1 = u1
  u2 = u2
  u3 = u3
  None = None
  Main = Main
  Units <- MCTwo
  Strategy <- MCTwoModels
  UnitOrder <- MCTwoOrder
  Concurrency = 2
  LocalMax = 2
  GlobalLimit = 1
  Recoverable <- MCFirst
  MaxFaults = 1
  MaxCancels = 2
SPECIFICATION Spec
INVARIANTS
  TypeOK
  JoinCounter
  QueuedJobsCurrent
  CancelBeforeLastAwaitIsRecorded
PROPERTIES
  ImplementsPlanningRun
CHECK_DEADLOCK FALSE
