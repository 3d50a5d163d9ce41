CONSTANTS
  u1 = u1
  u2 = u2
  u3 = u3
  None = None
  Main = Main
  Units <- MCTwo
  Strategy <- MCTwoModels
  UnitOrder <- MCTwoOrder
  Concurrency = 1
  LocalMax = 1
  GlobalLimit = 0
  Recoverable <- MCNone
  MaxFaults = 1
  MaxCancels = 0
SPECIFICATION FairSpec
PROPERTIES
  RoundEnds
CHECK_DEADLOCK FALSE
