CONSTANTS
  u1 = u1
  u2 = u2
  u3 = u3
  None = None
  Units <- MCUnits
  Strategy <- MCMixed
  LocalMax = 3
  GlobalLimit = 2
SPECIFICATION Spec
INVARIANTS
  TypeOK
  LifecycleValid
  ProjectionValid
  NoHiddenFallback
  AttemptOnce
  BudgetLedger
  AssemblyComplete
PROPERTIES
  CandidateHistory
  TerminalIsFinal
CHECK_DEADLOCK FALSE
