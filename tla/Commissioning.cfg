SPECIFICATION Spec
CONSTANTS
  Task = {t1, t2}
  Instance = {i1, i2}
  MaxSweep = 2
  Ms = 2
  Margin = 2
  SweepBudget = 3
  BrowseBudget = 4
  PhaseBudget = 3
  FailSafe = 3
  MaxOps = 2
CHECK_DEADLOCK FALSE
INVARIANTS SweepInBounds ContentionIsReal CommissionedMeansJoined
PROPERTY OperationsEnd
