SPECIFICATION CommandsSpec
CONSTANTS
  c1 = c1
  c2 = c2
  p1 = p1
  a = a
  b = b
  Client = {c1, c2}
  Node = {1}
  Path = {p1}
  Value = {a, b}
  Payload = {a}
  HistorySize = 1
  Provisioned <- FirstNodeOrNone
  Budget <- RaceBudget
  MaxQueue = 1
  ControllerNodeId = 3
  MaxRestarts = 1
  MaxCommands = 1
INVARIANT RemovedFileStaysGone
SYMMETRY ClientSymmetry
CHECK_DEADLOCK FALSE
