SPECIFICATION CommandsSpec
CONSTANTS
  c1 = c1
  c2 = c2
  p1 = p1
  a = a
  b = b
  Client = {c1, c2}
  Node = {1, 2, 3}
  Path = {p1}
  Value = {a}
  Payload = {a}
  HistorySize = 1
  Provisioned <- FirstNodeOrNone
  Budget <- UpBudget
  MaxQueue = 1
  ControllerNodeId = 2
  MaxRestarts = 1
  MaxCommands = 2
INVARIANTS
  NodeIdsAreFresh
  AddedIsKept
  DroppedStaysGone
  JoinedIsAvailable
SYMMETRY ClientSymmetry
CHECK_DEADLOCK FALSE
