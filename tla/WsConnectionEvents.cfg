SPECIFICATION FairSpec
CONSTANTS
  c1 = c1
  Conn = {c1}
  Capacity = 2
  MaxChanges = 4
  MaxCommands = 4
INVARIANTS
  EventsComeAfterNodes
  NoEventSwallowed
PROPERTIES
  CatchesUp
  ShutdownReachesAll
CHECK_DEADLOCK FALSE
