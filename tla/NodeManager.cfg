SPECIFICATION FairSpec
CONSTANTS
  n1 = n1
  n2 = n2
  p1 = p1
  p2 = p2
  a = a
  b = b
  Node = {n1, n2}
  Path = {p1, p2}
  Value = {a, b}
  Payload = {a, b}
  HistorySize = 2
  MaxQueue = 2
  Provisioned <- OneOrBoth
  Budget <- Scenarios
INVARIANTS
  ConnectedIsAvailable
  OutageIsTimed
  DiskMirrorsRegistry
  HistoryIsTail
PROPERTIES
  ImplementsNodeView
  AvailabilityFollowsLink
CHECK_DEADLOCK FALSE
