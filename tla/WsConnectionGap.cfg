SPECIFICATION Spec
CONSTANTS
  c1 = c1
  Conn = {c1}
  Capacity = 2
  MaxChanges = 4
  MaxCommands = 4
INVARIANT SubscriptionHasNoGap
CHECK_DEADLOCK FALSE
