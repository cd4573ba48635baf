SPECIFICATION FairSpec
CONSTANTS
  n1 = n1
  n2 = n2
  Node = {n1}
  SubId = {1, 2}
  MaxVersion = 1
  MaxEvents = 1
  MaxReboots = 1
  MaxFaults = 2
  MaxRequests = 3
INVARIANTS
  SubscriptionIsOwned
  SubscribedIsAnnounced
  EventsForwardedOnce
  ViewIsCurrent
PROPERTY Resubscribes
CHECK_DEADLOCK FALSE
