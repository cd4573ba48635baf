SPECIFICATION Spec
CONSTANTS
  c1 = c1
  c2 = c2
  Caller <- MCCaller
  Asks <- MCAsks
  Supervised = {n1, n2}
  MaxCalls = 2
INVARIANTS DownMeansGone  BestEffortIsOk
PROPERTIES EveryCallIsAnswered ProcessEnds
