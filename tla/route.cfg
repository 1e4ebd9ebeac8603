SPECIFICATION SliceSpec
CONSTANTS
  e1 = e1
  Edges = {e1}
  Maps = {2}
  BlockAfter = 2
  MaxRequests = 2
  MaxNavs = 2
  MaxCalls = 1
  MaxRevision = 2
  MaxFaults = 1
INVARIANTS
  PriorsOfThisRequest
PROPERTIES
  EveryGoalRouted
  ServerInSync
CHECK_DEADLOCK FALSE
