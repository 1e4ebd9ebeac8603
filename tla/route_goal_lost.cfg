SPECIFICATION Spec
CONSTANTS
  Edges = {}
  Maps = {}
  BlockAfter = 1
  MaxRequests = 2
  MaxNavs = 2
  MaxCalls = 1
  MaxRevision = 0
  MaxFaults = 0
PROPERTIES
  GoalKept
CHECK_DEADLOCK FALSE
