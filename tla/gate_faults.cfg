SPECIFICATION BoundedSpec
CONSTANTS
  N = 2
  MaxAttempts = 2
  InitialPoseSource = "auto"
  MapStartsReceived = TRUE
  FaultKinds = {"node", "death", "query", "service", "duplicate"}
  MaxGeneration = 1
  MaxFaults = 2
  MaxCalls = 2
  MaxDisturbances = 2
INVARIANTS
  IInv
  OneCommandOutstanding
  CommandBudget
  PausedWhileRebuilding
PROPERTIES
  RecoveryIsComplete
  StaleAnswersInert
CHECK_DEADLOCK FALSE
