SPECIFICATION TimedSpec
CONSTANTS
  N = 1
  MaxAttempts = 2
  InitialPoseSource = "rviz"
  MapStartsReceived = FALSE
  FaultKinds = {"map", "data", "discovery", "service", "query"}
  MaxGeneration = 1
  MaxFaults = 1
  MaxCalls = 2
PROPERTIES
  ImplementsContract
CHECK_DEADLOCK FALSE
