SPECIFICATION Spec
CONSTANTS
  N = 2
  MaxAttempts = 2
  InitialPoseSource = "auto"
  MapStartsReceived = TRUE
  FaultKinds = {}
  MaxGeneration = 1
  MaxFaults = 0
  MaxCalls = 2
PROPERTIES
  ResetAfterStartupRecovers
CHECK_DEADLOCK FALSE
