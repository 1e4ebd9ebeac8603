SPECIFICATION Spec
CONSTANTS
  N = 2
  MaxAttempts = 3
  InitialPoseSource = "auto"
  MapStartsReceived = TRUE
  FaultKinds = {"node"}
  MaxGeneration = 1
  MaxFaults = 1
  MaxCalls = 2
PROPERTIES
  MixtureIsNormalized
CHECK_DEADLOCK FALSE
