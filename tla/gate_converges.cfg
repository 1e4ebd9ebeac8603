SPECIFICATION PatientSpec
CONSTANTS
  N = 3
  MaxAttempts = 2
  InitialPoseSource = "auto"
  MapStartsReceived = TRUE
  FaultKinds = {"service"}
  MaxGeneration = 1
  MaxFaults = 1
  MaxCalls = 2
PROPERTIES
  EndsActive
CHECK_DEADLOCK FALSE
