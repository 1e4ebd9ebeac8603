SPECIFICATION BoundedSpec
CONSTANTS
  OdometryCalls = {"EKF"}
  CostmapCalls = {"global costmap"}
  Localization = TRUE
  Tolerance = 1
  MaxGeneration = 3
  MaxTime = 2
  MaxEpoch = 1
  MaxScans = 2
INVARIANTS
  IInv
  ArmedOnlyWhenQuiet
  ResponseTruthful
  OneSeedPerEvent
PROPERTIES
  ImplementsContract
  SeedSeesTheTeleport
CHECK_DEADLOCK FALSE
