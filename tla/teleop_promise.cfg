SPECIFICATION Spec
CONSTANTS
  Timeout = 18
  Period = 5
  BrakeTimeout = 25
  MinSpeed = 1
  MaxSpeed = 2
  DefaultSpeed = 1
INVARIANTS
  StopsInTime
CHECK_DEADLOCK FALSE
