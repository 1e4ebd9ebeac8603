SPECIFICATION MachinesSpec
CONSTANTS
  N = 4
  MaxAttempts = 3
  MaxFailures = 2
  EdgeCount = 4
  From <- TurningFrom
  To <- TurningTo
  Offsets <- TurningOffsets
  Window = 3
  MaxBacktrack = 1
  Hysteresis = 2
  Positions <- TurningPositions
  Timeout = 2
  Period = 2
  BrakeTimeout = 1
  MinSpeed = 1
  MaxSpeed = 2
  DefaultSpeed = 1
  PublishCount = 2
  Tolerance = 1
  MaxAge = 3
  MaxRearms = 2
  Steps = 3
  Budget = 3
  Length = 3
  Corner = 2
  Dwell = 1
  Delay = 1
  Parks = TRUE
  ByTrigger = FALSE
  MaxTime = 7
  MaxResets = 1
  Segments = 2
  Settle = 1
  Idle = 2
  Duration = 3
  MaxFrames = 12
  MaxInFlight = 2
  MaxRuns = 2
  MaxKills = 1
INVARIANTS
  OnTrackedEdge
  DeadMan
  TruthfulResult
  MovesInClearedSegment
  OneStack
PROPERTIES
  DependencyOrder
  Repaired
  StopsWithoutTeleop
  SequenceEnds
  StrictOrder
  NoJump
  StopIsServed
CHECK_DEADLOCK FALSE
