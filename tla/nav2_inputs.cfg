SPECIFICATION MachinesSpec
CONSTANTS
  FreshnessTimeout = 1
  TfStableDuration = 2
  ClockJumpTolerance = 1
  TfTolerance = 0
  Poses = {0, 1}
  Sources = {"scan"}
  EveryTickEvaluates = FALSE
  MaxNow = 3
  MaxSim = 3
  MaxEpoch = 1
  Layers = {"cognitive", "local"}
  RiskCells = {0, 1}
  Grids <- RiskGrids
  Confirm = 2
  MaxResets = 1
  Width = 4
  Height = 2
  Goals <- PlannerGoals
  Costly = 5
  Tolerance = 16
  MaxApproach = 2
  MaxIterations = 20
  MaxSpecial = 2
  MaxFavoured = 1
  Nodes = {1, 2, 3, 4, 5}
  Corridors = {{1, 2}, {1, 3}, {2, 3}, {2, 4}, {3, 4}, {3, 5}, {4, 5}}
  Doubled = {}
  Costs = {1, 3}
  K = 4
  RouteStart = 1
  RouteGoal = 5
  Trials = 2
  Legs = 2
  MaxDirs = 2
  MaxAttempts = 2
  MaxLaunches = 3
INVARIANTS
  EvidenceOfThisEpoch
  WindowIsStill
  RejectedIsCleared
  ScoresKeepTheCost
  FirstRoutesFound
  GoalsOnRecord
  FaultlessTrialEnded
  NoFailureHidden
PROPERTIES
  EpochsHaveACause
  SkippedIsSealed
  EvidenceKept
CHECK_DEADLOCK FALSE
