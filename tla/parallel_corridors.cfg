SPECIFICATION Spec
CONSTANTS
  Nodes = {1, 2, 3}
  Corridors = {{2, 3}}
  Doubled = {{1, 2}}
  Costs = {1}
  K = 2
  Start = 1
  Goal = 3
INVARIANTS
  RetainedIsSwept
CHECK_DEADLOCK FALSE
