SPECIFICATION MCSpec
CONSTANTS
  MaxAttempts = 1
  Tasks = {t1, t2, t3}
  NoTask = NoTask
  NoChild = NoChild
  MaxIntent = 2
  MaxGeneration = 3
SYMMETRY TaskSymmetry
INVARIANT ConnectedIsBound
CHECK_DEADLOCK FALSE
