SPECIFICATION MCSpec
CONSTANTS
  MaxAttempts = 1
  Tasks = {t1, t2, t3}
  NoTask = NoTask
  NoChild = NoChild
  MaxIntent = 2
  MaxGeneration = 3
SYMMETRY TaskSymmetry
INVARIANTS
  TypeOK
  ConnectedIsServed
  
  NoLostWakeup
  StopFlightHasChild
PROPERTIES
  LeavingConnectedClosesGate
  ConnectedNeedsBarrier
  LaunchIsWanted
  StaleEngineIsInert
  ImplementsEngineService
CHECK_DEADLOCK FALSE
