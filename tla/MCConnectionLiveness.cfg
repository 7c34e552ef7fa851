SPECIFICATION MCFairSpec
CONSTANTS
  MaxAttempts = 1
  Tasks = {t1, t2}
  NoTask = NoTask
  NoChild = NoChild
  MaxIntent = 2
  MaxGeneration = 2
PROPERTIES
  StopSettles
  TasksFinish
  QuitCompletes
  
  PauseEnds
CHECK_DEADLOCK FALSE
