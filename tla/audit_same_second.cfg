SPECIFICATION LiveSpec
CONSTANTS
  MaxTasks = 3
  MaxTime = 3
  PerSecond = 2
  Results = {"completed"}
CHECK_DEADLOCK FALSE
PROPERTY
  EveryTaskEnds
