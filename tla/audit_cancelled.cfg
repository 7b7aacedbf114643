SPECIFICATION LiveSpec
CONSTANTS
  MaxTasks = 3
  MaxTime = 3
  PerSecond = 1
  Results = {"completed"}
CHECK_DEADLOCK FALSE
PROPERTY
  CancelIsFinal
