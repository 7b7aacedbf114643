SPECIFICATION AgentSpec
CONSTANTS
  Windows <- LoopWindows
  ClientWindows <- FewWindows
  LastStep = 90
  Sigs = {a, b}
  Limits = {1, 2}
  MaxBatch = 2
  MaxChecks = 4
  Calls = {e1}
  MaxDepth = 2
  MaxAttempts = 1
  MaxPlan = 3
CHECK_DEADLOCK FALSE
INVARIANTS
  WarnsOnRepetition
  HardStopIsEarned
  PauseIsEarned
  NoticedInTime
  RunningIsTheStack
  OutcomesCompose
PROPERTY
  ExecuteEnds
