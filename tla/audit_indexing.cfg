SPECIFICATION AuditSpec
CONSTANTS
  Workspaces <- Few
  Stored <- Databases
  Passes = {1, 2}
  Readers = {r1}
  SkippedRoots = {TRUE, FALSE}
  MaxRuns = 1
  MaxTasks = 2
  MaxTime = 1
  PerSecond = 1
  Results = {"completed"}
INVARIANTS
  OverlapKeepsCalls
  NoStaleCalls
  CompletedIsIndexed
PROPERTIES
  OutcomeIsOwn
  OutcomeIsFinal
  EveryTaskEnds
