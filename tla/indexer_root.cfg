SPECIFICATION Spec
CONSTANTS
  Workspaces <- SmallWorkspaces
  Stored <- NewDatabase
  Passes = {p1}
  Readers = {}
  SkippedRoots = {TRUE}
  MaxRuns = 2
CHECK_DEADLOCK FALSE
INVARIANT
  EveryDeclarationHasNode
