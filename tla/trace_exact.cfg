SPECIFICATION Spec
CONSTANTS
  Nodes <- ThreeNodes
  Likes <- Both
  Depths = {0, 1, 2, 3}
  Entries <- Main
CHECK_DEADLOCK FALSE
INVARIANTS
  FindsExactlyTheReachable
  RowsArePaths
  VerdictIsSound
