SPECIFICATION Spec
CONSTANTS
  Sse = {s1}
  Grpc = {g1}
  QueueCap = 2
  ListenCap = 2
  MaxMsg = 5
INVARIANTS
  ClosedIsForgotten
  InOrder
  NoSilentGap
CHECK_DEADLOCK FALSE
