SPECIFICATION EndlessSpec
CONSTANTS
  Sse = {s1}
  Grpc = {g1}
  QueueCap = 2
  ListenCap = 1
  MaxMsg = 1
PROPERTIES
  RegisterReturns
  GoneIsClosed
  QueueDrains
