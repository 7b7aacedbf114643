SPECIFICATION LiveSpec
CONSTANTS
  Callers = {c1, c2}
  NoOne = NoOne
  MaxProc = 2
  MaxCrash = 1
INVARIANTS
  TrackedIsWatched
PROPERTIES
  StopHasEffect
  NoQuietLoss
  ImplementsSlot
  StatusCatchesUp
  StoppedEnds
  RequestsFinish
