SPECIFICATION Spec
CONSTANTS
  Callers = {c1}
  NoOne = NoOne
  MaxProc = 3
  MaxCrash = 0
INVARIANT
  OneServer
