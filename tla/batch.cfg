SPECIFICATION Spec
CONSTANTS
    Runs = {r1, r2}
    Tasks = 2
    Options <- Nights
    MinOutputLines = 2
    MaxRetries = 1
    Answers <- Texts
    MaxCrashes = 1
    MaxRemovals = 1
    Absent = Absent
SYMMETRY Interchangeable
CHECK_DEADLOCK FALSE
INVARIANTS OneBatchAtATime CleanExitIsComplete LongestIsKept
PROPERTY ReportsSurvive
