CONSTANTS
    Captures = 2
    Cap = 0
    Window = 2
    TargetCounts = {2}
    MaxCrashes = 1
    CrashPoints = {"idle", "confirm"}
    PowerCuts = FALSE
    ResumeReadsFail = TRUE
SPECIFICATION FairSpec
CHECK_DEADLOCK FALSE
PROPERTIES EverySegmentArrives KeepsThePromise
