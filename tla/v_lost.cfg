CONSTANTS
    Captures = 3
    Cap = 0
    Window = 2
    TargetCounts = {1}
    MaxCrashes = 1
    CrashPoints = {"meta"}
    PowerCuts = FALSE
    ResumeReadsFail = FALSE
SPECIFICATION Spec
CHECK_DEADLOCK FALSE
INVARIANT NothingLost
