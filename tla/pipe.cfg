CONSTANTS
    Captures = 3
    Cap = 2
    Window = 2
    TargetCounts = {2}
    MaxCrashes = 1
    CrashPoints = {"idle", "seg", "confirm"}
    PowerCuts = TRUE
    ResumeReadsFail = FALSE
SPECIFICATION Spec
CHECK_DEADLOCK FALSE
INVARIANTS ListedIsStored NothingLost
