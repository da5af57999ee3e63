SPECIFICATION FairSpec
CONSTANTS
    Events = 1
    Newest = 2
    Reserve = 1
    Prebuffer = 1
    Ahead = 1
    MaxCached = 9
    KeepBehind = 1
    Listed = 2
    GapAttempts = 2
    Batch = 2
    HoldFinished = TRUE
    Ops = 1
    Faults = 1
    Cuts = 0
    Kinds = {"good", "bad", "gone", "gap", "evicted"}
    Controls = {"seek", "wall"}
INVARIANTS InitFollows
PROPERTIES PlaysToTheEnd
CHECK_DEADLOCK FALSE
