CONSTANTS
    Events = 2
    Segs = 1
    MaxCrashes = 1
    Mirrored = TRUE
    LinkMayFail = TRUE
    Described = FALSE
    Deaths = {"idle", "begin", "enqueue"}
    MayAbandon = TRUE
    Packets = 3
    HoldMax = 2
    GoLives = 2
    Sources = {s1, s2}
    BridgeRuns = 2
    Phrase = 6
    PieceMax = 3
    Buckets = {b1, b2}
    Pages = {phone}
    Sockets = {deck}
    Asks = 2
    Presses = 4
SPECIFICATION HostSpec
INVARIANTS
    BacklogKept 
    PacketsInOrder NobodyWaitsInACircle SpooledBeforeTheEnd NoEventLeftLive
    SplitKeepsEveryWord 
CHECK_DEADLOCK FALSE
