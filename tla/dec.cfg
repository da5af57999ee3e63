SPECIFICATION HostSpec
CONSTANTS
    Events = 2
    Newest = 1
    Reserve = 1
    Prebuffer = 1
    Ahead = 2
    MaxCached = 9
    KeepBehind = 1
    Listed = 2
    GapAttempts = 2
    Batch = 1
    HoldFinished = TRUE
    Ops = 1
    Faults = 0
    Cuts = 1
    Kinds = {"good"}
    Controls = {"pin", "unpin", "play", "stop", "pause", "resume", "seek", "marker", "live"}
    Fragments = 2
    PerFragment = 2
    Targets = {2}
    Streams = {"video"}
    Decoders = 2
    MaxFragments = 1
    QueueSpan = 1
    Handles = 2
INVARIANTS  NotHeldAgain
PROPERTIES HoldKeepsProgramme OldDecoderStaysOff
CHECK_DEADLOCK FALSE
