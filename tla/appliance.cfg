CONSTANTS
    Newest = 2
    DecoderMax = 1
    QueueMax = 1
    Presses = 2
    Breaks = 1
    Panels = {{"play", "stop", "hold", "continue", "live"}, {"stop", "play", "live", "seek"}, {"pin"}, {"receive"}, {"credentials"}}
    NetWidth = 8
    FeedWidth = 2
    Slices = 2
    Requests = 2
    Mishaps = 1
    Heads = {a, b}
    IdleModes = {"splash", "black", "image", "hold"}
    Acts = 2
    Screens = {a, b}
    Troubles = 2
    Reopenings = 1
    Sources = {s1, s2}
    Second = TRUE
    Changes = 2
    Pairings = 1
SPECIFICATION RoomFairSpec
INVARIANTS NothingQueuedWhileStopped NoHoleInADecoder   HeldPictureStays NoTearing 
PROPERTIES PlaysOn
CHECK_DEADLOCK FALSE
