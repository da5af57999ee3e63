CONSTANTS
    Newest = 1
    DecoderMax = 1
    QueueMax = 1
    Presses = 2
    Breaks = 0
    Panels = {{"pin"}}
SPECIFICATION PlayerSpec
INVARIANTS TeardownAsksForInit
CHECK_DEADLOCK FALSE
