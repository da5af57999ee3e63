CONSTANTS
    Events = 2
    Segs = 1
    MaxCrashes = 0
    Mirrored = FALSE
    LinkMayFail = TRUE
    Described = TRUE
    Deaths = {}
    MayAbandon = FALSE
SPECIFICATION FairSpec
PROPERTIES EveryEventFinishes PointerHeals
