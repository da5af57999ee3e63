SPECIFICATION CloudSpec
CONSTANTS
    Hosts = {"obs", "player", "relay"}
    Buckets = {1, 2}
    MaxCodes = 2
    MaxFaults = 2
    MaxEdits = 2
    Threads = {t1, t2}
    Events = {1, 2, 3}
    MaxEntries = 2
    MaxSets = 3
    MaxTurns = 5
    StoredEvents = {1, 2}
    Indexed = {2}
    Workers = 2
    Disturbances = 2
INVARIANTS CancelReachesAll ConfirmedIsEvery
PROPERTIES  CueArrives
CHECK_DEADLOCK FALSE
