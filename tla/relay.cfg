SPECIFICATION RelaySpec
CONSTANTS
    Events = 1
    LastSeq = 1
    Gaps = {}
    Ahead = 2
    Delays = {1}
    Seg = 1
    Grace = 1
    Quiet = 1
    StallAfter = 1
    BackoffFirst = 1
    BackoffMax = 1
    BackoffReset = 0
    DrainFor = 1
    PipeCap = 1
    Listener = FALSE
    Chances = 1
    Callers = {c1, c2}
    Dests = {d1, d2}
    Edits = 2
INVARIANTS NoStreamBehindItsState SessionsReadTheFeeder
  
CHECK_DEADLOCK FALSE
