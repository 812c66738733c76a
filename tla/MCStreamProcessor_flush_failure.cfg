CONSTANTS
    Events <- Orders
    NoEvent = NoEvent
    Ttl = 1
    CleanupEvery = 1
    FlushCanFail = TRUE
    MaxLog = 2
    MaxTime = 0
    MaxDeaths = 0
SPECIFICATION RecoveringSpec
PROPERTIES
    LaterFactsAreFlushed
\* Every log is consumed, the clock is at its bound, the process may be down.
CHECK_DEADLOCK FALSE
