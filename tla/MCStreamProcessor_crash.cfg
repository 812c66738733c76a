CONSTANTS
    Events <- Single
    NoEvent = NoEvent
    Ttl = 1
    CleanupEvery = 1
    FlushCanFail = FALSE
    MaxLog = 1
    MaxTime = 1
    MaxDeaths = 1
SPECIFICATION RecoveringSpec
PROPERTIES
    FactsReachAggregates
\* Every log is consumed, the clock is at its bound, the process may be down.
CHECK_DEADLOCK FALSE
