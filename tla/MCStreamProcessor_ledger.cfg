CONSTANTS
    Events <- Topics
    NoEvent = NoEvent
    Ttl = 1
    CleanupEvery = 2
    FlushCanFail = TRUE
    MaxLog = 2
    MaxTime = 1
    MaxDeaths = 1
SPECIFICATION RecoveringSpec
PROPERTIES
    ImplementsLedger
    BacklogDrains
    EveryIdCounted
\* Every log is consumed, the clock is at its bound, the process may be down.
CHECK_DEADLOCK FALSE
