CONSTANTS
    Events <- Clash
    NoEvent = NoEvent
    Ttl = 2
    CleanupEvery = 1
    FlushCanFail = TRUE
    MaxLog = 2
    MaxTime = 2
    MaxDeaths = 1
SPECIFICATION Spec
INVARIANTS
    TypeOK
    NoDoubleCount
    KpiOnlyOfFacts
    HourNeverAheadOfMinute
    RowsPerIdBounded
    LossBounded
PROPERTIES
    OnlyFailuresForget
\* Every log is consumed, the clock is at its bound, the process may be down.
CHECK_DEADLOCK FALSE
