CONSTANTS
    Services <- Revenue
    UpPct <- PercentUp
    DownPct <- PercentDown
    MinBaseline = 1
    Lookback = 3
    Window = 2
    Duration = 2
    BaselineDays = 1
    MinutesPerDay = 6
    History <- Flat
    Start = 6
    End = 8
    Late = 2
    Ahead = 0
    Increments <- NothingOr35
    MaxValue <- Twice35
    MaxFailures = 0
    MaxDeaths = 0
    Absent = Absent
SPECIFICATION Spec
INVARIANTS
    DeviationPersisted
