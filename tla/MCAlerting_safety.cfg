CONSTANTS
    Services <- Both
    UpPct <- PercentUp
    DownPct <- PercentDown
    MinBaseline = 1
    Lookback = 3
    Window = 2
    Duration = 2
    BaselineDays = 1
    MinutesPerDay = 6
    History <- Flat
    Start = 6
    End = 8
    Late = 2
    Ahead = 0
    Increments <- EachAlone
    MaxValue <- AloneMost
    MaxFailures = 1
    MaxDeaths = 1
    Absent = Absent
SPECIFICATION RecoveringSpec
INVARIANTS
    TypeOK
    AlertExplainsItself
    AlertRestsOnItsBuckets
    BaselineIsHistory
    ListsFitTogether
PROPERTIES
    AlertsAdvance
    SustainedDeviationAlerts
