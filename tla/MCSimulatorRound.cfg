CONSTANTS
    Tasks <- TwoTasks
    NoTask = NoTask
    Calls <- TwoCalls
    Lifespan = "lifespan"
    ENABLED_AT_START = TRUE
    MaxBreaks = 1
    Settings <- Alternating
    MinutesPerHour = 1
    HoursPerDay = 4
    MaxCount = 1
    MaxLost = 1
    End = 1
SPECIFICATION FairRoundSpec
INVARIANTS
    RoundTypeOK
    PurchasesMatchOrders
    RoundsAreSpaced
    PlansRecurDaily
    TypeOK
    OneLoop
    StoppedMeansOver
    NothingLeftBehind
PROPERTIES
    ImplementsController
    HttpErrorsDoNotStop
    StopIsAnswered
    ShutdownCompletes
\* The service goes down.
CHECK_DEADLOCK FALSE
