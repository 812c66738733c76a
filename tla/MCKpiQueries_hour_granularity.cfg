CONSTANTS
    MinuteLength = 2
    HourLength = 4
    Cent = 10
    Samples <- Offset
    Channels = {"web"}
    NoChannel = NoChannel
    AnyChannel = AnyChannel
    NotGiven = NotGiven
    MinuteSpan = 2
    HourSpan = 3
    Start = 4
    End = 5
    Late = 1
    Ahead = 1
    MaxFacts = 2
    MaxLosses = 0
SPECIFICATION Spec
INVARIANTS
    HourGranularity
\* The clock and the tables are at their bounds and everything is flushed.
CHECK_DEADLOCK FALSE
