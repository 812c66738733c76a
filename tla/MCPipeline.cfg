CONSTANTS
    Requests = {"purchase", "later"}
    Body <- TwoTimes
    NotGiven = NotGiven
    Hash <- OnePartition
    Events <- Publishable
    NoEvent = NoEvent
    Ttl = 1
    CleanupEvery = 2
    FlushCanFail = FALSE
    MaxSends = 2
    MaxLog = 2
    MaxTime = 1
    MaxDeaths = 1
SPECIFICATION PipelineSpec
INVARIANTS
    RequestsTypeOK
    AcceptedIsPublished
    AcceptedAccounted
    AcceptedIsCounted
\* Every request is answered, every log consumed, and the processor may be down.
CHECK_DEADLOCK FALSE
