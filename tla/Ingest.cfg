SPECIFICATION FairSpec
CONSTANTS
    MaxSeq = 4
    ChannelCap = 2
    BufferCap = 2
    MaxFaults = 3
    Timings = {TRUE, FALSE}
INVARIANTS
    TypeOK
    PromptBatchesFit
    StatusFollowsCursor
    AppliedExactlyOnce
    IngestInv
PROPERTY
    EventuallyApplied
CHECK_DEADLOCK FALSE
