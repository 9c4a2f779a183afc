SPECIFICATION FairSpec
CONSTANTS
    MaxId = 2
    MaxMint = 2
    BatchSize = 1
    MaxUnacked = 2
    MaxFaults = 2
    Big = {1}
    PromptReads = FALSE
INVARIANTS
    ReservationsArePrefix
PROPERTY
    EventuallyTrimmed
CHECK_DEADLOCK FALSE
