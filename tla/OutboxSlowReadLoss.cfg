SPECIFICATION Spec
CONSTANTS
    MaxId = 4
    MaxMint = 2
    BatchSize = 2
    MaxUnacked = 3
    MaxFaults = 1
    Big = {}
    PromptReads = FALSE
INVARIANT
    NothingLost
CHECK_DEADLOCK FALSE
