SPECIFICATION Spec
CONSTANTS
    MaxId = 3
    MaxMint = 2
    BatchSize = 2
    MaxUnacked = 2
    MaxFaults = 2
    Big = {1}
    PromptReads = TRUE
INVARIANTS
    TypeOK
    NothingLost
    LogInOrder
    WriterSeesContiguousIds
    DeliveryInv
PROPERTY
    DeliverySpec
CHECK_DEADLOCK FALSE
