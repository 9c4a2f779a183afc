SPECIFICATION Spec
CONSTANTS
    MaxSeq = 3
    ChannelCap = 2
    BufferCap = 2
    MaxFaults = 1
    Timings = {FALSE}
INVARIANT
    BatchesFit
CHECK_DEADLOCK FALSE
