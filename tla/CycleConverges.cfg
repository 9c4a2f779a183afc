SPECIFICATION FairSpec
CONSTANTS
    NumPaths = 2
    MaxEdits = 2
    MaxHints = 1
    MaxDeletes = 1
    MaxFaults = 1
    QuietSwap = FALSE
INVARIANT CycleInv
PROPERTY Converges
