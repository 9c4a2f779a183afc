SPECIFICATION Spec
CONSTANTS
    NumPaths = 2
    MaxEdits = 2
    MaxHints = 1
    MaxDeletes = 1
    MaxFaults = 2
    QuietSwap = TRUE
INVARIANTS
    TypeOK
    NoProtocolPanic
    IdleIsQuiet
    PriorIsHonest
    OpIdsUnique
    NoUserEditLost
    NoSpuriousRemoval
