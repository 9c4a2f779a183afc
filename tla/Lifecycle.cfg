SPECIFICATION Spec
CONSTANTS
    MaxProcs = 6
    Orderly = TRUE
INVARIANTS
    OneWriter
    PidNamesDaemon
    StartsCleanly
    LifecycleInv
PROPERTY
    StartSettles
CHECK_DEADLOCK FALSE
