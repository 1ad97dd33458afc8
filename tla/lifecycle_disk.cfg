SPECIFICATION Spec
CONSTANTS
    Proc = {r1, r2, r3}
    None = None
    MaxKey = 1
    MaxFaults = 1
    Exclusive = TRUE
    MayDisable = FALSE
INVARIANT DiskIsPersisted
CHECK_DEADLOCK FALSE
