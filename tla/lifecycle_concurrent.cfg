SPECIFICATION Spec
CONSTANTS
    Proc = {r1, r2, r3}
    None = None
    MaxKey = 2
    MaxFaults = 1
    Exclusive = FALSE
    MayDisable = TRUE
SYMMETRY Symmetry
INVARIANTS IgnitionBeforeGraph SuccessMeansPersisted EnabledIsOpenable
CHECK_DEADLOCK FALSE
