SPECIFICATION FairSpec
CONSTANTS
    Proc = {r1, r2, r3}
    None = None
    MaxKey = 2
    MaxFaults = 2
    Exclusive = TRUE
    MayDisable = FALSE
INVARIANTS TypeOK BlobsCoherent ClusterOfOneGraph SealedIsOpenable
PROPERTIES PersistedOnce Recovers
CHECK_DEADLOCK FALSE
