SPECIFICATION FairSpec
CONSTANTS
    g1 = g1
    g2 = g2
    Readers <- MCReaders
    Secrets <- MCSecrets
    MaxVersion = 3
    MaxFaults = 2
INVARIANTS TypeOK PairsBelong
PROPERTY CatchesUp
CHECK_DEADLOCK FALSE
