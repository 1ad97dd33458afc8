SPECIFICATION FairSpec
CONSTANT MaxBytes = 2
INVARIANTS StreamsAreWhole
PROPERTY ClosesInTheEnd
CHECK_DEADLOCK FALSE
