SPECIFICATION FairSpec
CONSTANT Program <- InstallProgram
INVARIANTS TypeOK CallsAreBounded ErrorFitsCause
PROPERTIES PassedIffSucceeded RetriesAreRefreshed RunReturns
CHECK_DEADLOCK FALSE
