SPECIFICATION FairSpec
CONSTANTS
    MaxRuns = 3
    MaxFaults = 3
    RetryAttempts = 3
INVARIANTS TypeOK NilMeansDeployed AuthFailureIsRetried ConflictIsAdopted CustomDataIsStable
PROPERTIES DeploysInTheEnd
CHECK_DEADLOCK FALSE
