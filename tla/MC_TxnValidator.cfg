SPECIFICATION FairSpec
CONSTANTS
    MaxStdToSchedule = 3
    MaxNonStdToSchedule = 1
    MaxOrphanInputsPerBatch = 2
    Starts <- Situations
CHECK_DEADLOCK FALSE
INVARIANT PoolHasNoConflicts
INVARIANT DetectorSound
INVARIANT NoOrphanLeftBehind
PROPERTY ValidTxnsAccepted
