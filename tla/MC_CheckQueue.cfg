SPECIFICATION FairSpec
CONSTANTS
    q1 = q1
    mScriptCheckQueue <- MCQueues
    Worker = {w1}
    Client = {c1, c2}
    GroupClient = {c1}
    QueueOf <- MCQueueOf
    ValueT = {1, 2}
    Batches <- MCBatches
    MaxChecks = 4
    nBatchSize = 2
    None = None
INVARIANTS
    PoolSound
    ResultRight
PROPERTY
    SessionsEnd
\* The node may be shut down.
CHECK_DEADLOCK FALSE
