SPECIFICATION FairSpec
CONSTANTS
    Recorders = {"r1"}
    Writers = {"w1"}
    MaxAttempts = 2
    MaxCalls = 2
    BatchLength = 2
    MaxBatchSize = 2
    MaxQueueSize = 2
    MaxFlushAttempts = 2
    MaxAccepted = 3
    MaxFaults = 1
INVARIANTS ChainIntact NothingLostSilently AnswersAreTrue NoDuplicates QueueOrderKept
PROPERTIES RefinesTrail QueueDrains StopReturns
CHECK_DEADLOCK FALSE
