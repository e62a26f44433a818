SPECIFICATION Spec
CONSTANTS
    Recorders = {}
    Writers = {"w1"}
    MaxAttempts = 2
    MaxCalls = 1
    BatchLength = 2
    MaxBatchSize = 2
    MaxQueueSize = 3
    MaxFlushAttempts = 2
    MaxAccepted = 5
    MaxFaults = 1
INVARIANT StopLeavesNothingPending
CHECK_DEADLOCK FALSE
