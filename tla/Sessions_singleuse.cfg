SPECIFICATION Spec
CONSTANTS
    Users = {"u1"}
    Procs = {"p1", "p2"}
    MaxConcurrentSessions = 1
    AccessTtl = 1
    RefreshTtl = 3
    IdleTimeout = 3
    AbsoluteLifetime = 4
    RevocationWindow = 2
    MaxSessions = 2
    MaxTokens = 3
    MaxTime = 3
    MaxFaults = 0
    MaxCalls = 4
INVARIANT RotationIsAChain
CHECK_DEADLOCK FALSE
