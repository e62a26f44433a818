SPECIFICATION Spec
CONSTANTS
    Users = {"u1"}
    Procs = {"p1", "p2"}
    MaxConcurrentSessions = 1
    AccessTtl = 2
    RefreshTtl = 3
    IdleTimeout = 3
    AbsoluteLifetime = 4
    RevocationWindow = 2
    MaxSessions = 4
    MaxTokens = 4
    MaxTime = 3
    MaxFaults = 0
    MaxCalls = 4
INVARIANTS RevocationIsFinal EvictionsAreEarned
CHECK_DEADLOCK FALSE
