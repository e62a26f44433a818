SPECIFICATION Spec
CONSTANTS
    Users = {"u1", "u2"}
    Procs = {"p1"}
    MaxConcurrentSessions = 1
    AccessTtl = 2
    RefreshTtl = 3
    IdleTimeout = 3
    AbsoluteLifetime = 4
    RevocationWindow = 2
    MaxSessions = 2
    MaxTokens = 3
    MaxTime = 4
    MaxFaults = 1
    MaxCalls = 5
INVARIANTS AtMostMaxConcurrent RotationIsAChain RevokedIsDenied
PROPERTY RevokedAtIsKept
CHECK_DEADLOCK FALSE
