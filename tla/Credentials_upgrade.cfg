SPECIFICATION Spec
CONSTANTS
    Threshold = 2
    BaseDuration = 1
    BackoffFactor = 2
    MaxDuration = 2
    Users = {u1}
    Passwords = {a, b}
    NoPassword = NoPassword
    MaxCalls = 2
    MaxTime = 1
    HistoryDepth = 1
    LinkTtl = 1
    p1 = p1
    p2 = p2
    r1 = r1
    r2 = r2
    Procs <- MCProcs
    Replicas = {r1, r2}
    Home <- MCHome
    Upgraded = {r2}
    MaxOverlaps = 1
    MaxFaults = 0
INVARIANT UpgradeKeepsPassword
CHECK_DEADLOCK FALSE
