SPECIFICATION Spec
CONSTANTS
    Threshold = 2
    BaseDuration = 1
    BackoffFactor = 2
    MaxDuration = 2
    Users = {u1}
    Passwords = {a, b, c}
    NoPassword = NoPassword
    MaxCalls = 3
    MaxTime = 2
    HistoryDepth = 1
    LinkTtl = 1
    p1 = p1
    p2 = p2
    r1 = r1
    r2 = r2
    Procs <- MCProcs
    Replicas = {r1, r2}
    Home <- MCHome
    Upgraded = {r2}
    MaxFaults = 1
    MaxOverlaps = 2
SYMMETRY PasswordSymmetry
INVARIANTS
    ChangeIsFinal
    ResetSignsOut
    DeletionIsFinal
    LinksAreSingle
    NoReuse
    GuessesAreRationed
CHECK_DEADLOCK FALSE
