SPECIFICATION FairSpec
CONSTANTS
    Fee = 2
    Threshold = 3
    Procs = {p1, p2}
    Orgs = {"o1", "o2"}
    Events <- MCEvents
    Asks <- MCAsks
    Windows <- MCWindows
    Deposits = {1, 2}
    Workloads <- MCWorkloads
    MaxAnchorChecks = 2
    MaxEntries = 3
    MaxTxs = 3
    MaxCalls = 2
    MaxFaults = 1
    MaxTopUps = 1
    MaxRewrites = 1
INVARIANTS
    NoFalseProof
    VerificationIsSound
    ReadsAreExact
PROPERTIES
    RefusalIsLoud
    DrainIsHeard
CHECK_DEADLOCK FALSE
