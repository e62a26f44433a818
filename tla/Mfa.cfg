SPECIFICATION Spec
CONSTANTS
    Threshold = 2
    BaseDuration = 1
    BackoffFactor = 2
    MaxDuration = 2
    Users = {u1, u2}
    Devices = {d1}
    CodeCount = 2
    ChallengeTtl = 1
    MaxMethods = 5
    MaxChallenges = 1
    MaxCounter = 1
    MaxTime = 2
    Procs = {p1, p2}
    StepUpAge = 1
    MaxCalls = 3
    MaxFaults = 1
SYMMETRY MfaSymmetry
INVARIANTS ProofsAreSingleUse RecoveryIsFinal
PROPERTY CounterNeverFalls
CHECK_DEADLOCK FALSE
