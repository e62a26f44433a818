SPECIFICATION Spec
CONSTANTS
    Reviewers = {"v1", "v2"}
    NoReviewer = "nobody"
    ClaimTtl = 1
    Requests = {1, 2}
    Procs = {"p1", "p2"}
    OneAtATime = TRUE
    MaxTime = 2
    MaxCalls = 4
    MaxFaults = 1
INVARIANTS RowsAgree OneCaseAtATime
PROPERTIES DecisionStands DecidedByHolder LeaseIsKept
CHECK_DEADLOCK FALSE
