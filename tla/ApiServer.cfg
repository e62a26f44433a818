SPECIFICATION FairSpec
CONSTANTS
    Limit = 1
    Requests <- MCRequests
    Clerks = {c1, c2}
    Slugs = {"s1", "s2"}
    Users = {"u1", "u2"}
    MaxOrganizations = 3
    Procs = {p1, p2}
    Excluded = {"register"}
    Existing <- MCExisting
    Watched <- MCWatched
    Workloads <- MCWorkloads
    MaxFaults = 1
INVARIANTS
    AnswersAreEarned
    OrganizationsAreWhole
PROPERTIES
    RetriesGetThrough
CHECK_DEADLOCK FALSE

