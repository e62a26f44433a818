SPECIFICATION Spec
CONSTANTS
    Users = {"admin", "ann"}
    Orgs = {"o1"}
    Names = {"super-admin", "team", "other"}
    Keys <- MCKeys
    ActionKey <- MCActionKey
    SeedRoles <- MCSeedRoles
    MaxRoles = 3
    MaxRows = 3
    MaxTime = 1
    Conditions <- MCConditions
    PolicyIds = {"pol"}
    Resources = {"docs"}
    Target <- MCTarget
    MaxVersions = 2
    Procs = {p1, p2}
    RuleSets <- MCRuleSets
    OldRules <- MCOldRules
    Contexts <- MCContexts
    Demands <- MCDemands
    Files <- MCFiles
    MaxCalls = 2
    MaxFaults = 1
SYMMETRY Symmetry
INVARIANTS
    CheckIsExact
    DecisionIsCurrent
    GreenMeansGreen
PROPERTIES
    SystemRolesStand
CHECK_DEADLOCK FALSE
