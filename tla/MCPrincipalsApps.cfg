SPECIFICATION FairSpec
CONSTANTS
    PrincipalIds = {"p", "q"}
    AttachIds = {"a"}
    NoAttach = "none"
    Known = {"q"}
    PublicApps = {"x"}
    PrivateApps = {"t", "u"}
    Requests <- MCAppRequests
    StaleAfter = 1
    MaxRequests = 3
    MaxFaults = 1
    MaxCrashes = 1
INVARIANTS
    PrivateAppsMaterialized
PROPERTY
    StaleLeaseSwept
