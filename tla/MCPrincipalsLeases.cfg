SPECIFICATION Spec
CONSTANTS
    PrincipalIds = {"p"}
    AttachIds = {"a", "b"}
    NoAttach = "none"
    Known = {"p"}
    PublicApps = {}
    PrivateApps = {}
    Requests <- MCLeaseRequests
    StaleAfter = 1
    MaxRequests = 3
    MaxFaults = 0
    MaxCrashes = 1
INVARIANTS
    LeasesSound
    RegistriesAgree
PROPERTY
    LiveLeaseKept
