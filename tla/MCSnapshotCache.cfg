SPECIFICATION FairSpec
CONSTANTS
    Resources = {"a", "b"}
    Modes <- MCModes
    MaxRequests = 2
    MaxFetches = 2
    MaxFaults = 2
    MaxReloads = 1
    MaxCrashes = 1
    FallbackPolling = TRUE
INVARIANTS TypeOK SnapshotsWhole TempsJournaled
PROPERTY EveryRefreshAnswered
CHECK_DEADLOCK FALSE
