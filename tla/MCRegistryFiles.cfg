SPECIFICATION Spec
CONSTANTS
    Established = TRUE
    MaxWrites = 3
    MaxFaults = 2
    MaxCrashes = 2
INVARIANTS
    PrincipalsRecovered
    Startable
    DriftExplained
CHECK_DEADLOCK FALSE
