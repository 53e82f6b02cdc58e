SPECIFICATION FairSpec
CONSTANTS
    FallbackPolling = TRUE
    InboundPolling = FALSE
    MaxLines = 2
    MaxInbound = 0
    MaxSide = 0
    MaxRetries = 1
    MaxFaults = 0
    MaxCrashes = 1
INVARIANTS
    NoRequestLost
    AcceptedInLineOrder
PROPERTIES
    TerminalFollowsAccepted
    EveryLineAnswered
