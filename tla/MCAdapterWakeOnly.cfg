SPECIFICATION FairSpec
CONSTANTS
    FallbackPolling = FALSE
    InboundPolling = FALSE
    MaxLines = 2
    MaxInbound = 0
    MaxSide = 0
    MaxRetries = 0
    MaxFaults = 0
    MaxCrashes = 0
CHECK_DEADLOCK FALSE
PROPERTY
    TerminalFollowsAccepted
