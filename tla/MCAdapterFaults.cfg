SPECIFICATION Spec
CONSTANTS
    FallbackPolling = TRUE
    InboundPolling = TRUE
    MaxLines = 1
    MaxInbound = 1
    MaxSide = 1
    MaxRetries = 0
    MaxFaults = 2
    MaxCrashes = 1
INVARIANTS
    CursorNotAhead
    SeqMonotonicPerBoot
    CausalOrder
    OneTerminalWithoutCrash
