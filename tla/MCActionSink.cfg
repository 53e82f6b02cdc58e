SPECIFICATION Spec
CONSTANTS
    Sinks = {"a"}
    SinkOrder <- MCOneOrder
    Chunks <- MCMultilineChunks
    MaxLen = 6
    MaxFaults = 2
    MaxRetries = 1
    MaxTruncates = 0
    ProbeWindow = 2
    MaxRecoveryLines = 3
    MaxRecoveryBytes = 5
    FallbackPolling = TRUE
INVARIANTS
    NoRequestSkipped
    SubmittedInOrder
    SubmittedAreWholeLines
    SubmittedAreStable
