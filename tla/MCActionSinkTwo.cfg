SPECIFICATION FairSpec
CONSTANTS
    Sinks = {"a", "b"}
    SinkOrder <- MCTwoOrder
    Chunks <- MCSharedChunks
    MaxLen = 2
    MaxFaults = 1
    MaxRetries = 0
    MaxTruncates = 1
    ProbeWindow = 2
    MaxRecoveryLines = 2
    MaxRecoveryBytes = 5
    FallbackPolling = TRUE
INVARIANTS
    NoRequestSkipped
PROPERTY
    CatchesUp
