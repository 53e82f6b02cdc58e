SPECIFICATION Spec
CONSTANTS
    ChunkSize = 2
    Names <- MCNames
    Paths <- MCPaths
    Plans <- MCPlans
    Offsets <- MCOffsets
    Payloads <- MCPayloads
    Sizes <- MCSizes
    MaxInode = 3
    MaxOps = 5
    MaxCrashes = 1
CONSTRAINT Untorn
INVARIANTS TypeOK NamesIntact LinksSuffice NothingPastEnd ReadsWhole NoFileLeaks
PROPERTY Implements
