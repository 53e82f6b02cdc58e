SPECIFICATION FairSpec
CONSTANTS
    Writers = {w1, w2}
    MaxWrites = 3
    MaxTransient = 1
    MaxTicks = 2
INVARIANT NoLostWakeup
PROPERTY EveryWritePolled
PROPERTY EveryWriteConsumed
CHECK_DEADLOCK FALSE
