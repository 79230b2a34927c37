SPECIFICATION Spec
CONSTANTS
    MaxRec = 4
    PayloadLen <- GrowingPayloads
    MaxSeg = 2
    SegmentSize = 5
    MaxSegments = 2
    MaxLag = 3
    Consumers = {}
    MaxExits = 2
    MaxPowerLoss = 1
CHECK_DEADLOCK FALSE
INVARIANT TypeOK
INVARIANT SealedSynced
INVARIANT AppendsOnFrameBoundary
INVARIANT SyncedIntact
PROPERTY DurableKept
PROPERTY GlobalOffsetGrows
PROPERTY ImplementsDurableLog
