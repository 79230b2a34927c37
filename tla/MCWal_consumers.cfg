SPECIFICATION FairSpec
CONSTANTS
    MaxRec = 5
    PayloadLen <- ShortPayloads
    MaxSeg = 2
    SegmentSize = 6
    MaxSegments = 1
    MaxLag = 2
    Consumers = {c1}
    MaxExits = 1
    MaxPowerLoss = 0
CHECK_DEADLOCK FALSE
INVARIANT NoGapWithinSegment
INVARIANT PositionsOnBoundary
INVARIANT DeliveredInOrder
PROPERTY CommitNeverRetreats
PROPERTY PruneSparesListed
PROPERTY CatchesUp
