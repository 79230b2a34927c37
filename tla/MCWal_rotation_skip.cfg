SPECIFICATION Spec
CONSTANTS
    MaxRec = 4
    PayloadLen <- ShortPayloads
    MaxSeg = 1
    SegmentSize = 4
    MaxSegments = 2
    MaxLag = 4
    Consumers = {c1}
    MaxExits = 0
    MaxPowerLoss = 0
CHECK_DEADLOCK FALSE
INVARIANT NoRecordSkipped
