SPECIFICATION Spec
CONSTANTS
    MaxRec = 4
    PayloadLen <- ShortPayloads
    MaxSeg = 0
    SegmentSize = 20
    MaxSegments = 2
    MaxLag = 4
    Consumers = {c1}
    MaxExits = 1
    MaxPowerLoss = 0
CHECK_DEADLOCK FALSE
INVARIANT ReadsWithoutGap
