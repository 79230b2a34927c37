SPECIFICATION Spec
CONSTANTS
    a = a
    b = b
    HourLen = 2
    Profiles <- MCProfiles
    EventCap = 1
    SinkCap = 1
    MaxRetries = 1
    Bucket = 3
    PreRotation = 1
    Attempts = 2
    MaxClock = 13
    MaxReads = 1
INVARIANT WalFirst
INVARIANT CleanExitStored
INVARIANT ReadIsOneGeneration
INVARIANT NoMarketTwice
PROPERTY DirectScanSafe
PROPERTY ViewNeverLoses
PROPERTY CutOverClean
PROPERTY StopEnds
CHECK_DEADLOCK FALSE
