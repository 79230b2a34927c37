SPECIFICATION Spec
CONSTANTS
    a = a
    NoAsset = NoAsset
    NoTime = NoTime
    NoCheckpoint = NoCheckpoint
    NoOrdinal = 100
    Assets <- MCAssets
    A = a
    Prices <- MCPrices
    MaxTotal = 100
    Opening <- MCOpening
    Moves <- MCMoves
    DefaultDepth = 1
    MaxDepth = 2
    Lookback = 2
    MaxClock = 4
    MaxSessions = 1
    MaxFetches = 1
    MaxLost = 0
INVARIANT NothingSkipped
CHECK_DEADLOCK FALSE
