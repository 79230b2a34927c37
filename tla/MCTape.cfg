SPECIFICATION Spec
CONSTANTS
    a = a
    NoAsset = NoAsset
    NoTime = NoTime
    NoCheckpoint = NoCheckpoint
    NoOrdinal = 100
    Assets <- MCAssets
    A = a
    Prices <- MCPrices
    MaxTotal = 100
    Opening <- MCOpening
    Moves <- MCMoves
    DefaultDepth = 1
    MaxDepth = 2
    Lookback = 2
    MaxClock = 4
    MaxSessions = 2
    MaxFetches = 2
    MaxLost = 1
INVARIANT ReplayIsObservation
INVARIANT ExchangeReplayIsVenueBook
INVARIANT GapsAreLosses
INVARIANT ValidationTellsLoss
CHECK_DEADLOCK FALSE
