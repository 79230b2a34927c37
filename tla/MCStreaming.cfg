SPECIFICATION Spec
CONSTANTS
    yes = yes
    no = no
    s1 = s1
    NoAsset = NoAsset
    Assets <- MCAssets
    Prices <- MCPrices
    Profiles <- MCProfiles
    MaxTotal = 100
    PerSeg = 3
    IdleSpan = 3
    Sessions = {s1}
    MaxSessions = 1
    Capacity = 1
    Tries = 2
    DefaultDepth = 1
    MaxDepth = 2
INVARIANT ReadyIsRecovered
INVARIANT ServedFromLog
INVARIANT StreamConverges
PROPERTY ReadyAgain
PROPERTY TailCatchesUp
PROPERTY FollowsTheLog
PROPERTY StreamEnds
CHECK_DEADLOCK FALSE
