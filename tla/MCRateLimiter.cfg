SPECIFICATION LimiterSpec
CONSTANTS
    Requests = 4
    WindowSecs = 2
    Second = 7
    Callers = {c1, c2}
    MaxTime = 16
    MaxCalls = 8
INVARIANT RateIsKept
CHECK_DEADLOCK FALSE
