CONSTANTS
    Word = 64
    NearEdge = 1
    MinNetPnl = 0
    Watchable <- MCWatchable
    Ticks <- MCTicks
    Growths = {9}
    Liquidities = {33, 66}
    FirstLiquidity = 66
    Losses <- MCLosses
    FirstGrowth = 4090
    MaxAttempts = 2
    RequiredDays = 1
    MaxSwaps = 2
    MaxTouches = 1
    MaxDay = 1
    MaxRuns = 2
    None = None

SPECIFICATION Spec

CONSTRAINT NarrowIsBrief

INVARIANTS
    LedgerInv
    FeesExactWhileUntouched
    PlannedRangeSound

PROPERTIES
    FeesFallOnlyOnWithdrawal
    LiveAfterShadowDecision

\* Swaps, touches, days and runs are bounded.
CHECK_DEADLOCK FALSE
