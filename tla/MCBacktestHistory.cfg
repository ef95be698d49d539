CONSTANTS
    Word = 16
    Step = 2
    DayLength = 4
    FirstTime = 100
    LastTime = 106
    Closes = {5, 13}
    Volumes = {3}
    PageLimit = 2
    MaxPages = 2
    MaxRetries = 1
    PoolLiquidity = 2
    WatchGrowths = {9}
    MaxWatchRows = 1
    MaxBackfills = 2
    None = None
    Spacing = 4
    EntryPrice = 6
    PriceLower = 2
    PriceUpper = 9
    FactorLower = 2
    FactorUpper = 3
    PositionLiquidity = 1
    DailyFees = 2
    SimulatedDays = 3
    compute_il <- MCLoss
    NearEdges <- MCNearEdges
    NEAR_EDGE_OFF <- MCNearEdgeOff

SPECIFICATION Spec

INVARIANTS
    HistoryInv
    DayRowsToDate
    ReplayPaysVolumeShare

\* Candles, commands and backtests are bounded.
CHECK_DEADLOCK FALSE
