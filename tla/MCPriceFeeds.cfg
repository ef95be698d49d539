\* One unit is 15 s.  The two feeds share nothing but the shutdown, so each is
\* explored on its own.
CONSTANTS
    Configurations = {{"binance"}, {"coinbase"}}
    CheckInterval = 1
    StaleTimeout = 4
    FreshLimit = 2
    GaugeLimit = 4
    RetryBase = 1
    RetryMax = 4
    MaxFails = 3
    NoNumber = NoNumber

SPECIFICATION Spec

INVARIANTS
    FeedsInv

PROPERTIES
    AttemptsPaced
    FeedsRecover
    ShutdownEndsFeeds
