CONSTANTS
    PingInterval = 4
    PongTimeout = 2
    ReconnectBase = 1
    ReconnectMax = 4
    MinHealthySession = 5
    MaxStreak = 5
    NoTimer = NoTimer
    QueueCapacity = 2
    DrainGrace = 2
    MaxUpdates = 4

SPECIFICATION Spec

INVARIANT SkippedAreOldest

\* The process ends.
CHECK_DEADLOCK FALSE
