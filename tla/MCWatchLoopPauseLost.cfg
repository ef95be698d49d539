CONSTANTS
    MaxDrawdownPct = 20
    MaxIlPct = 10
    DriftMinMarginRatio = NoLimit
    MinPeakUsd = 2
    NoLimit = NoLimit
    NoRatio = NoRatio
    NoRow = NoRow
    NoId = NoId
    MaxBurst = 1
    MaxClock = 2
    MaxRuns = 2
    Snapshots <- MCSnapshots
    Ratios <- MCRatios
    InitialRows <- MCInitialRows
    Modes <- MCModes

SPECIFICATION Spec

INVARIANT PauseSurvivesRestart

\* Clock and runs are bounded.
CHECK_DEADLOCK FALSE
