CONSTANTS
    NoId = NoId
    MaxBurst = 1
    MaxClock = 3
    MaxRuns = 1

SPECIFICATION ApprovalSpec

INVARIANT FailedSendNeverApproved

\* Clock and runs are bounded.
CHECK_DEADLOCK FALSE
