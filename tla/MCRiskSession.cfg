CONSTANTS
    MaxDrawdownPct = 20
    MaxIlPct = 10
    DriftMinMarginRatio = 2
    MinPeakUsd = 2
    NoLimit = NoLimit
    NoPnl = NoPnl
    OperatorChat = OperatorChat
    AllowedUsers = {Operator}
    NoSender = NoSender
    Messages <- MCMessages
    NoRatio = NoRatio
    NoRow = NoRow
    Snapshots <- MCSnapshots
    Answers <- MCAnswers
    MaxI64 = 20
    RpcError = RpcError
    NoDriftUser = NoDriftUser
    MaxTicks = 3

SPECIFICATION StatusSpec

INVARIANTS
    SessionInv
    HaltFollowsHistory
    PeakIsSessionBest
    PauseFollowsIl
    ResumeEndsAPause
    StatusInTime

\* A session may end after any tick.
CHECK_DEADLOCK FALSE
