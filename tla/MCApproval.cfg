CONSTANTS
    NoId = NoId
    MaxBurst = 1
    MaxClock = 4
    MaxRuns = 3

SPECIFICATION ApprovalSpec

INVARIANTS
    ApprovalInv
    ApprovalBindsProposal
    AwaitedSenderAlive
    NoLingeringSender
    DeniedNeverGranted

PROPERTIES
    ImplementsGate
    ProposalSettles

\* Clock and runs are bounded.
CHECK_DEADLOCK FALSE
