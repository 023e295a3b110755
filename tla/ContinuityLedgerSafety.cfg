\* Two actions, one retry: passes of recovery over several due rows.
SPECIFICATION Spec
CONSTANTS
    Actions = {a1, a2}
    Owner = Owner
    General = General
    inspect = inspect
    charge = charge
    unlisted = unlisted
    OperateInternal = OperateInternal
    None = None
    Agents <- MCAgents
    Revocable <- MCRevocable
    Capabilities <- MCCapabilities
    Autonomous <- MCAutonomous
    ApprovalRequired <- MCApprovalRequired
    OtherTypes <- MCOtherTypes
    MaxRetries = 1
    LeaseTtl = 1
    BaseDelay = 1
    CapDelay = 1
    Rng = {0}
SYMMETRY Symmetry
INVARIANTS
    TypeOK
    NeverResubmitted
    LeaseOnlyInFlight
    SuccessHasEffect
    ApprovalRespected
    BudgetRespected
PROPERTIES
    TerminalIsFinal
    LiveLeaseRespected
    ImplementsDurableWork
\* Every key settled and every agent idle: nothing is left to do.
CHECK_DEADLOCK FALSE
