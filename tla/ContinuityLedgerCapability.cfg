\* One action; the documented rule on who may execute it.
SPECIFICATION Spec
CONSTANTS
    Actions = {a1}
    Owner = Owner
    General = General
    inspect = inspect
    charge = charge
    unlisted = unlisted
    OperateInternal = OperateInternal
    None = None
    Agents <- MCAgents
    Revocable <- MCRevocable
    Capabilities <- MCCapabilities
    Autonomous <- MCAutonomous
    ApprovalRequired <- MCApprovalRequired
    OtherTypes <- MCOtherTypes
    MaxRetries = 2
    LeaseTtl = 2
    BaseDelay = 3
    CapDelay = 6
    Rng = {0, 9}
INVARIANTS
    ExecutedByCapableAgent
CHECK_DEADLOCK FALSE
