\* One action, two retries, delays of 3 and 6 ticks with jitter.
SPECIFICATION FairSpec
CONSTANTS
    Actions = {a1}
    Owner = Owner
    General = General
    inspect = inspect
    charge = charge
    unlisted = unlisted
    OperateInternal = OperateInternal
    None = None
    Agents <- MCAgents
    Revocable <- MCRevocable
    Capabilities <- MCCapabilities
    Autonomous <- MCAutonomous
    ApprovalRequired <- MCApprovalRequired
    OtherTypes <- MCOtherTypes
    MaxRetries = 2
    LeaseTtl = 2
    BaseDelay = 3
    CapDelay = 6
    Rng = {0, 9}
PROPERTIES
    AuthorizedWorkSettles
    EffectInFlightSucceeds
    RevokedLeaseReleased
\* Every key settled and every agent idle: nothing is left to do.
CHECK_DEADLOCK FALSE
