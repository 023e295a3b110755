\* One pack bought while an image is being paid for.
CONSTANTS
    packA = packA
    packB = packB
    sub = sub
    None = None
    Sessions = {packA, packB}
    Kind <- PacksKind
    Grant <- PacksGrant
    ById = {}
    Calls = {c1}
    EdgeCalls = {}
    EdgeSessions = {}
    Generations = {g1}
    Balances <- UsedBalance
    Retries = 3
    Unlimited = 99
    MaxDeliveries = 4
    MaxGenerated = 1
    MaxRefills = 0
SPECIFICATION Spec
INVARIANT PackCreditsKept
\* Deliveries and images are bounded: everything ends.
CHECK_DEADLOCK FALSE
