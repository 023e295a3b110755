\* Two packs, one call at a time: no concurrency is needed.
CONSTANTS
    packA = packA
    packB = packB
    sub = sub
    None = None
    Sessions = {packA, packB}
    Kind <- PacksKind
    Grant <- PacksGrant
    ById = {}
    Calls = {c1}
    EdgeCalls = {}
    EdgeSessions = {}
    Generations = {}
    Balances <- UsedBalance
    Retries = 3
    Unlimited = 99
    MaxDeliveries = 4
    MaxGenerated = 0
    MaxRefills = 0
SPECIFICATION Spec
INVARIANT SessionCreditedOnce
\* Deliveries are bounded: everything ends.
CHECK_DEADLOCK FALSE
