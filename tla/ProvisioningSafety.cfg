\* Three sessions, two calls of provisionPurchase, one request to the second
\* receiver and one generation at once.
CONSTANTS
    packA = packA
    packB = packB
    sub = sub
    None = None
    Sessions = {packA, packB, sub}
    Kind <- MCKind
    Grant <- MCGrant
    ById = {packB}
    Calls = {c1, c2}
    EdgeCalls = {e1}
    EdgeSessions = {packA, sub}
    Generations = {g1}
    Balances <- MCBalances
    Retries = 1
    Unlimited = 99
    MaxDeliveries = 4
    MaxGenerated = 1
    MaxRefills = 1
SYMMETRY CallSymmetry
SPECIFICATION Spec
INVARIANTS
    TypeOK
    ProvisionedIsGranted
PROPERTIES
    PackAddsItsCredits
    NoGrantOverItself
    ImplementsCreditAccount
\* Deliveries and images are bounded: everything ends.
CHECK_DEADLOCK FALSE
