\* A host with a database whose writes may fail, which has every behaviour of
\* the apex Worker without one; three deliveries at once.  No symmetry,
\* because a liveness property is checked.
CONSTANTS
    Handlers = {h1, h2, h3}
    Database = TRUE
SPECIFICATION FairSpec
INVARIANTS
    TypeOK
    SuccessMeansFulfilled
    OneWorker
    DppAcknowledgedIsFulfilled
PROPERTIES
    DppFulfilledInTheEnd
    HoldStays
