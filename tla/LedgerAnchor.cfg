\* Two runs at once, one revocation of the recorder.
CONSTANTS
    Runs = {r1, r2}
    MaxRevocations = 1
SPECIFICATION FairSpec
INVARIANTS
    TypeOK
    RecordedOnce
    ReceiptIsOnChain
PROPERTIES
    ReceiptSettles
