\* One delivery at a time is enough.
CONSTANTS
    Handlers = {h1}
    Database = FALSE
SPECIFICATION Spec
INVARIANT UnavailableClaimIsRetried
