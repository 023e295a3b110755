\* Two handlers and two recovery processes at once, one retry in the budget, one
\* other purchase.  A buyer with a user id and no address differs in the mail only.
CONSTANTS
    Deliveries = {d1, d2}
    Recoverers = {r1, r2}
    Buyers = {"email", "nobody"}
    MaxRetries = 1
    MaxOthers = 1
SPECIFICATION FairSpec
INVARIANTS
    TypeOK
    GrantHasRow
    MailIsEarned
    RetriesAreReal
PROPERTIES
    OnlyRunningSucceeds
    ImplementsPaidSale
\* Once the sale is acknowledged nothing need happen.
CHECK_DEADLOCK FALSE
