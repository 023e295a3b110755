\* Two runs at once, three sales; a query returns one row.  The audit upsert may
\* succeed and may fail for ever, which has every behaviour of the migration's
\* index.
CONSTANTS
    ann = ann
    bob = bob
    sale1 = sale1
    sale2 = sale2
    sale3 = sale3
    None = None
    Affiliates = {ann, bob}
    Events = {sale1, sale2, sale3}
    Payee <- MCPayee
    Commission <- MCCommission
    ClaimIds = {c1, c2}
    Minimum = 100
    Runs = {r1, r2}
    ListLimit = 1
    AuditInferable = TRUE
SPECIFICATION FairSpec
INVARIANTS
    TypeOK
    OneClaimOpen
    Conservation
    TransferredOnce
    PaidIsTransferredAndAudited
PROPERTIES
    OwedIsSent
    ImplementsCommissionAccount
