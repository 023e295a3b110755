\* The index as the migration makes it, partial: nothing to infer.
CONSTANTS
    ann = ann
    bob = bob
    sale1 = sale1
    sale2 = sale2
    sale3 = sale3
    None = None
    Affiliates = {ann}
    Events = {sale1}
    Payee <- MCPayee
    Commission <- MCCommission
    ClaimIds = {c1}
    Minimum = 100
    Runs = {r1}
    ListLimit = 1
    AuditInferable = FALSE
SPECIFICATION FairSpec
PROPERTIES
    TransferIsAudited
