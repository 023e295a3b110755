------------------------- MODULE MCAffiliatePayout -------------------------
(* Small instances of AffiliatePayout for TLC.                             *)
EXTENDS AffiliatePayout

CONSTANTS ann, bob, sale1, sale2, sale3

\* Ann's second sale may come before, during or after her first payout; Bob
\* stays below the minimum.
MCPayee == [e \in Events |-> IF e = sale3 THEN bob ELSE ann]
MCCommission == [e \in Events |-> IF e = sale3 THEN 60 ELSE 100]

\* A query of the route has more rows to return than its limit.
Crowded ==
    \/ Cardinality({a \in Affiliates : pending[a] > 0}) > ListLimit
    \/ Cardinality({c \in ClaimIds : status[c] = "processing"}) > ListLimit

\* A connected affiliate that is owed the minimum and waits for no earlier claim is
\* sent its money in the end, by a later run if the first one loses an answer or is
\* stopped (payout/route.ts:134-148), and also when no audit row can be written,
\* as with the index of the migration.  The queries have no order, so that this
\* is not said of an affiliate that others crowd out of them.
OwedIsSent ==
    \A a \in Affiliates :
        (a \in connected /\ pending[a] >= Minimum /\ Open(a) = {})
            ~> (Sent(a) \/ Crowded)

\* What the route's header says of a payout: an audit row is written.
TransferIsAudited ==
    \A c \in ClaimIds : (transfers[c] > 0) ~> (c \in audited)
=============================================================================
