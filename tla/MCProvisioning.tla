--------------------------- MODULE MCProvisioning ---------------------------
(* Small instances of Provisioning for TLC.                                *)
EXTENDS Provisioning, TLC

CONSTANTS packA, packB, sub

CallSymmetry == Permutations(Calls)

\* Two packs and a subscription.  Pack B carries a user id.
MCKind == [s \in {packA, packB, sub} |->
              IF s = sub THEN "subscription" ELSE "pack"]

\* The subscription grants what the account already has, so that the limit
\* alone does not betray that it was granted.
MCGrant == [s \in {packA, packB, sub} |-> IF s = sub THEN 2 ELSE 1]

\* Packs alone: two credits each.
PacksKind == [s \in {packA, packB} |-> "pack"]
PacksGrant == [s \in {packA, packB} |-> 2]

MCBalances == {<<2, 0>>}

\* An account that has used nearly all it had.
UsedBalance == {<<4, 3>>}
=============================================================================
