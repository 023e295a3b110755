---------------------------- MODULE CreditAccount ----------------------------
(***************************************************************************)
(* The credits of a buyer as provisionPurchase leaves them, without calls, *)
(* requests or conflicts: what is left to spend, what the last grant left, *)
(* and the session that was granted last.  Each grant is one step that     *)
(* works on what is left at that moment, and a session is never granted    *)
(* right after itself.  The second Stripe receiver sets the credits where  *)
(* provisioning adds them.  Generations may lose one another's deductions, *)
(* but never leave what a grant left before them.                          *)
(***************************************************************************)
EXTENDS Integers

CONSTANTS
    Sessions,     \* checkout sessions of the buyer
    Kind,         \* Kind[s]: "pack", "subscription" or "none"
    Grant,        \* Grant[s]: the credits of s
    EdgeSessions, \* sessions the second receiver knows
    Unlimited,    \* the amount that stands for any amount
    None          \* no session

VARIABLES
    left,  \* credits left; Unlimited when the plan has no limit
    total, \* credits left when the last grant was made
    last   \* the session granted last

vars == <<left, total, last>>

Init ==
    /\ total \in 0..Unlimited
    /\ left \in 0..total
    /\ total = Unlimited => left = Unlimited
    /\ last = None

Sets(n) == LET credits == IF n >= Unlimited THEN Unlimited ELSE n
           IN  left' = credits /\ total' = credits

Grants(s) == last # s /\ last' = s

AddPack(s) ==
    /\ Kind[s] = "pack"
    /\ Grants(s)
    /\ IF left = Unlimited THEN UNCHANGED <<left, total>> ELSE Sets(left + Grant[s])

StartPeriod(s) ==
    /\ Kind[s] = "subscription"
    /\ Grants(s)
    /\ Sets(Grant[s])

\* The second receiver; and its refill of a period, which names no session.
Overwrite(s) ==
    /\ s \in EdgeSessions
    /\ Sets(Grant[s])
    /\ \/ last' = s
       \/ Kind[s] = "subscription" /\ last' = last

Spend ==
    /\ left < Unlimited
    /\ left' \in 0..total
    /\ left' < total \/ left' = 0
    /\ UNCHANGED <<total, last>>

Next ==
    \/ \E s \in Sessions : AddPack(s) \/ StartPeriod(s) \/ Overwrite(s)
    \/ Spend

Spec == Init /\ [][Next]_vars
=============================================================================
