------------------------------ MODULE PaidSale ------------------------------
(***************************************************************************)
(* What the fulfilment of a paid DPP sale promises, without handlers,      *)
(* requests or rows: the sale goes through its stages one at a time and    *)
(* never back.  It is granted, the grant's key is recorded, its continuity *)
(* action is completed, and only then is Stripe told to stop retrying.     *)
(* Recovery may exhaust the action before it is completed; an operator     *)
(* takes over then.                                                        *)
(***************************************************************************)
VARIABLES
    identified, \* the sale names a buyer
    stage       \* how far it has come

vars == <<identified, stage>>

Stages == {"paid", "granted", "recorded", "completed", "acknowledged", "exhausted"}

Following ==
    [s \in {"paid", "granted", "recorded", "completed"} |->
        CASE s = "paid" -> "granted"
          [] s = "granted" -> "recorded"
          [] s = "recorded" -> "completed"
          [] s = "completed" -> "acknowledged"]

Init == identified \in BOOLEAN /\ stage = "paid"

\* A sale that names nobody is never granted.
Advance ==
    /\ identified
    /\ stage \in DOMAIN Following
    /\ stage' = Following[stage]
    /\ UNCHANGED identified

Exhaust ==
    /\ stage \in {"paid", "granted", "recorded"}
    /\ stage' = "exhausted"
    /\ UNCHANGED identified

Next == Advance \/ Exhaust

Spec == Init /\ [][Next]_vars

FairSpec == Spec /\ WF_vars(Advance)
=============================================================================
