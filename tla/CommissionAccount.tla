-------------------------- MODULE CommissionAccount --------------------------
(***************************************************************************)
(* What affiliates are promised of their commissions, without claims,      *)
(* runs, requests or retries.  A sale is credited once.  What an affiliate *)
(* is owed is set aside whole, when nothing of it is set aside already and *)
(* it reaches the minimum; it is sent; and it then counts as paid, once.   *)
(* What is set aside changes by nothing else.                              *)
(***************************************************************************)
EXTENDS Integers

CONSTANTS
    Affiliates,
    Events,     \* the sales that carry an affiliate code
    Payee,      \* Payee[e]: the affiliate of sale e
    Commission, \* Commission[e]: what the sale earns, in cents
    Minimum     \* the least amount that is sent

VARIABLES
    credited, \* sales that were credited
    owed,     \* owed[a]: credited and not set aside
    aside,    \* aside[a]: set aside to be sent
    sent,     \* affiliates to whom the amount set aside was sent
    paid      \* paid[a]: sent and accounted for

vars == <<credited, owed, aside, sent, paid>>

Init ==
    /\ credited = {}
    /\ owed = [a \in Affiliates |-> 0]
    /\ aside = [a \in Affiliates |-> 0]
    /\ sent = {}
    /\ paid = [a \in Affiliates |-> 0]

Earn(e) ==
    /\ e \notin credited
    /\ credited' = credited \cup {e}
    /\ owed' = [owed EXCEPT ![Payee[e]] = @ + Commission[e]]
    /\ UNCHANGED <<aside, sent, paid>>

SetAside(a) ==
    /\ aside[a] = 0
    /\ owed[a] >= Minimum
    /\ aside' = [aside EXCEPT ![a] = owed[a]]
    /\ owed' = [owed EXCEPT ![a] = 0]
    /\ UNCHANGED <<credited, sent, paid>>

Send(a) ==
    /\ aside[a] > 0
    /\ sent' = sent \cup {a}
    /\ UNCHANGED <<credited, owed, aside, paid>>

Settle(a) ==
    /\ a \in sent
    /\ paid' = [paid EXCEPT ![a] = @ + aside[a]]
    /\ aside' = [aside EXCEPT ![a] = 0]
    /\ sent' = sent \ {a}
    /\ UNCHANGED <<credited, owed>>

Next ==
    \/ \E e \in Events : Earn(e)
    \/ \E a \in Affiliates : SetAside(a) \/ Send(a) \/ Settle(a)

Spec == Init /\ [][Next]_vars
=============================================================================
