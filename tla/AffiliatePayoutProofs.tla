----------------------- MODULE AffiliatePayoutProofs -----------------------
(* Proofs about AffiliatePayout for every number of affiliates, sales,     *)
(* claims and overlapping runs, every commission and every minimum.        *)
EXTENDS AffiliatePayout, TLAPS

\* Stripe makes a second transfer for a claim only once its key was dropped.
StripeInv ==
    \A c \in ClaimIds :
        /\ c \in keys => transfers[c] > 0
        /\ transfers[c] > 0 => c \in keys \/ c \in pruned
        /\ transfers[c] > 1 => c \in pruned

ClaimInv ==
    \A c \in ClaimIds : status[c] # "absent" => owner[c] \in Affiliates

\* What the request a run makes next says of the claim it works on.
RunInv ==
    \A r \in Runs :
        /\ phase[r] = "outstanding" =>
              \A c \in todo[r] : c \in ClaimIds /\ status[c] # "absent"
        /\ step[r] # "none" => claim[r] \in ClaimIds /\ status[claim[r]] # "absent"
        /\ step[r] \in {"audit", "complete"} => transfers[claim[r]] > 0
        /\ step[r] = "complete" => claim[r] \in audited

IInv ==
    /\ TypeOK
    /\ OneClaimOpen
    /\ Conservation
    /\ StripeInv
    /\ ClaimInv
    /\ PaidIsTransferredAndAudited
    /\ RunInv

USE AffiliateAssumption

LEMMA InitInv == Init => IInv
  <1> SUFFICES ASSUME Init PROVE IInv
    OBVIOUS
  <1>1. TypeOK
    BY DEF Init, TypeOK
  <1>2. \A a \in Affiliates : Open(a) = {}
    BY DEF Init, Open
  <1>3. OneClaimOpen /\ Conservation
    BY <1>2 DEF Init, OneClaimOpen, Conservation
  <1>4. StripeInv /\ ClaimInv /\ PaidIsTransferredAndAudited /\ RunInv
    BY DEF Init, StripeInv, ClaimInv, PaidIsTransferredAndAudited, RunInv
  <1> QED
    BY <1>1, <1>3, <1>4 DEF IInv

\* A query returns nothing but rows that match.
LEMMA ListedRows ==
  ASSUME NEW rows, NEW listed \in Listed(rows)
  PROVE  listed \subseteq rows
  BY DEF Listed

LEMMA TypeStep == TypeOK /\ ClaimInv /\ RunInv /\ [Next]_vars => TypeOK'
  <1> SUFFICES ASSUME TypeOK, ClaimInv, RunInv, [Next]_vars PROVE TypeOK'
    OBVIOUS
  <1> USE DEF TypeOK, database, stripe, runs
  <1>1. ASSUME NEW e \in Events, Accrue(e) PROVE TypeOK'
    BY <1>1 DEF Accrue, Credit
  <1>2. ASSUME NEW a \in Affiliates, Connect(a) PROVE TypeOK'
    BY <1>2 DEF Connect
  <1>3. ASSUME NEW c \in ClaimIds, PruneKey(c) PROVE TypeOK'
    BY <1>3 DEF PruneKey
  <1>4. ASSUME NEW r \in Runs, ListOutstanding(r) PROVE TypeOK'
    <2>1. PICK listed \in SUBSET ClaimIds : todo' = [todo EXCEPT ![r] = listed]
      BY <1>4, ListedRows DEF ListOutstanding
    <2> QED
      BY <1>4, <2>1 DEF ListOutstanding
  <1>5. ASSUME NEW r \in Runs, ListOwed(r) PROVE TypeOK'
    <2>1. PICK owed \in SUBSET Affiliates : todo' = [todo EXCEPT ![r] = owed]
      BY <1>5, ListedRows DEF ListOwed
    <2>2. phase' \in [Runs -> {"stopped", "outstanding", "owed"}]
      BY <1>5 DEF ListOwed
    <2> QED
      BY <1>5, <2>1, <2>2 DEF ListOwed
  <1>6. ASSUME NEW r \in Runs, Finish(r) PROVE TypeOK'
    BY <1>6 DEF Finish
  <1>7. ASSUME NEW r \in Runs, Stop(r) PROVE TypeOK'
    BY <1>7 DEF Stop
  <1>8. ASSUME NEW r \in Runs, NEW c \in ClaimIds, RetryClaim(r, c) PROVE TypeOK'
    BY <1>8 DEF RetryClaim
  <1>9. ASSUME NEW r \in Runs, NEW a \in Affiliates, NEW c \in ClaimIds,
               NEW answered \in BOOLEAN, ClaimPayout(r, a, c, answered)
        PROVE TypeOK'
    BY <1>9 DEF ClaimPayout, OpenClaim, ReturnClaim, Open
  <1>10. ASSUME NEW r \in Runs, NEW a \in Affiliates, SkipAffiliate(r, a) PROVE TypeOK'
    BY <1>10 DEF SkipAffiliate
  <1>11. ASSUME NEW r \in Runs, NEW answered \in BOOLEAN, Transfer(r, answered) PROVE TypeOK'
    <2>1. claim[r] \in ClaimIds
      BY <1>11 DEF Transfer, RunInv
    <2> QED
      BY <1>11, <2>1 DEF Transfer, Transferred, Proceed
  <1>12. ASSUME NEW r \in Runs, NEW answered \in BOOLEAN, WriteAudit(r, answered) PROVE TypeOK'
    <2>1. claim[r] \in ClaimIds
      BY <1>12 DEF WriteAudit, RunInv
    <2> QED
      BY <1>12, <2>1 DEF WriteAudit, Proceed
  <1>13. ASSUME NEW r \in Runs, Complete(r) PROVE TypeOK'
    <2>1. claim[r] \in ClaimIds
      BY <1>13 DEF Complete, RunInv
    <2>2. amount[claim[r]] \in Nat /\ owner[claim[r]] \in Affiliates
      BY <1>13, <2>1 DEF Complete, RunInv, ClaimInv
    <2>3. earnings' \in [Affiliates -> Nat]
      <3>1. CASE status[claim[r]] = "paid"
        BY <1>13, <3>1 DEF Complete
      <3>2. CASE status[claim[r]] # "paid"
        <4>1. earnings' = [earnings EXCEPT ![owner[claim[r]]] = @ + amount[claim[r]]]
          BY <1>13, <3>2 DEF Complete
        <4> QED
          BY <2>2, <4>1
      <3> QED
        BY <3>1, <3>2
    <2> QED
      BY <1>13, <2>1, <2>3 DEF Complete, Proceed
  <1>14. ASSUME NEW r \in Runs, RequestFails(r) PROVE TypeOK'
    BY <1>14 DEF RequestFails, Proceed
  <1>15. CASE EndOfTrouble
    BY <1>15 DEF EndOfTrouble
  <1>16. CASE UNCHANGED vars
    BY <1>16 DEF vars
  <1> QED
    BY <1>1, <1>2, <1>3, <1>4, <1>5, <1>6, <1>7, <1>8, <1>9, <1>10, <1>11, <1>12, <1>13,
       <1>14, <1>15, <1>16 DEF Next, RunStep

\* The steps that change neither the claims nor the balances.
Aside == UNCHANGED <<pending, earnings, owner, amount, status, accrued>>

LEMMA AsideSteps ==
  ASSUME [Next]_vars
  PROVE  \/ Aside
         \/ \E e \in Events : Accrue(e)
         \/ \E r \in Runs, a \in Affiliates, c \in ClaimIds, answered \in BOOLEAN :
               ClaimPayout(r, a, c, answered) /\ OpenClaim(a, c)
         \/ \E r \in Runs : Complete(r)
  <1> USE DEF Aside, database, stripe, runs
  <1>1. ASSUME NEW r \in Runs, RunStep(r)
        PROVE  \/ Aside
               \/ \E a \in Affiliates, c \in ClaimIds, answered \in BOOLEAN :
                     ClaimPayout(r, a, c, answered) /\ OpenClaim(a, c)
               \/ Complete(r)
    <2>1. ASSUME NEW a \in Affiliates, NEW c \in ClaimIds, NEW answered \in BOOLEAN,
                 ClaimPayout(r, a, c, answered), ~OpenClaim(a, c)
          PROVE  Aside
      BY <2>1 DEF ClaimPayout, ReturnClaim
    <2> QED
      BY <1>1, <2>1 DEF RunStep, ListOutstanding, ListOwed, Finish, RetryClaim, SkipAffiliate,
         Transfer, WriteAudit, RequestFails
  <1> QED
    BY <1>1 DEF Next, Connect, PruneKey, Stop, EndOfTrouble, vars

LEMMA ClaimStep ==
  ASSUME IInv, [Next]_vars
  PROVE  OneClaimOpen' /\ Conservation' /\ ClaimInv'
  <1> USE DEF IInv
  <1> TypeOK'
    BY TypeStep
  <1>1. CASE Aside
    <2>1. \A a \in Affiliates : Open(a)' = Open(a)
      BY <1>1 DEF Aside, Open
    <2> QED
      BY <1>1, <2>1 DEF Aside, OneClaimOpen, Conservation, ClaimInv
  <1>2. ASSUME NEW e \in Events, Accrue(e) PROVE OneClaimOpen' /\ Conservation' /\ ClaimInv'
    <2>1. \A a \in Affiliates : Open(a)' = Open(a)
      BY <1>2 DEF Accrue, Open
    <2>2. OneClaimOpen' /\ ClaimInv'
      BY <1>2, <2>1 DEF Accrue, OneClaimOpen, ClaimInv
    <2>3. earnings' = earnings /\ amount' = amount
      BY <1>2 DEF Accrue
    <2>4. \A a \in Affiliates : pending'[a] - pending[a] = accrued'[a] - accrued[a]
      BY <1>2 DEF Accrue, Credit, TypeOK
    <2>5. /\ \A a \in Affiliates : pending'[a] \in Nat /\ accrued'[a] \in Nat
          /\ \A a \in Affiliates : \A c \in Open(a) : amount[c] \in Nat
      BY DEF Open, TypeOK
    <2>6. ASSUME NEW a \in Affiliates
          PROVE  /\ Open(a)' = {} => pending'[a] + earnings'[a] = accrued'[a]
                 /\ \A c \in Open(a)' : pending'[a] + amount'[c] + earnings'[a] = accrued'[a]
      <3>1. pending[a] \in Nat /\ accrued[a] \in Nat /\ earnings[a] \in Nat
        BY DEF TypeOK
      <3>2. Open(a) = {} => pending[a] + earnings[a] = accrued[a]
        BY DEF Conservation
      <3>3. \A c \in Open(a) : pending[a] + amount[c] + earnings[a] = accrued[a]
        BY DEF Conservation
      <3> QED
        BY <2>1, <2>3, <2>4, <2>5, <3>1, <3>2, <3>3
    <2>7. Conservation'
      BY <2>6 DEF Conservation
    <2> QED
      BY <2>2, <2>7
  <1>3. ASSUME NEW r \in Runs, NEW a \in Affiliates, NEW c \in ClaimIds,
               NEW answered \in BOOLEAN, ClaimPayout(r, a, c, answered), OpenClaim(a, c)
        PROVE  OneClaimOpen' /\ Conservation' /\ ClaimInv'
    <2>1. Open(a)' = {c}
      BY <1>3 DEF OpenClaim, Open, TypeOK
    <2>2. \A b \in Affiliates \ {a} : Open(b)' = Open(b) /\ c \notin Open(b)
      BY <1>3 DEF OpenClaim, Open, TypeOK
    <2>3. OneClaimOpen'
      BY <2>1, <2>2 DEF OneClaimOpen
    <2>4. ClaimInv'
      BY <1>3 DEF OpenClaim, ClaimInv, TypeOK
    <2>5. earnings' = earnings /\ accrued' = accrued
      BY <1>3 DEF ClaimPayout
    <2>6. pending'[a] = 0 /\ amount'[c] = pending[a]
      BY <1>3 DEF OpenClaim, TypeOK
    <2>7. pending[a] + earnings[a] = accrued[a]
      BY <1>3 DEF OpenClaim, Conservation
    <2>8. \A b \in Affiliates \ {a} : pending'[b] = pending[b]
      BY <1>3 DEF OpenClaim, TypeOK
    <2>9. \A d \in ClaimIds \ {c} : amount'[d] = amount[d]
      BY <1>3 DEF OpenClaim, TypeOK
    <2>10. \A b \in Affiliates \ {a} : \A d \in Open(b) : amount'[d] = amount[d]
      BY <2>2, <2>9 DEF Open
    <2>11. /\ Open(a)' = {} => pending'[a] + earnings'[a] = accrued'[a]
           /\ \A d \in Open(a)' : pending'[a] + amount'[d] + earnings'[a] = accrued'[a]
      BY <2>1, <2>5, <2>6, <2>7 DEF TypeOK
    <2>12. ASSUME NEW b \in Affiliates \ {a}
           PROVE  /\ Open(b)' = {} => pending'[b] + earnings'[b] = accrued'[b]
                  /\ \A d \in Open(b)' : pending'[b] + amount'[d] + earnings'[b] = accrued'[b]
      BY <2>2, <2>5, <2>8, <2>10 DEF Conservation
    <2>13. Conservation'
      BY <2>11, <2>12 DEF Conservation
    <2> QED
      BY <2>3, <2>4, <2>13
  <1>4. ASSUME NEW r \in Runs, Complete(r) PROVE OneClaimOpen' /\ Conservation' /\ ClaimInv'
    <2>1. PICK c \in ClaimIds : c = claim[r] /\ status[c] # "absent"
      BY <1>4 DEF Complete, RunInv
    <2>2. PICK a \in Affiliates : a = owner[c]
      BY <2>1 DEF ClaimInv
    <2>3. status' = [status EXCEPT ![c] = "paid"] /\ UNCHANGED <<owner, amount, pending, accrued>>
      BY <1>4, <2>1 DEF Complete
    <2>4. \A b \in Affiliates : Open(b)' = Open(b) \ {c}
      BY <2>1, <2>3 DEF Open, TypeOK
    <2>5. OneClaimOpen' /\ ClaimInv'
      BY <2>1, <2>2, <2>3, <2>4 DEF OneClaimOpen, ClaimInv, TypeOK
    <2>6. CASE status[c] = "paid"
      <3>1. earnings' = earnings /\ \A b \in Affiliates : c \notin Open(b)
        BY <1>4, <2>1, <2>6 DEF Complete, Open
      <3>2. \A b \in Affiliates : Open(b)' = Open(b)
        BY <2>4, <3>1
      <3> QED
        BY <2>3, <2>5, <3>1, <3>2 DEF Conservation
    <2>7. CASE status[c] = "processing"
      <3>1. earnings' = [earnings EXCEPT ![a] = @ + amount[c]]
        BY <1>4, <2>1, <2>2, <2>7 DEF Complete
      <3>2. c \in Open(a) /\ \A b \in Affiliates \ {a} : c \notin Open(b)
        BY <2>1, <2>2, <2>7 DEF Open
      <3>3. Open(a)' = {}
        BY <2>2, <2>4, <3>2 DEF OneClaimOpen
      <3>4. pending[a] + amount[c] + earnings[a] = accrued[a]
        BY <2>2, <3>2 DEF Conservation
      <3>5. amount[c] \in Nat /\ earnings'[a] = earnings[a] + amount[c]
        BY <2>1, <2>2, <3>1 DEF TypeOK
      <3>6. pending'[a] + earnings'[a] = accrued'[a]
        BY <2>2, <2>3, <3>4, <3>5 DEF TypeOK
      <3>7. ASSUME NEW b \in Affiliates \ {a}
            PROVE  /\ Open(b)' = {} => pending'[b] + earnings'[b] = accrued'[b]
                   /\ \A d \in Open(b)' : pending'[b] + amount'[d] + earnings'[b] = accrued'[b]
        <4>1. Open(b)' = Open(b) \ {c} /\ c \notin Open(b)
          BY <2>4, <3>2
        <4>2. Open(b)' = Open(b)
          BY <4>1
        <4>3. earnings'[b] = earnings[b]
          BY <3>1 DEF TypeOK
        <4> QED
          BY <2>3, <4>2, <4>3 DEF Conservation
      <3>8. Conservation'
        BY <3>3, <3>6, <3>7 DEF Conservation
      <3> QED
        BY <2>5, <3>8
    <2> QED
      BY <2>1, <2>6, <2>7 DEF TypeOK
  <1> QED
    BY <1>1, <1>2, <1>3, <1>4, AsideSteps

\* The claims of a run, the transfers and the audit rows.
LEMMA RequestStep ==
  ASSUME IInv, [Next]_vars
  PROVE  StripeInv' /\ PaidIsTransferredAndAudited' /\ RunInv'
  <1> DEFINE Goal == StripeInv /\ PaidIsTransferredAndAudited /\ RunInv
  <1> SUFFICES Goal'
    OBVIOUS
  <1> USE DEF IInv, TypeOK, database, stripe, runs, StripeInv, PaidIsTransferredAndAudited,
              RunInv
  <1>1. ASSUME NEW e \in Events, Accrue(e) PROVE Goal'
    BY <1>1 DEF Accrue
  <1>2. ASSUME NEW a \in Affiliates, Connect(a) PROVE Goal'
    BY <1>2 DEF Connect
  <1>3. ASSUME NEW c \in ClaimIds, PruneKey(c) PROVE Goal'
    BY <1>3 DEF PruneKey
  <1>4. ASSUME NEW r \in Runs, ListOutstanding(r) PROVE Goal'
    <2>1. PICK listed \in SUBSET {c \in ClaimIds : status[c] = "processing"} :
             todo' = [todo EXCEPT ![r] = listed]
      BY <1>4, ListedRows DEF ListOutstanding
    <2> QED
      BY <1>4, <2>1 DEF ListOutstanding
  <1>5. ASSUME NEW r \in Runs, ListOwed(r) PROVE Goal'
    BY <1>5 DEF ListOwed
  <1>6. ASSUME NEW r \in Runs, Finish(r) PROVE Goal'
    BY <1>6 DEF Finish
  <1>7. ASSUME NEW r \in Runs, Stop(r) PROVE Goal'
    BY <1>7 DEF Stop
  <1>8. ASSUME NEW r \in Runs, NEW c \in ClaimIds, RetryClaim(r, c) PROVE Goal'
    BY <1>8 DEF RetryClaim
  <1>9. ASSUME NEW r \in Runs, NEW a \in Affiliates, NEW c \in ClaimIds,
               NEW answered \in BOOLEAN, ClaimPayout(r, a, c, answered)
        PROVE Goal'
    BY <1>9 DEF ClaimPayout, OpenClaim, ReturnClaim, Open
  <1>10. ASSUME NEW r \in Runs, NEW a \in Affiliates, SkipAffiliate(r, a) PROVE Goal'
    BY <1>10 DEF SkipAffiliate
  <1>11. ASSUME NEW r \in Runs, NEW answered \in BOOLEAN, Transfer(r, answered) PROVE Goal'
    <2>1. PICK c \in ClaimIds : c = claim[r] /\ status[c] # "absent"
      BY <1>11 DEF Transfer
    <2>2. /\ keys' = keys \cup {c}
          /\ UNCHANGED <<status, audited, pruned, phase, todo>>
          /\ claim' = [claim EXCEPT ![r] = IF answered THEN c ELSE None]
          /\ step' = [step EXCEPT ![r] = IF answered THEN "audit" ELSE "none"]
      BY <1>11, <2>1 DEF Transfer, Transferred, Proceed
    <2>3. transfers'[c] > 0 /\ (transfers'[c] > 1 => c \in pruned)
      <3>1. CASE c \in keys
        BY <1>11, <2>1, <3>1 DEF Transfer, Transferred
      <3>2. CASE c \notin keys
        BY <1>11, <2>1, <3>2 DEF Transfer, Transferred
      <3> QED
        BY <3>1, <3>2
    <2>4. \A d \in ClaimIds \ {c} : transfers'[d] = transfers[d]
      BY <1>11, <2>1 DEF Transfer, Transferred
    <2>5. StripeInv'
      BY <2>1, <2>2, <2>3, <2>4
    <2>6. PaidIsTransferredAndAudited'
      BY <2>1, <2>2, <2>3, <2>4
    <2>7. RunInv'
      BY <2>1, <2>2, <2>3, <2>4
    <2> QED
      BY <2>5, <2>6, <2>7
  <1>12. ASSUME NEW r \in Runs, NEW answered \in BOOLEAN, WriteAudit(r, answered) PROVE Goal'
    BY <1>12 DEF WriteAudit, Proceed
  <1>13. ASSUME NEW r \in Runs, Complete(r) PROVE Goal'
    BY <1>13 DEF Complete, Proceed
  <1>14. ASSUME NEW r \in Runs, RequestFails(r) PROVE Goal'
    BY <1>14 DEF RequestFails, Proceed
  <1>15. CASE EndOfTrouble
    BY <1>15 DEF EndOfTrouble
  <1>16. CASE UNCHANGED vars
    BY <1>16 DEF vars
  <1> QED
    BY <1>1, <1>2, <1>3, <1>4, <1>5, <1>6, <1>7, <1>8, <1>9, <1>10, <1>11, <1>12, <1>13,
       <1>14, <1>15, <1>16 DEF Next, RunStep

\* The inductive invariant holds in every reachable state.
THEOREM Invariance == Spec => []IInv
  <1>1. IInv /\ [Next]_vars => IInv'
    BY TypeStep, ClaimStep, RequestStep DEF IInv
  <1> QED
    BY InitInv, <1>1, PTL DEF Spec

\* Every variable keeps its type.
THEOREM TypeCorrect == Spec => []TypeOK
  BY Invariance, PTL DEF IInv

\* Whatever runs overlap, an affiliate has at most one processing claim.
THEOREM AtMostOneClaim == Spec => []OneClaimOpen
  BY Invariance, PTL DEF IInv

\* No commission is lost or counted twice on its way to the earnings.
THEOREM MoneyIsConserved == Spec => []Conservation
  BY Invariance, PTL DEF IInv

\* A claim is paid by one transfer as long as Stripe keeps its key.
THEOREM OneTransferForAClaim == Spec => []TransferredOnce
  <1>1. IInv => TransferredOnce
    BY DEF IInv, StripeInv, TransferredOnce
  <1> QED
    BY <1>1, Invariance, PTL

\* A paid claim has left Stripe and has its audit row.
THEOREM PaidMeansSent == Spec => []PaidIsTransferredAndAudited
  BY Invariance, PTL DEF IInv

-----------------------------------------------------------------------------
(* The account of an affiliate.                                            *)

\* A claim is never opened below the minimum, so that an amount set aside is
\* never zero.
AmountInv == \A c \in ClaimIds : status[c] # "absent" => amount[c] >= Minimum

LEMMA AmountStep ==
  ASSUME IInv, AmountInv, [Next]_vars
  PROVE  AmountInv'
  <1> USE DEF IInv, TypeOK, AmountInv
  <1>1. CASE Aside
    BY <1>1 DEF Aside
  <1>2. ASSUME NEW e \in Events, Accrue(e) PROVE AmountInv'
    BY <1>2 DEF Accrue
  <1>3. ASSUME NEW a \in Affiliates, NEW c \in ClaimIds, OpenClaim(a, c) PROVE AmountInv'
    BY <1>3 DEF OpenClaim
  <1>4. ASSUME NEW r \in Runs, Complete(r) PROVE AmountInv'
    BY <1>4 DEF Complete, RunInv
  <1> QED
    BY <1>1, <1>2, <1>3, <1>4, AsideSteps

\* The amount set aside is that of the one open claim.
LEMMA OpenClaimIsSetAside ==
  ASSUME OneClaimOpen, NEW a \in Affiliates, NEW c \in Open(a)
  PROVE  /\ SetAside(a) = amount[c]
         /\ Sent(a) <=> transfers[c] > 0
  <1>1. Open(a) = {c}
    BY DEF OneClaimOpen
  <1> QED
    BY <1>1 DEF SetAside, Sent

LEMMA NothingSetAside ==
  ASSUME NEW a, Open(a) = {}
  PROVE  SetAside(a) = 0 /\ ~Sent(a)
  BY DEF SetAside, Sent

LEMMA SetAsideIsKept ==
  ASSUME OneClaimOpen, NEW a \in Affiliates, Open(a)' = Open(a),
         \A c \in Open(a) : amount'[c] = amount[c]
  PROVE  SetAside(a)' = SetAside(a)
  <1>1. CASE Open(a) = {}
    BY <1>1 DEF SetAside
  <1>2. ASSUME NEW c \in Open(a) PROVE SetAside(a)' = SetAside(a)
    <2>1. Open(a) = {c} /\ Open(a)' = {c}
      BY <1>2 DEF OneClaimOpen
    <2> QED
      BY <1>2, <2>1 DEF SetAside
  <1> QED
    BY <1>1, <1>2

\* What an affiliate sees as nothing at all.
Unseen == UNCHANGED <<credited, pending, earnings, owner, amount, status, transfers>>

\* Every other step is one of these four.
LEMMA SeenSteps ==
  ASSUME [Next]_vars
  PROVE  \/ Unseen
         \/ \E e \in Events : Accrue(e)
         \/ \E r \in Runs, a \in Affiliates, c \in ClaimIds, answered \in BOOLEAN :
               ClaimPayout(r, a, c, answered) /\ OpenClaim(a, c)
         \/ \E r \in Runs, answered \in BOOLEAN : Transfer(r, answered)
         \/ \E r \in Runs : Complete(r)
  <1> USE DEF Unseen, database, stripe, runs
  <1>1. ASSUME NEW r \in Runs, RunStep(r)
        PROVE  \/ Unseen
               \/ \E a \in Affiliates, c \in ClaimIds, answered \in BOOLEAN :
                     ClaimPayout(r, a, c, answered) /\ OpenClaim(a, c)
               \/ \E answered \in BOOLEAN : Transfer(r, answered)
               \/ Complete(r)
    <2>1. ASSUME NEW a \in Affiliates, NEW c \in ClaimIds, NEW answered \in BOOLEAN,
                 ClaimPayout(r, a, c, answered), ~OpenClaim(a, c)
          PROVE  Unseen
      BY <2>1 DEF ClaimPayout, ReturnClaim
    <2> QED
      BY <1>1, <2>1 DEF RunStep, ListOutstanding, ListOwed, Finish, RetryClaim, SkipAffiliate,
         WriteAudit, RequestFails
  <1> QED
    BY <1>1 DEF Next, Connect, PruneKey, Stop, EndOfTrouble, vars

\* One step of the payouts is one step of the account, or none.
LEMMA AccountStep ==
  ASSUME IInv, IInv', AmountInv, [Next]_vars
  PROVE  [Account!Next]_(Account!vars)
  <1> DEFINE asideOf == [a \in Affiliates |-> SetAside(a)]
             sentTo == {a \in Affiliates : Sent(a)}
  <1> USE DEF IInv
  <1>1. ASSUME \A a \in Affiliates : Open(a)' = Open(a), UNCHANGED amount
        PROVE  asideOf' = asideOf
    <2>1. \A a \in Affiliates : SetAside(a)' = SetAside(a)
      BY <1>1, SetAsideIsKept
    <2> QED
      BY <2>1
  <1>2. ASSUME \A a \in Affiliates : Open(a)' = Open(a), UNCHANGED transfers
        PROVE  sentTo' = sentTo
    <2>1. \A a \in Affiliates : Sent(a)' <=> Sent(a)
      BY <1>2 DEF Sent
    <2> QED
      BY <2>1
  <1>3. CASE Unseen
    <2>1. \A a \in Affiliates : Open(a)' = Open(a)
      BY <1>3 DEF Unseen, Open
    <2>2. asideOf' = asideOf /\ sentTo' = sentTo
      BY <1>1, <1>2, <1>3, <2>1 DEF Unseen
    <2> QED
      BY <1>3, <2>2 DEF Unseen, Account!vars
  <1>4. ASSUME NEW e \in Events, Accrue(e) PROVE [Account!Next]_(Account!vars)
    <2>1. UNCHANGED <<earnings, owner, amount, status, transfers>>
      BY <1>4 DEF Accrue, stripe
    <2>2. \A a \in Affiliates : Open(a)' = Open(a)
      BY <2>1 DEF Open
    <2>3. asideOf' = asideOf /\ sentTo' = sentTo
      BY <1>1, <1>2, <2>1, <2>2
    <2>4. CASE e \in credited
      <3>1. UNCHANGED <<credited, pending>>
        BY <1>4, <2>4 DEF Accrue, Credit
      <3> QED
        BY <2>1, <2>3, <3>1 DEF Account!vars
    <2>5. CASE e \notin credited
      <3>1. /\ credited' = credited \cup {e}
            /\ pending' = [pending EXCEPT ![Payee[e]] = @ + Commission[e]]
        BY <1>4, <2>5 DEF Accrue, Credit
      <3>2. Account!Earn(e)
        BY <2>1, <2>3, <2>5, <3>1 DEF Account!Earn
      <3> QED
        BY <3>2 DEF Account!Next
    <2> QED
      BY <2>4, <2>5
  <1>5. ASSUME NEW r \in Runs, NEW a \in Affiliates, NEW c \in ClaimIds,
               NEW answered \in BOOLEAN, ClaimPayout(r, a, c, answered), OpenClaim(a, c)
        PROVE  [Account!Next]_(Account!vars)
    <2>1. /\ Open(a)' = {c}
          /\ \A b \in Affiliates \ {a} : Open(b)' = Open(b) /\ c \notin Open(b)
      BY <1>5 DEF OpenClaim, Open, TypeOK
    <2>2. UNCHANGED <<credited, earnings, transfers>>
      BY <1>5 DEF ClaimPayout, stripe
    <2>3. /\ Open(a) = {} /\ pending[a] >= Minimum
          /\ pending' = [pending EXCEPT ![a] = 0]
          /\ amount' = [amount EXCEPT ![c] = pending[a]]
      BY <1>5 DEF OpenClaim
    <2>4. SetAside(a) = 0 /\ ~Sent(a)
      BY <2>3, NothingSetAside
    <2>5. SetAside(a)' = pending[a]
      BY <2>1, <2>3 DEF SetAside, TypeOK
    <2>6. ~Sent(a)'
      <3>1. transfers[c] = 0
        BY <1>5 DEF OpenClaim, PaidIsTransferredAndAudited, TypeOK
      <3> QED
        BY <2>1, <2>2, <3>1 DEF Sent
    <2>7. ASSUME NEW b \in Affiliates \ {a}
          PROVE  SetAside(b)' = SetAside(b) /\ (Sent(b)' <=> Sent(b))
      <3>1. \A d \in Open(b) : amount'[d] = amount[d]
        BY <2>1, <2>3 DEF Open, TypeOK
      <3>2. SetAside(b)' = SetAside(b)
        BY <2>1, <3>1, SetAsideIsKept
      <3>3. Sent(b)' <=> Sent(b)
        BY <2>1, <2>2 DEF Sent
      <3> QED
        BY <3>2, <3>3
    <2>8. asideOf' = [asideOf EXCEPT ![a] = pending[a]]
      BY <2>5, <2>7
    <2>9. sentTo' = sentTo
      BY <2>4, <2>6, <2>7
    <2>10. Account!SetAside(a)
      BY <2>2, <2>3, <2>4, <2>8, <2>9 DEF Account!SetAside
    <2> QED
      BY <2>10 DEF Account!Next
  <1>6. ASSUME NEW r \in Runs, NEW answered \in BOOLEAN, Transfer(r, answered)
        PROVE  [Account!Next]_(Account!vars)
    <2>1. PICK c \in ClaimIds : c = claim[r] /\ status[c] # "absent"
      BY <1>6 DEF Transfer, RunInv
    <2>2. UNCHANGED <<credited, pending, earnings, owner, amount, status>>
      BY <1>6 DEF Transfer, database
    <2>3. \A a \in Affiliates : Open(a)' = Open(a)
      BY <2>2 DEF Open
    <2>4. asideOf' = asideOf
      BY <1>1, <2>2, <2>3
    <2>5. transfers'[c] > 0 /\ \A d \in ClaimIds \ {c} : transfers'[d] = transfers[d]
      BY <1>6, <2>1 DEF Transfer, Transferred, StripeInv, TypeOK
    <2>6. ASSUME NEW a \in Affiliates, c \notin Open(a) PROVE Sent(a)' <=> Sent(a)
      BY <2>3, <2>5, <2>6 DEF Sent, Open
    <2>7. CASE status[c] = "paid"
      <3>1. \A a \in Affiliates : c \notin Open(a)
        BY <2>7 DEF Open
      <3>2. sentTo' = sentTo
        BY <2>6, <3>1
      <3> QED
        BY <2>2, <2>4, <3>2 DEF Account!vars
    <2>8. CASE status[c] = "processing"
      <3>1. PICK a \in Affiliates : a = owner[c]
        BY <2>1 DEF ClaimInv
      <3>2. c \in Open(a) /\ \A b \in Affiliates \ {a} : c \notin Open(b)
        BY <2>8, <3>1 DEF Open
      <3>3. SetAside(a) > 0
        BY <2>1, <3>2, OpenClaimIsSetAside DEF AmountInv, TypeOK
      <3>4. Sent(a)'
        BY <2>3, <2>5, <3>2 DEF Sent
      <3>5. sentTo' = sentTo \cup {a}
        BY <2>6, <3>2, <3>4
      <3>6. Account!Send(a)
        BY <2>2, <2>4, <3>3, <3>5 DEF Account!Send
      <3> QED
        BY <3>6 DEF Account!Next
    <2> QED
      BY <2>1, <2>7, <2>8 DEF TypeOK
  <1>7. ASSUME NEW r \in Runs, Complete(r) PROVE [Account!Next]_(Account!vars)
    <2>1. PICK c \in ClaimIds : c = claim[r] /\ status[c] # "absent" /\ transfers[c] > 0
      BY <1>7 DEF Complete, RunInv
    <2>2. PICK a \in Affiliates : a = owner[c]
      BY <2>1 DEF ClaimInv
    <2>3. /\ status' = [status EXCEPT ![c] = "paid"]
          /\ UNCHANGED <<credited, pending, owner, amount, transfers>>
      BY <1>7, <2>1 DEF Complete, stripe
    <2>4. \A b \in Affiliates : Open(b)' = Open(b) \ {c}
      BY <2>1, <2>3 DEF Open, TypeOK
    <2>5. CASE status[c] = "paid"
      <3>1. earnings' = earnings /\ \A b \in Affiliates : c \notin Open(b)
        BY <1>7, <2>1, <2>5 DEF Complete, Open
      <3>2. \A b \in Affiliates : Open(b)' = Open(b)
        BY <2>4, <3>1
      <3>3. asideOf' = asideOf /\ sentTo' = sentTo
        BY <1>1, <1>2, <2>3, <3>2
      <3> QED
        BY <2>3, <3>1, <3>3 DEF Account!vars
    <2>6. CASE status[c] = "processing"
      <3>1. earnings' = [earnings EXCEPT ![a] = @ + amount[c]]
        BY <1>7, <2>1, <2>2, <2>6 DEF Complete
      <3>2. c \in Open(a) /\ \A b \in Affiliates \ {a} : c \notin Open(b)
        BY <2>2, <2>6 DEF Open
      <3>3. SetAside(a) = amount[c] /\ Sent(a)
        BY <2>1, <3>2, OpenClaimIsSetAside
      <3>4. Open(a)' = {}
        BY <2>4, <3>2 DEF OneClaimOpen
      <3>5. SetAside(a)' = 0 /\ ~Sent(a)'
        BY <3>4 DEF SetAside, Sent
      <3>6. ASSUME NEW b \in Affiliates \ {a} PROVE Open(b)' = Open(b)
        <4>1. Open(b)' = Open(b) \ {c} /\ c \notin Open(b)
          BY <2>4, <3>2
        <4> QED
          BY <4>1
      <3>7. ASSUME NEW b \in Affiliates \ {a}
            PROVE  SetAside(b)' = SetAside(b) /\ (Sent(b)' <=> Sent(b))
        <4>1. Open(b)' = Open(b)
          BY <3>6
        <4>2. SetAside(b)' = SetAside(b)
          BY <2>3, <4>1, SetAsideIsKept
        <4>3. transfers' = transfers
          BY <2>3
        <4>4. Sent(b)' <=> \E d \in Open(b) : transfers[d] > 0
          BY <4>1, <4>3, Zenon DEF Sent
        <4>5. Sent(b)' <=> Sent(b)
          BY <4>4 DEF Sent
        <4> QED
          BY <4>2, <4>5
      <3>8. asideOf' = [asideOf EXCEPT ![a] = 0]
        BY <3>5, <3>7
      <3>9. sentTo' = sentTo \ {a}
        BY <3>5, <3>7
      <3>10. a \in sentTo /\ asideOf[a] = amount[c]
        BY <3>3
      <3>11. Account!Settle(a)
        BY <2>3, <3>1, <3>8, <3>9, <3>10 DEF Account!Settle
      <3> QED
        BY <3>11 DEF Account!Next
    <2> QED
      BY <2>1, <2>5, <2>6 DEF TypeOK
  <1> QED
    BY <1>3, <1>4, <1>5, <1>6, <1>7, SeenSteps

LEMMA AccountInit == Init => Account!Init /\ AmountInv
  <1> SUFFICES ASSUME Init PROVE Account!Init /\ AmountInv
    OBVIOUS
  <1>1. \A a \in Affiliates : Open(a) = {}
    BY DEF Init, Open
  <1>2. \A a \in Affiliates : SetAside(a) = 0 /\ ~Sent(a)
    BY <1>1, NothingSetAside
  <1> QED
    BY <1>2 DEF Init, Account!Init, AmountInv

\* For any number of affiliates, sales, claims and overlapping runs, the payouts
\* behave to an affiliate as an account whose every movement is one step.
THEOREM PayoutIsAnAccount == Spec => ImplementsCommissionAccount
  <1>1. IInv /\ AmountInv /\ [Next]_vars => IInv' /\ AmountInv'
    BY TypeStep, ClaimStep, RequestStep, AmountStep DEF IInv
  <1>2. IInv /\ IInv' /\ AmountInv /\ [Next]_vars => [Account!Next]_(Account!vars)
    BY AccountStep
  <1> QED
    BY InitInv, AccountInit, <1>1, <1>2, PTL DEF Spec, ImplementsCommissionAccount, Account!Spec

=============================================================================
