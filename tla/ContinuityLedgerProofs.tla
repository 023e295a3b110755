------------------------ MODULE ContinuityLedgerProofs ------------------------
(***************************************************************************)
(* Theorems about ContinuityLedger for every set of actions and agents,    *)
(* every assignment of capabilities and every bound.                       *)
(*                                                                         *)
(* Everything rests on one inductive invariant, IInv.  All but two of its  *)
(* parts speak of one row at a time, so they are gathered in RowOK(a, r,   *)
(* eff, app): r is a good row for action a when eff are the keys in the    *)
(* side-effect log and app the approved actions.  A step is then checked   *)
(* row by row: the row it writes is good, and good rows stay good when the *)
(* log and the approvals grow.                                             *)
(***************************************************************************)
EXTENDS ContinuityLedger, TLAPS

RowOK(a, r, eff, app) ==
    /\ r \in Rows
    /\ r.owner # None <=> InFlight(r)
    /\ r.submitted => r.state \in {"awaiting_external_result",
                                   "reconciliation_required", "succeeded"}
    /\ r.state = "succeeded" => a \in eff
    /\ r.status = "verified" => r.state = "succeeded"
    /\ /\ r.type \in ApprovalRequired
       /\ r.state \notin {"queued", "blocked", "denied", "cancelled"}
       => a \in app
    /\ r.retries > MaxRetries <=> r.state = "permanent_failure"

\* A worker that believes its side effect is recorded is right.
AppliedHasEffect ==
    \A g \in Agents, a \in Actions : worker[g][a] = "applied" => a \in effects

IInv ==
    /\ row = [a \in Actions |-> row[a]]
    /\ \A a \in Actions : RowOK(a, row[a], effects, approved)
    /\ effects \subseteq Actions
    /\ worker \in [Agents -> [Actions -> WorkerStates]]
    /\ revoked \subseteq Revocable
    /\ approved \subseteq Actions
    /\ AppliedHasEffect

-----------------------------------------------------------------------------
(* Rows.                                                                   *)

\* A good row stays good when the log and the approvals grow.
LEMMA RowOKGrows ==
    ASSUME NEW a, NEW r, NEW eff, NEW app, NEW eff2, NEW app2,
           RowOK(a, r, eff, app), eff \subseteq eff2, app \subseteq app2
    PROVE  RowOK(a, r, eff2, app2)
BY DEF RowOK

\* A retry that is still within the budget is given a delay in Nat.
LEMMA RetryDelayInNat ==
    ASSUME NEW n \in 1..MaxRetries, NEW r \in Rng
    PROVE  RetryDelay(n, r) \in Nat
<1>1. 2 ^ (n - 1) \in Nat
  BY PowersAssumption
<1> DEFINE exp == BaseDelay * 2 ^ (n - 1)
<1>2. exp \in Nat
  BY <1>1, BoundsAssumption
<1>3. Backoff(n) \in Nat
  BY <1>2, BoundsAssumption DEF Backoff
<1>4. r \in 0..9
  BY BoundsAssumption
<1> HIDE DEF exp
<1>5. QED
  BY <1>3, <1>4 DEF RetryDelay

\* One iteration of recover() leaves a good row.
LEMMA RecoveredRowOK ==
    ASSUME NEW a \in Actions, NEW rng \in Rng,
           RowOK(a, row[a], effects, approved), Due(a)
    PROVE  RowOK(a, Recovered(a, rng), effects, approved)
<1> DEFINE r == row[a]
<1> USE DEF ActionStates, Terminal, EvidenceClasses, Decisions, InFlight
<1>1. r \in Rows /\ r.retries \in 0..(MaxRetries + 1) /\ MaxRetries \in Nat
  BY BoundsAssumption DEF RowOK, Rows
<1>2. r.state \in {"running", "awaiting_external_result", "retryable_failure"}
  BY DEF Due
<1>3. r.retries + 1 \in 0..(MaxRetries + 1)
  BY <1>1, <1>2 DEF RowOK
<1>4. ~InFlight(r) => RowOK(a, Readied(r), effects, approved)
  BY <1>1, <1>2, <1>3 DEF RowOK, Readied, Rows
<1>5. a \in effects /\ InFlight(r) => RowOK(a, Reconciled(r), effects, approved)
  BY <1>1, <1>2, <1>3 DEF RowOK, Reconciled, Rows
<1>6. InFlight(r) => RowOK(a, Quarantined(r), effects, approved)
  BY <1>1, <1>2, <1>3 DEF RowOK, Quarantined, Rows
<1>7. InFlight(r) /\ ~Unknown(r) /\ r.retries + 1 > MaxRetries
      => RowOK(a, Exhausted(r), effects, approved)
  BY <1>1, <1>2, <1>3 DEF RowOK, Exhausted, Rows, Unknown
<1>8. ASSUME InFlight(r), ~Unknown(r), ~(r.retries + 1 > MaxRetries)
      PROVE  RowOK(a, Requeued(r, rng), effects, approved)
  <2>1. r.retries + 1 \in 1..MaxRetries
    BY <1>1, <1>3, <1>8
  <2>2. RetryDelay(r.retries + 1, rng) \in Nat
    BY <2>1, RetryDelayInNat
  <2>3. QED
    BY <1>1, <1>2, <1>3, <1>8, <2>1, <2>2 DEF RowOK, Requeued, Rows, Unknown
<1>9. QED
  BY <1>4, <1>5, <1>6, <1>7, <1>8 DEF Recovered

\* attemptAction leaves a good row, queued or decided.
LEMMA AttemptedRowOK ==
    ASSUME NEW a, NEW g \in Agents, NEW type \in ActionTypes,
           NEW standing \in BOOLEAN, NEW secretAbsent \in BOOLEAN,
           NEW eff, NEW app,
           standing /\ g \notin revoked /\ type \in Capabilities[g] => a \in app
    PROVE  /\ RowOK(a, NewRow(type), eff, app)
           /\ RowOK(a, AttemptedRow(g, type, standing, secretAbsent), eff, app)
<1>1. ASSUME NEW state \in {"queued", "denied", "blocked", "authorized"},
             NEW decision \in Decisions, NEW status \in {"unknown", "blocked"},
             state = "authorized" /\ type \in ApprovalRequired => a \in app
      PROVE  RowOK(a, CreatedRow(type, state, decision, status), eff, app)
  BY <1>1, BoundsAssumption, TypesAssumption
     DEF RowOK, Rows, CreatedRow, ActionStates, Terminal, EvidenceClasses,
         Decisions, InFlight
<1>2. RowOK(a, NewRow(type), eff, app)
  BY <1>1 DEF NewRow, Decisions
<1>3. CASE secretAbsent
  BY <1>1, <1>2, <1>3 DEF AttemptedRow, Decisions
<1>4. CASE ~secretAbsent
  <2> DEFINE d == DecideAuthorization(g, type, standing)
             status == IF d.state = "authorized" THEN "unknown" ELSE "blocked"
  <2>1. d \in {Denied, Blocked, Authorized}
    BY DEF DecideAuthorization
  <2>2. /\ d.state \in {"queued", "denied", "blocked", "authorized"}
        /\ d.decision \in Decisions
        /\ status \in {"unknown", "blocked"}
    BY <2>1 DEF Denied, Blocked, Authorized, Decisions
  <2>3. ASSUME d.state = "authorized", type \in ApprovalRequired
        PROVE  a \in app
    <3>1. Denied.state # "authorized" /\ Blocked.state # "authorized"
      BY DEF Denied, Blocked
    <3>2. CASE standing /\ g \notin revoked /\ type \in Capabilities[g]
      BY <3>2
    <3>3. CASE ~(standing /\ g \notin revoked /\ type \in Capabilities[g])
      <4>1. d \in {Denied, Blocked}
        BY <2>3, <3>3 DEF DecideAuthorization
      <4>2. QED
        BY <2>3, <3>1, <4>1
    <3>4. QED
      BY <3>2, <3>3
  <2>4. AttemptedRow(g, type, standing, secretAbsent) =
          CreatedRow(type, d.state, d.decision, status)
    BY <1>4 DEF AttemptedRow
  <2> HIDE DEF d, status
  <2>5. QED
    BY <1>1, <1>2, <2>2, <2>3, <2>4
<1>5. QED
  BY <1>2, <1>3, <1>4

-----------------------------------------------------------------------------
(* Steps.                                                                  *)

\* A step that writes one good row, never shrinks the log or the approvals,
\* and keeps the workers' knowledge true, preserves the invariant.
LEMMA OneRowStep ==
    ASSUME IInv, NEW a \in Actions, NEW new,
           row' = [row EXCEPT ![a] = new],
           RowOK(a, new, effects', approved'),
           effects' = effects, approved \subseteq approved',
           approved' \subseteq Actions, revoked' = revoked,
           worker' \in [Agents -> [Actions -> WorkerStates]],
           \A g \in Agents, b \in Actions :
              worker'[g][b] = "applied" => worker[g][b] = "applied"
    PROVE  IInv'
<1>1. ASSUME NEW b \in Actions
      PROVE  RowOK(b, row'[b], effects', approved')
  <2>1. CASE b = a
    BY <2>1 DEF IInv
  <2>2. CASE b # a
    <3>1. row'[b] = row[b]
      BY <2>2 DEF IInv
    <3>2. RowOK(b, row[b], effects, approved)
      BY DEF IInv
    <3>3. QED
      BY <3>1, <3>2, RowOKGrows
  <2>3. QED
    BY <2>1, <2>2
<1>2. row' = [b \in Actions |-> row'[b]]
  BY DEF IInv
<1>3. AppliedHasEffect'
  BY DEF IInv, AppliedHasEffect
<1>4. QED
  BY <1>1, <1>2, <1>3 DEF IInv

\* The initial state is good.
LEMMA InitIInv == Init => IInv
<1> SUFFICES ASSUME Init PROVE IInv
  OBVIOUS
<1>1. ASSUME NEW a \in Actions
      PROVE  RowOK(a, row[a], effects, approved)
  BY BoundsAssumption, TypesAssumption
     DEF Init, RowOK, NoRow, CreatedRow, ActionTypes, Rows, ActionStates, Terminal, Decisions,
         EvidenceClasses, InFlight
<1>2. AppliedHasEffect
  BY DEF Init, AppliedHasEffect
<1>3. QED
  BY <1>1, <1>2 DEF Init, IInv, WorkerStates

\* Each step of the ledger, of a worker and of recovery preserves IInv.
LEMMA NextIInv == IInv /\ [Next]_vars => IInv'
<1> SUFFICES ASSUME IInv, [Next]_vars PROVE IInv'
  OBVIOUS
<1> USE DEF ActionStates, Terminal, EvidenceClasses, Decisions, InFlight,
            WorkerStates
<1>0. ASSUME NEW a \in Actions
      PROVE  RowOK(a, row[a], effects, approved) /\ row[a] \in Rows
  BY DEF IInv, RowOK
<1>1. ASSUME NEW g \in Agents, NEW a \in Actions, NEW type \in ActionTypes,
             NEW standing \in BOOLEAN, NEW secretAbsent \in BOOLEAN,
             AttemptAction(g, a, type, standing, secretAbsent)
      PROVE  IInv'
  <2> DEFINE new == AttemptedRow(g, type, standing, secretAbsent)
  <2>1. RowOK(a, new, effects', approved')
    BY <1>1, AttemptedRowOK DEF AttemptAction
  <2>2. /\ row' = [row EXCEPT ![a] = new]
        /\ UNCHANGED <<effects, worker, revoked>>
        /\ approved \subseteq approved' /\ approved' \subseteq Actions
    BY <1>1 DEF AttemptAction, IInv
  <2> HIDE DEF new
  <2>3. QED
    BY <2>1, <2>2, OneRowStep DEF IInv
<1>2. ASSUME NEW a \in Actions, NEW type \in ActionTypes,
             AttemptStopsAtQueued(a, type)
      PROVE  IInv'
  <2>1. RowOK(a, NewRow(type), effects', approved')
    BY BoundsAssumption, TypesAssumption
       DEF RowOK, Rows, NewRow, CreatedRow
  <2>2. QED
    BY <1>2, <2>1, OneRowStep DEF AttemptStopsAtQueued, IInv
<1>3. ASSUME NEW a \in Actions, Cancel(a)
      PROVE  IInv'
  <2> DEFINE new == [row[a] EXCEPT !.state = "cancelled"]
  <2>1. row[a].state \in {"queued", "authorized", "blocked"}
    BY <1>0, <1>3 DEF Cancel, Transition, CanMove, Transitions, Rows
  <2>2. RowOK(a, new, effects', approved')
    BY <1>0, <1>3, <2>1 DEF Cancel, RowOK, Rows
  <2>3. QED
    BY <1>3, <2>2, OneRowStep DEF Cancel, Transition, IInv
<1>4. ASSUME NEW g \in Agents, Revoke(g)
      PROVE  IInv'
  BY <1>4 DEF Revoke, IInv, AppliedHasEffect
<1>5. ASSUME NEW g \in Agents, NEW a \in Actions,
             BeginExecution(g, a) \/ ResumeWithAgent(g, a)
      PROVE  IInv'
  <2> DEFINE new == Leased(row[a], g)
  <2>1. row[a].state = "authorized"
    BY <1>0, <1>5 DEF BeginExecution, ResumeWithAgent, Transition, CanMove,
                      Transitions, Leased, Rows
  <2>2. RowOK(a, new, effects, approved)
    <3>1. None \notin Agents /\ LeaseTtl \in Nat
      BY TypesAssumption, BoundsAssumption
    <3>2. new.state = "running" /\ new.owner = g /\ new \in Rows
      BY <1>0, <3>1 DEF Rows, Leased
    <3>3. QED
      BY <1>0, <2>1, <3>1, <3>2 DEF RowOK, Rows, Leased
  <2>3. /\ row' = [row EXCEPT ![a] = new]
        /\ worker' = [worker EXCEPT ![g][a] = "executing"]
        /\ UNCHANGED <<effects, revoked, approved>>
    BY <1>5 DEF BeginExecution, ResumeWithAgent, Transition, SetWorker
  <2>4. /\ worker' \in [Agents -> [Actions -> WorkerStates]]
        /\ \A h \in Agents, b \in Actions :
             worker'[h][b] = "applied" => worker[h][b] = "applied"
    BY <2>3 DEF IInv
  <2> HIDE DEF new
  <2>5. QED
    BY <2>2, <2>3, <2>4, OneRowStep DEF IInv
<1>6. ASSUME NEW g \in Agents, NEW a \in Actions, RecordSideEffect(g, a)
      PROVE  IInv'
  <2>1. \A b \in Actions : RowOK(b, row[b], effects', approved)
    BY <1>0, <1>6, RowOKGrows DEF RecordSideEffect
  <2>2. AppliedHasEffect'
    BY <1>6 DEF RecordSideEffect, SetWorker, AppliedHasEffect, IInv
  <2>3. QED
    BY <1>6, <2>1, <2>2 DEF RecordSideEffect, SetWorker, IInv
<1>7. ASSUME NEW g \in Agents, NEW a \in Actions, MarkSubmitted(g, a)
      PROVE  IInv'
  <2> DEFINE new == [row[a] EXCEPT !.state = "awaiting_external_result",
                                   !.submitted = TRUE]
  <2>1. row[a].state = "running"
    BY <1>0, <1>7 DEF MarkSubmitted, Transition, CanMove, Transitions, Rows
  <2>2. RowOK(a, new, effects', approved')
    BY <1>0, <1>7, <2>1 DEF MarkSubmitted, RowOK, Rows
  <2>3. QED
    BY <1>7, <2>2, OneRowStep DEF MarkSubmitted, Transition, IInv
<1>8. ASSUME NEW g \in Agents, NEW a \in Actions,
             NEW status \in {"verified", "observed_unverified"},
             CompleteVerified(g, a, status)
      PROVE  IInv'
  <2> DEFINE new == [row[a] EXCEPT !.state = "succeeded", !.status = status,
                                   !.owner = None, !.lease = 0]
  <2>1. row[a].state # "permanent_failure"
    BY <1>0, <1>8 DEF CompleteVerified, Transition, CanMove, Transitions, Rows
  <2>2. a \in effects
    BY <1>8 DEF CompleteVerified, IInv, AppliedHasEffect
  <2>3. row[a].type \in ApprovalRequired => a \in approved
    BY <1>0, <1>8 DEF CompleteVerified, Transition, CanMove, Transitions, Rows,
                      RowOK
  <2>4. RowOK(a, new, effects', approved')
    BY <1>0, <1>8, <2>1, <2>2, <2>3 DEF CompleteVerified, RowOK, Rows
  <2>5. /\ row' = [row EXCEPT ![a] = new]
        /\ worker' = [worker EXCEPT ![g][a] = "idle"]
        /\ UNCHANGED <<effects, revoked, approved>>
    BY <1>8 DEF CompleteVerified, Transition, SetWorker
  <2>6. /\ worker' \in [Agents -> [Actions -> WorkerStates]]
        /\ \A h \in Agents, b \in Actions :
             worker'[h][b] = "applied" => worker[h][b] = "applied"
    BY <2>5 DEF IInv
  <2> HIDE DEF new
  <2>7. QED
    BY <2>4, <2>5, <2>6, OneRowStep DEF IInv
<1>9. ASSUME NEW g \in Agents, NEW a \in Actions, WorkerStops(g, a)
      PROVE  IInv'
  BY <1>9 DEF WorkerStops, SetWorker, IInv, AppliedHasEffect
<1>10. ASSUME NEW reached \in SUBSET Actions, NEW rng \in [reached -> Rng],
              Recover(reached, rng)
       PROVE  IInv'
  <2>1. ASSUME NEW a \in Actions
        PROVE  RowOK(a, row'[a], effects, approved)
    <3>1. CASE a \in reached
      <4>1. Due(a) /\ rng[a] \in Rng
        BY <1>10, <3>1 DEF Recover
      <4>2. row'[a] = Recovered(a, rng[a])
        BY <1>10, <3>1 DEF Recover
      <4>3. QED
        BY <1>0, <4>1, <4>2, RecoveredRowOK
    <3>2. CASE a \notin reached
      BY <1>0, <1>10, <3>2 DEF Recover
    <3>3. QED
      BY <3>1, <3>2
  <2>2. row' = [a \in Actions |-> row'[a]]
    BY <1>10 DEF Recover
  <2>3. QED
    BY <1>10, <2>1, <2>2 DEF Recover, IInv, AppliedHasEffect
<1>11. CASE Tick
  <2>1. ASSUME NEW a \in Actions
        PROVE  RowOK(a, row'[a], effects, approved)
    <3>1. row'[a] = [row[a] EXCEPT !.lease = Elapse(row[a].lease),
                                   !.wait = Elapse(row[a].wait)]
      BY <1>11 DEF Tick
    <3>2. Elapse(row[a].lease) \in Nat /\ Elapse(row[a].wait) \in Nat
      BY <1>0 DEF Elapse, Rows
    <3>3. QED
      BY <1>0, <3>1, <3>2 DEF RowOK, Rows
  <2>2. row' = [a \in Actions |-> row'[a]]
    BY <1>11 DEF Tick
  <2>3. QED
    BY <1>11, <2>1, <2>2 DEF Tick, IInv, AppliedHasEffect
<1>12. CASE UNCHANGED vars
  BY <1>12 DEF vars, IInv, AppliedHasEffect
<1>13. QED
  BY <1>1, <1>2, <1>3, <1>4, <1>5, <1>6, <1>7, <1>8, <1>9, <1>10, <1>11, <1>12
     DEF Next

-----------------------------------------------------------------------------
(* Theorems.                                                               *)

\* The inductive invariant holds in every reachable state.
THEOREM Invariance == Spec => []IInv
  BY InitIInv, NextIInv, PTL DEF Spec

\* What IInv says, property by property.
LEMMA IInvImplies ==
    IInv => /\ TypeOK /\ LeaseOnlyInFlight /\ NeverResubmitted
            /\ SuccessHasEffect /\ ApprovalRespected /\ BudgetRespected
<1> SUFFICES ASSUME IInv
             PROVE  /\ TypeOK /\ LeaseOnlyInFlight /\ NeverResubmitted
                    /\ SuccessHasEffect /\ ApprovalRespected /\ BudgetRespected
  OBVIOUS
<1>1. TypeOK
  BY DEF IInv, RowOK, TypeOK
<1>2. LeaseOnlyInFlight /\ NeverResubmitted
  BY DEF IInv, RowOK, LeaseOnlyInFlight, NeverResubmitted
<1>3. SuccessHasEffect /\ ApprovalRespected /\ BudgetRespected
  BY DEF IInv, RowOK, SuccessHasEffect, ApprovalRespected, BudgetRespected
<1>4. QED
  BY <1>1, <1>2, <1>3

\* Every variable keeps its type, for any agents, actions and bounds.
THEOREM TypeCorrect == Spec => []TypeOK
  BY Invariance, IInvImplies, PTL

\* Leases are held exactly by the rows in flight.
THEOREM LeasesInFlight == Spec => []LeaseOnlyInFlight
  BY Invariance, IInvImplies, PTL

\* A submitted request is never made ready to run again.
THEOREM SubmittedOnce == Spec => []NeverResubmitted
  BY Invariance, IInvImplies, PTL

\* A succeeded row has its side effect, whoever settled it.
THEOREM SuccessIsReal == Spec => []SuccessHasEffect
  BY Invariance, IInvImplies, PTL

\* Approval-required work is executed only when it was approved.
THEOREM ApprovalHolds == Spec => []ApprovalRespected
  BY Invariance, IInvImplies, PTL

\* The retry budget is exceeded exactly by the rows given up.
THEOREM BudgetHolds == Spec => []BudgetRespected
  BY Invariance, IInvImplies, PTL

\* What Transition writes into a row, and that it leaves terminal rows alone.
LEMMA TransitionFromOpen ==
    ASSUME NEW a \in Actions, NEW new, Transition(a, new), row[a] \in Rows
    PROVE  row[a].state \notin Terminal
BY DEF Transition, CanMove, Transitions, Terminal, Rows, ActionStates

\* Settled rows keep their outcome in every step.
THEOREM TerminalStays == Spec => TerminalIsFinal
<1> DEFINE Kept(a) == row[a].state \in Terminal =>
              row'[a].state = row[a].state /\ row'[a].status = row[a].status
<1>1. ASSUME IInv, [Next]_vars, NEW a \in Actions
      PROVE  Kept(a)
  <2>0. \A b \in Actions : row[b] \in Rows
    BY <1>1 DEF IInv, RowOK
  <2>01. row = [b \in Actions |-> row[b]]
    BY <1>1 DEF IInv
  <2>1. ASSUME NEW b \in Actions, NEW new, Transition(b, new)
        PROVE  Kept(a)
    BY <2>0, <2>01, <2>1, TransitionFromOpen DEF Transition
  <2>2. ASSUME NEW g \in Agents, NEW b \in Actions, NEW type \in ActionTypes,
               NEW standing \in BOOLEAN, NEW secretAbsent \in BOOLEAN,
               AttemptAction(g, b, type, standing, secretAbsent)
        PROVE  Kept(a)
    BY <2>01, <2>2 DEF AttemptAction, Terminal
  <2>20. ASSUME NEW b \in Actions, NEW type \in ActionTypes,
                AttemptStopsAtQueued(b, type)
         PROVE  Kept(a)
    BY <2>01, <2>20 DEF AttemptStopsAtQueued, Terminal
  <2>3. ASSUME NEW reached \in SUBSET Actions, NEW rng \in [reached -> Rng],
               Recover(reached, rng)
        PROVE  Kept(a)
    BY <2>01, <2>3 DEF Recover, Due, Terminal
  <2>4. CASE Tick
    BY <2>0, <2>01, <2>4 DEF Tick, Rows
  <2>5. CASE UNCHANGED row
    BY <2>5
  <2>6. ASSUME NEW b \in Actions, Cancel(b)
        PROVE  Kept(a)
    BY <2>1, <2>6 DEF Cancel
  <2>7. ASSUME NEW g \in Agents, NEW b \in Actions,
               \/ BeginExecution(g, b) \/ ResumeWithAgent(g, b)
               \/ MarkSubmitted(g, b)
               \/ \E status \in {"verified", "observed_unverified"} :
                    CompleteVerified(g, b, status)
        PROVE  Kept(a)
    BY <2>1, <2>7 DEF BeginExecution, ResumeWithAgent, MarkSubmitted,
                      CompleteVerified
  <2>8. ASSUME NEW g \in Agents, NEW b \in Actions,
               RecordSideEffect(g, b) \/ WorkerStops(g, b)
        PROVE  Kept(a)
    BY <2>5, <2>8 DEF RecordSideEffect, WorkerStops
  <2>9. ASSUME NEW g \in Agents, Revoke(g)
        PROVE  Kept(a)
    BY <2>5, <2>9 DEF Revoke
  <2> HIDE DEF Kept
  <2>10. CASE UNCHANGED vars
    BY <2>5, <2>10 DEF vars
  <2>11. QED
    BY <1>1, <2>2, <2>20, <2>3, <2>4, <2>6, <2>7, <2>8, <2>9, <2>10 DEF Next
<1>2. IInv /\ [Next]_vars => [\A a \in Actions : Kept(a)]_vars
  BY <1>1
<1>3. QED
  BY <1>2, Invariance, PTL DEF Spec, TerminalIsFinal

\* A live lease is never taken from its owner, whoever else acts.
THEOREM LiveLeaseHolds == Spec => LiveLeaseRespected
<1> DEFINE Kept(a) == row[a].state = "running" /\ LeaseActive(row[a]) =>
              \/ InFlight(row'[a]) /\ row'[a].owner = row[a].owner
              \/ /\ row'[a].state = "succeeded"
                 /\ worker[row[a].owner][a] = "applied"
<1>1. ASSUME IInv, [Next]_vars, NEW a \in Actions
      PROVE  Kept(a)
  <2>0. \A b \in Actions : row[b] \in Rows
    BY <1>1 DEF IInv, RowOK
  <2>1. row = [b \in Actions |-> row[b]]
    BY <1>1 DEF IInv
  <2>2. ASSUME NEW g \in Agents, NEW b \in Actions, NEW type \in ActionTypes,
               NEW standing \in BOOLEAN, NEW secretAbsent \in BOOLEAN,
               AttemptAction(g, b, type, standing, secretAbsent)
        PROVE  Kept(a)
    BY <2>1, <2>2 DEF AttemptAction, InFlight
  <2>20. ASSUME NEW b \in Actions, NEW type \in ActionTypes,
                AttemptStopsAtQueued(b, type)
         PROVE  Kept(a)
    BY <2>1, <2>20 DEF AttemptStopsAtQueued, InFlight
  <2>3. ASSUME NEW reached \in SUBSET Actions, NEW rng \in [reached -> Rng],
               Recover(reached, rng)
        PROVE  Kept(a)
    BY <2>1, <2>3 DEF Recover, Due, InFlight
  <2>4. CASE Tick
    BY <2>0, <2>1, <2>4 DEF Tick, Rows, InFlight
  <2>5. CASE UNCHANGED row
    BY <2>5 DEF InFlight
  <2>6. ASSUME NEW b \in Actions, Cancel(b)
        PROVE  Kept(a)
    <3>1. row[b].state # "running"
      BY <2>0, <2>6 DEF Cancel, Transition, CanMove, Transitions, Rows
    <3>2. QED
      BY <2>1, <2>6, <3>1 DEF Cancel, Transition, InFlight
  <2>7. ASSUME NEW g \in Agents, NEW b \in Actions,
               BeginExecution(g, b) \/ ResumeWithAgent(g, b)
        PROVE  Kept(a)
    <3>1. row[b].state # "running"
      BY <2>0, <2>7 DEF BeginExecution, ResumeWithAgent, Transition, CanMove,
                        Transitions, Leased, Rows
    <3>2. QED
      BY <2>1, <2>7, <3>1
         DEF BeginExecution, ResumeWithAgent, Transition, InFlight
  <2>8. ASSUME NEW g \in Agents, NEW b \in Actions, MarkSubmitted(g, b)
        PROVE  Kept(a)
    BY <2>0, <2>1, <2>8 DEF MarkSubmitted, Transition, InFlight, Rows
  <2>9. ASSUME NEW g \in Agents, NEW b \in Actions,
               NEW status \in {"verified", "observed_unverified"},
               CompleteVerified(g, b, status)
        PROVE  Kept(a)
    BY <2>0, <2>1, <2>9
       DEF CompleteVerified, Transition, InFlight, LeaseActive, Rows
  <2>10. ASSUME NEW g \in Agents, NEW b \in Actions,
                RecordSideEffect(g, b) \/ WorkerStops(g, b)
         PROVE  Kept(a)
    BY <2>5, <2>10 DEF RecordSideEffect, WorkerStops
  <2>11. ASSUME NEW g \in Agents, Revoke(g)
         PROVE  Kept(a)
    BY <2>5, <2>11 DEF Revoke
  <2> HIDE DEF Kept
  <2>12. CASE UNCHANGED vars
    BY <2>5, <2>12 DEF vars
  <2>13. QED
    BY <1>1, <2>2, <2>20, <2>3, <2>4, <2>6, <2>7, <2>8, <2>9, <2>10, <2>11, <2>12
       DEF Next
<1>2. IInv /\ [Next]_vars => [\A a \in Actions : Kept(a)]_vars
  BY <1>1
<1>3. QED
  BY <1>2, Invariance, PTL DEF Spec, LiveLeaseRespected

-----------------------------------------------------------------------------
(* Waiting.                                                                *)

RowBounded(r) == r.lease <= LeaseTtl /\ r.wait <= LongestDelay

LEMMA LongestDelayInNat == LongestDelay \in Nat /\ LeaseTtl \in Nat
  BY BoundsAssumption DEF LongestDelay

\* The cap and the jitter bound every delay, however many retries there were.
LEMMA RetryDelayBounded ==
    ASSUME NEW n \in 1..MaxRetries, NEW r \in Rng
    PROVE  RetryDelay(n, r) <= LongestDelay
<1>1. 2 ^ (n - 1) \in Nat
  BY PowersAssumption
<1> DEFINE exp == BaseDelay * 2 ^ (n - 1)
<1>2. exp \in Nat
  BY <1>1, BoundsAssumption
<1>3. Backoff(n) \in 0..CapDelay
  BY <1>2, BoundsAssumption DEF Backoff
<1> HIDE DEF exp
<1>4. r \in 0..9 /\ CapDelay \in Nat
  BY BoundsAssumption
<1>5. ASSUME NEW b \in 0..CapDelay, NEW k \in 0..9
      PROVE  b + (b * k) \div 50 <= CapDelay + (CapDelay * 9) \div 50
  <2>1. b * k \in Nat /\ b * k <= b * 9 /\ b * 9 <= CapDelay * 9
    <3>1. k \in {0, 1, 2, 3, 4, 5, 6, 7, 8, 9}
      BY <1>5
    <3>2. QED
      BY <1>4, <3>1
  <2> DEFINE x == b * k
             y == CapDelay * 9
  <2>2. x \in Nat /\ y \in Nat /\ x <= y
    BY <1>4, <2>1
  <2> HIDE DEF x, y
  <2>3. x \div 50 <= y \div 50
    BY <2>2
  <2>4. QED
    BY <1>4, <2>2, <2>3 DEF x, y
<1>6. QED
  BY <1>3, <1>4, <1>5 DEF RetryDelay, LongestDelay

LEMMA WaitsStep == IInv /\ WaitsBounded /\ [Next]_vars => WaitsBounded'
<1> SUFFICES ASSUME IInv, WaitsBounded, [Next]_vars, NEW a \in Actions
             PROVE  RowBounded(row'[a])
  BY DEF WaitsBounded, RowBounded, LongestDelay
<1>0. /\ \A b \in Actions : row[b] \in Rows /\ RowBounded(row[b])
      /\ row = [b \in Actions |-> row[b]]
  BY DEF IInv, RowOK, WaitsBounded, RowBounded
<1>1. ASSUME NEW b \in Actions, NEW new, row' = [row EXCEPT ![b] = new], RowBounded(new)
      PROVE  RowBounded(row'[a])
  BY <1>0, <1>1
<1>2. ASSUME NEW r \in Rows, RowBounded(r), NEW s, NEW o, NEW v, NEW u
      PROVE  /\ RowBounded([r EXCEPT !.state = s])
             /\ RowBounded([r EXCEPT !.state = s, !.submitted = u])
             /\ RowBounded([r EXCEPT !.state = s, !.status = v, !.owner = o, !.lease = 0])
             /\ RowBounded([r EXCEPT !.state = s, !.decision = v])
             /\ RowBounded([r EXCEPT !.state = s, !.owner = o, !.lease = LeaseTtl])
             /\ RowBounded([r EXCEPT !.state = s, !.status = v, !.owner = o, !.lease = 0,
                                     !.retries = u])
  BY <1>2, LongestDelayInNat DEF RowBounded, Rows
<1>3. ASSUME NEW g \in Agents, NEW b \in Actions, NEW type \in ActionTypes,
             NEW standing \in BOOLEAN, NEW secretAbsent \in BOOLEAN,
             AttemptAction(g, b, type, standing, secretAbsent)
      PROVE  RowBounded(row'[a])
  <2>1. RowBounded(AttemptedRow(g, type, standing, secretAbsent))
    BY LongestDelayInNat DEF AttemptedRow, CreatedRow, RowBounded
  <2>2. QED
    BY <1>1, <1>3, <2>1 DEF AttemptAction
<1>4. ASSUME NEW b \in Actions, NEW type \in ActionTypes, AttemptStopsAtQueued(b, type)
      PROVE  RowBounded(row'[a])
  <2>1. RowBounded(NewRow(type))
    BY LongestDelayInNat DEF NewRow, CreatedRow, RowBounded
  <2>2. QED
    BY <1>1, <1>4, <2>1 DEF AttemptStopsAtQueued
<1>5. ASSUME NEW b \in Actions, Cancel(b) PROVE RowBounded(row'[a])
  BY <1>0, <1>1, <1>2, <1>5 DEF Cancel, Transition
<1>6. ASSUME NEW g \in Agents, NEW b \in Actions, BeginExecution(g, b) \/ ResumeWithAgent(g, b)
      PROVE  RowBounded(row'[a])
  BY <1>0, <1>1, <1>2, <1>6 DEF BeginExecution, ResumeWithAgent, Transition, Leased
<1>7. ASSUME NEW g \in Agents, NEW b \in Actions, MarkSubmitted(g, b)
      PROVE  RowBounded(row'[a])
  BY <1>0, <1>1, <1>2, <1>7 DEF MarkSubmitted, Transition
<1>8. ASSUME NEW g \in Agents, NEW b \in Actions,
             NEW status \in {"verified", "observed_unverified"}, CompleteVerified(g, b, status)
      PROVE  RowBounded(row'[a])
  BY <1>0, <1>1, <1>2, <1>8 DEF CompleteVerified, Transition
<1>9. ASSUME NEW reached \in SUBSET Actions, NEW rng \in [reached -> Rng], Recover(reached, rng)
      PROVE  RowBounded(row'[a])
  <2>1. CASE a \notin reached
    BY <1>0, <1>9, <2>1 DEF Recover
  <2>2. CASE a \in reached
    <3>1. row'[a] = Recovered(a, rng[a]) /\ rng[a] \in Rng
      BY <1>9, <2>2 DEF Recover
    <3>2. /\ RowBounded(Readied(row[a])) /\ RowBounded(Reconciled(row[a]))
          /\ RowBounded(Quarantined(row[a])) /\ RowBounded(Exhausted(row[a]))
      BY <1>0, <1>2 DEF Readied, Reconciled, Quarantined, Exhausted
    <3>3. ASSUME ~(row[a].retries + 1 > MaxRetries)
          PROVE  RowBounded(Requeued(row[a], rng[a]))
      <4>1. row[a].retries + 1 \in 1..MaxRetries
        BY <1>0, <3>3, BoundsAssumption DEF Rows
      <4>2. RetryDelay(row[a].retries + 1, rng[a]) <= LongestDelay
        BY <3>1, <4>1, RetryDelayBounded
      <4>3. QED
        BY <1>0, <4>2, LongestDelayInNat DEF Requeued, RowBounded, Rows
    <3>4. QED
      BY <3>1, <3>2, <3>3 DEF Recovered
  <2>3. QED
    BY <2>1, <2>2
<1>10. CASE Tick
  <2>1. row'[a] = [row[a] EXCEPT !.lease = Elapse(row[a].lease), !.wait = Elapse(row[a].wait)]
    BY <1>10 DEF Tick
  <2>2. /\ row'[a].lease = Elapse(row[a].lease) /\ row'[a].wait = Elapse(row[a].wait)
        /\ row[a].lease \in Nat /\ row[a].wait \in Nat
    BY <1>0, <2>1 DEF Rows
  <2>3. QED
    BY <1>0, <2>2, LongestDelayInNat DEF Elapse, RowBounded
<1>11. CASE row' = row
  BY <1>0, <1>11
<1>12. QED
  BY <1>3, <1>4, <1>5, <1>6, <1>7, <1>8, <1>9, <1>10, <1>11
     DEF Next, Revoke, RecordSideEffect, WorkerStops, vars

\* No row waits longer for recovery than one lease or one capped delay.
THEOREM WaitsAreBounded == Spec => []WaitsBounded
<1>1. Init => WaitsBounded
  BY LongestDelayInNat DEF Init, WaitsBounded, NoRow, CreatedRow
<1>2. QED
  BY <1>1, WaitsStep, Invariance, PTL DEF Spec

-----------------------------------------------------------------------------
(* The promise of DurableWork.                                             *)

\* What a row tells of work that somebody began.
WasBegun(r) ==
    Stage(r) \in {"running", "submitted", "held", "succeeded"} \/ r.retries > 0

\* Only workers that began their row know anything of it, late ones included.
BegunInv ==
    /\ \A g \in Agents, a \in Actions : worker[g][a] # "idle" => WasBegun(row[a])
    /\ \A a \in Actions : row[a].state = "absent" => row[a].retries = 0

\* From row r to row n is one move of DurableWork, or none.
StageMoves(a, r, n) ==
    \/ /\ n.retries = r.retries
       /\ \/ Stage(n) = Stage(r)
          \/ Stage(r) = "waiting" /\ Stage(n) \in {"running", "closed"}
          \/ Stage(r) = "running" /\ Stage(n) = "submitted"
          \/ Stage(r) = "submitted" /\ Stage(n) = "held" /\ a \notin effects
          \/ /\ Stage(r) \in {"running", "submitted", "held"}
             /\ Stage(n) = "succeeded" /\ a \in effects
    \/ /\ n.retries = r.retries + 1
       /\ Stage(r) = "running" /\ a \notin effects
       /\ \/ r.retries < MaxRetries /\ Stage(n) = "waiting"
          \/ r.retries = MaxRetries /\ Stage(n) = "closed"

\* And no row disappears.
RowMoves(a, r, n) ==
    StageMoves(a, r, n) /\ (n.state = "absent" => r.state = "absent")

\* Every row moves as DurableWork lets it, or stays; the log is not touched.
RowsMove ==
    /\ effects' = effects
    /\ \A a \in Actions : RowMoves(a, row[a], row'[a])

\* Nobody begins an execution.
NoNewWorker ==
    \A g \in Agents, a \in Actions : worker'[g][a] # "idle" => worker[g][a] # "idle"

LEMMA StageInStages == \A r : Stage(r) \in Durable!Stages
  BY DEF Stage, Durable!Stages

LEMMA OneRowMoves ==
    ASSUME IInv, NEW a \in Actions, NEW new, row' = [row EXCEPT ![a] = new],
           RowMoves(a, row[a], new), effects' = effects
    PROVE  RowsMove
<1>1. \A b \in Actions : row'[b] = IF b = a THEN new ELSE row[b]
  BY DEF IInv
<1>2. \A b \in Actions : RowMoves(b, row[b], row[b])
  BY DEF RowMoves, StageMoves
<1>3. QED
  BY <1>1, <1>2 DEF RowsMove

\* What one iteration of recover() does to a row is a move.
LEMMA RecoveredMoves ==
    ASSUME IInv, NEW a \in Actions, NEW rng \in Rng, Due(a)
    PROVE  RowMoves(a, row[a], Recovered(a, rng))
<1> DEFINE r == row[a]
<1> USE DEF InFlight
<1>1. /\ r \in Rows /\ r.retries \in Nat /\ MaxRetries \in Nat
      /\ r.submitted => r.state # "running"
      /\ r.state \in {"running", "awaiting_external_result", "retryable_failure"}
      /\ InFlight(r) => r.retries <= MaxRetries
  BY BoundsAssumption DEF IInv, RowOK, Rows, Due
<1>2. CASE ~InFlight(r)
  <2>1. Recovered(a, rng) = Readied(r)
    BY <1>2 DEF Recovered
  <2>2. Readied(r).state = "authorized" /\ Readied(r).retries = r.retries
    BY <1>1 DEF Readied, Rows
  <2>3. Stage(Readied(r)) = "waiting" /\ Stage(r) = "waiting"
    BY <1>1, <1>2, <2>2 DEF Stage
  <2>4. QED
    BY <2>1, <2>2, <2>3 DEF RowMoves, StageMoves
<1>3. CASE InFlight(r) /\ a \in effects
  <2>1. Recovered(a, rng) = Reconciled(r)
    BY <1>3 DEF Recovered
  <2>2. Reconciled(r).state = "succeeded" /\ Reconciled(r).retries = r.retries
    BY <1>1 DEF Reconciled, Rows
  <2>3. Stage(Reconciled(r)) = "succeeded" /\ Stage(r) \in {"running", "submitted"}
    BY <1>1, <1>3, <2>2 DEF Stage
  <2>4. QED
    BY <1>3, <2>1, <2>2, <2>3 DEF RowMoves, StageMoves
<1>4. CASE InFlight(r) /\ a \notin effects /\ Unknown(r)
  <2>1. Recovered(a, rng) = Quarantined(r)
    BY <1>4 DEF Recovered
  <2>2. Quarantined(r).state = "reconciliation_required" /\ Quarantined(r).retries = r.retries
    BY <1>1 DEF Quarantined, Rows
  <2>3. Stage(Quarantined(r)) = "held" /\ Stage(r) = "submitted"
    BY <1>1, <1>4, <2>2 DEF Stage, Unknown
  <2>4. QED
    BY <1>4, <2>1, <2>2, <2>3 DEF RowMoves, StageMoves
<1>5. CASE InFlight(r) /\ a \notin effects /\ ~Unknown(r)
  <2>1. Stage(r) = "running"
    BY <1>1, <1>5 DEF Stage, Unknown
  <2>2. CASE r.retries + 1 > MaxRetries
    <3>1. Recovered(a, rng) = Exhausted(r)
      BY <1>5, <2>2 DEF Recovered
    <3>2. Exhausted(r).state = "permanent_failure" /\ Exhausted(r).retries = r.retries + 1
      BY <1>1 DEF Exhausted, Rows
    <3>3. Stage(Exhausted(r)) = "closed" /\ r.retries = MaxRetries
      BY <1>1, <1>5, <2>2, <3>2 DEF Stage
    <3>4. QED
      BY <1>5, <2>1, <3>1, <3>2, <3>3 DEF RowMoves, StageMoves
  <2>3. CASE ~(r.retries + 1 > MaxRetries)
    <3>1. Recovered(a, rng) = Requeued(r, rng)
      BY <1>5, <2>3 DEF Recovered
    <3>2. Requeued(r, rng).state = "retryable_failure" /\ Requeued(r, rng).retries = r.retries + 1
      BY <1>1 DEF Requeued, Rows
    <3>3. Stage(Requeued(r, rng)) = "waiting" /\ r.retries < MaxRetries
      BY <1>1, <2>3, <3>2 DEF Stage
    <3>4. QED
      BY <1>5, <2>1, <3>1, <3>2, <3>3 DEF RowMoves, StageMoves
  <2>4. QED
    BY <2>2, <2>3
<1>6. QED
  BY <1>2, <1>3, <1>4, <1>5

\* Each step moves rows, makes an effect of work that was begun, or neither;
\* and whoever begins an execution has a running row.
LEMMA StepMoves ==
    ASSUME IInv, BegunInv, [Next]_vars
    PROVE  \/ RowsMove /\ NoNewWorker
           \/ /\ RowsMove
              /\ \E g \in Agents, a \in Actions :
                    /\ worker' = [worker EXCEPT ![g][a] = "executing"]
                    /\ Stage(row'[a]) = "running"
           \/ /\ \E a \in Actions : WasBegun(row[a]) /\ effects' = effects \cup {a}
              /\ row' = row /\ NoNewWorker
<1> USE DEF SetWorker
<1>0. /\ \A a \in Actions : row[a] \in Rows
      /\ row = [a \in Actions |-> row[a]]
      /\ worker \in [Agents -> [Actions -> WorkerStates]]
  BY DEF IInv, RowOK
<1>1. ASSUME UNCHANGED <<row, effects>> PROVE RowsMove
  BY <1>1 DEF RowsMove, RowMoves, StageMoves
<1>2. ASSUME NEW g \in Agents, NEW a \in Actions, NEW type \in ActionTypes,
             NEW standing \in BOOLEAN, NEW secretAbsent \in BOOLEAN,
             AttemptAction(g, a, type, standing, secretAbsent)
      PROVE  RowsMove /\ NoNewWorker
  <2> DEFINE new == AttemptedRow(g, type, standing, secretAbsent)
  <2>1. new.retries = 0 /\ new.state \in {"blocked", "denied", "authorized"}
    BY DEF AttemptedRow, CreatedRow, DecideAuthorization, Denied, Blocked, Authorized
  <2>2. row[a].state = "absent" /\ row[a].retries = 0
    BY <1>2 DEF AttemptAction, BegunInv
  <2>3. Stage(row[a]) = "waiting" /\ Stage(new) \in {"waiting", "closed"}
    BY <2>1, <2>2 DEF Stage
  <2>4. RowMoves(a, row[a], new)
    BY <2>1, <2>2, <2>3 DEF RowMoves, StageMoves
  <2>5. row' = [row EXCEPT ![a] = new] /\ UNCHANGED <<effects, worker>>
    BY <1>2 DEF AttemptAction
  <2> HIDE DEF new
  <2>6. QED
    BY <2>4, <2>5, OneRowMoves DEF NoNewWorker
<1>3. ASSUME NEW a \in Actions, NEW type \in ActionTypes,
             AttemptStopsAtQueued(a, type)
      PROVE  RowsMove /\ NoNewWorker
  <2>1. NewRow(type).retries = 0 /\ NewRow(type).state = "queued"
    BY DEF NewRow, CreatedRow
  <2>2. row[a].state = "absent" /\ row[a].retries = 0
    BY <1>3 DEF AttemptStopsAtQueued, BegunInv
  <2>3. RowMoves(a, row[a], NewRow(type))
    BY <2>1, <2>2 DEF RowMoves, StageMoves, Stage
  <2>4. QED
    BY <1>3, <2>3, OneRowMoves DEF AttemptStopsAtQueued, NoNewWorker
<1>4. ASSUME NEW a \in Actions, Cancel(a)
      PROVE  RowsMove /\ NoNewWorker
  <2> DEFINE new == [row[a] EXCEPT !.state = "cancelled"]
  <2>1. row[a].state \in {"queued", "authorized", "blocked"}
    BY <1>0, <1>4 DEF Cancel, Transition, CanMove, Transitions, Rows
  <2>2. new.state = "cancelled" /\ new.retries = row[a].retries
    BY <1>0 DEF Rows
  <2>3. RowMoves(a, row[a], new)
    BY <2>1, <2>2 DEF RowMoves, StageMoves, Stage
  <2>4. row' = [row EXCEPT ![a] = new] /\ UNCHANGED <<effects, worker>>
    BY <1>4 DEF Cancel, Transition
  <2>5. QED
    BY <2>3, <2>4, OneRowMoves DEF NoNewWorker
<1>5. ASSUME NEW g \in Agents, NEW a \in Actions,
             BeginExecution(g, a) \/ ResumeWithAgent(g, a)
      PROVE  /\ RowsMove
             /\ worker' = [worker EXCEPT ![g][a] = "executing"]
             /\ Stage(row'[a]) = "running"
  <2> DEFINE new == Leased(row[a], g)
  <2>1. new.state = "running" /\ new.retries = row[a].retries
    BY <1>0 DEF Rows, Leased
  <2>2. row[a].state = "authorized"
    BY <1>0, <1>5, <2>1 DEF BeginExecution, ResumeWithAgent, Transition, CanMove,
                            Transitions
  <2>3. Stage(new) = "running" /\ RowMoves(a, row[a], new)
    BY <2>1, <2>2 DEF RowMoves, StageMoves, Stage
  <2>4. /\ row' = [row EXCEPT ![a] = new]
        /\ effects' = effects
        /\ worker' = [worker EXCEPT ![g][a] = "executing"]
    BY <1>5 DEF BeginExecution, ResumeWithAgent, Transition
  <2> HIDE DEF new
  <2>5. row'[a] = new
    BY <1>0, <2>4
  <2>6. QED
    BY <2>3, <2>4, <2>5, OneRowMoves
<1>6. ASSUME NEW g \in Agents, NEW a \in Actions, RecordSideEffect(g, a)
      PROVE  /\ WasBegun(row[a]) /\ effects' = effects \cup {a}
             /\ row' = row /\ NoNewWorker
  BY <1>0, <1>6 DEF RecordSideEffect, BegunInv, NoNewWorker, WorkerStates
<1>7. ASSUME NEW g \in Agents, NEW a \in Actions, MarkSubmitted(g, a)
      PROVE  RowsMove /\ NoNewWorker
  <2> DEFINE new == [row[a] EXCEPT !.state = "awaiting_external_result",
                                   !.submitted = TRUE]
  <2>1. new.state = "awaiting_external_result" /\ new.retries = row[a].retries
    BY <1>0 DEF Rows
  <2>2. row[a].state = "running"
    BY <1>0, <1>7, <2>1 DEF MarkSubmitted, Transition, CanMove, Transitions
  <2>3. RowMoves(a, row[a], new)
    BY <2>1, <2>2 DEF RowMoves, StageMoves, Stage
  <2>4. row' = [row EXCEPT ![a] = new] /\ UNCHANGED <<effects, worker>>
    BY <1>7 DEF MarkSubmitted, Transition
  <2>5. QED
    BY <2>3, <2>4, OneRowMoves DEF NoNewWorker
<1>8. ASSUME NEW g \in Agents, NEW a \in Actions,
             NEW status \in {"verified", "observed_unverified"},
             CompleteVerified(g, a, status)
      PROVE  RowsMove /\ NoNewWorker
  <2> DEFINE new == [row[a] EXCEPT !.state = "succeeded", !.status = status,
                                   !.owner = None, !.lease = 0]
  <2>1. new.state = "succeeded" /\ new.retries = row[a].retries
    BY <1>0 DEF Rows
  <2>2. row[a].state \in {"running", "awaiting_external_result", "reconciliation_required"}
    BY <1>0, <1>8, <2>1 DEF CompleteVerified, Transition, CanMove, Transitions
  <2>3. a \in effects
    BY <1>8 DEF CompleteVerified, IInv, AppliedHasEffect
  <2>4. RowMoves(a, row[a], new)
    BY <2>1, <2>2, <2>3 DEF RowMoves, StageMoves, Stage
  <2>5. /\ row' = [row EXCEPT ![a] = new] /\ effects' = effects
        /\ worker' = [worker EXCEPT ![g][a] = "idle"]
    BY <1>8 DEF CompleteVerified, Transition
  <2> HIDE DEF new
  <2>6. NoNewWorker
    BY <1>0, <2>5 DEF NoNewWorker
  <2>7. QED
    BY <2>4, <2>5, <2>6, OneRowMoves
<1>9. ASSUME NEW g \in Agents, NEW a \in Actions, WorkerStops(g, a)
      PROVE  RowsMove /\ NoNewWorker
  BY <1>0, <1>1, <1>9 DEF WorkerStops, NoNewWorker
<1>10. ASSUME NEW reached \in SUBSET Actions, NEW rng \in [reached -> Rng],
              Recover(reached, rng)
       PROVE  RowsMove /\ NoNewWorker
  <2>1. ASSUME NEW a \in Actions PROVE RowMoves(a, row[a], row'[a])
    <3>1. CASE a \in reached
      <4>1. Due(a) /\ rng[a] \in Rng /\ row'[a] = Recovered(a, rng[a])
        BY <1>10, <3>1 DEF Recover
      <4>2. QED
        BY <4>1, RecoveredMoves
    <3>2. CASE a \notin reached
      BY <1>10, <3>2 DEF Recover, RowMoves, StageMoves
    <3>3. QED
      BY <3>1, <3>2
  <2>2. QED
    BY <1>10, <2>1 DEF Recover, RowsMove, NoNewWorker
<1>11. CASE Tick
  <2>1. ASSUME NEW a \in Actions PROVE RowMoves(a, row[a], row'[a])
    <3>1. row'[a] = [row[a] EXCEPT !.lease = Elapse(row[a].lease),
                                   !.wait = Elapse(row[a].wait)]
      BY <1>11 DEF Tick
    <3>2. row'[a].state = row[a].state /\ row'[a].retries = row[a].retries
      BY <1>0, <3>1 DEF Rows
    <3>3. QED
      BY <3>2 DEF RowMoves, StageMoves, Stage
  <2>2. QED
    BY <1>11, <2>1 DEF Tick, RowsMove, NoNewWorker
<1>12. ASSUME NEW g \in Agents, Revoke(g)
       PROVE  RowsMove /\ NoNewWorker
  BY <1>1, <1>12 DEF Revoke, NoNewWorker
<1>13. CASE UNCHANGED vars
  BY <1>1, <1>13 DEF vars, NoNewWorker
<1>14. QED
  BY <1>2, <1>3, <1>4, <1>5, <1>6, <1>7, <1>8, <1>9, <1>10, <1>11, <1>12, <1>13
     DEF Next

\* Work that was begun stays so, whatever becomes of its row.
LEMMA StaysBegun ==
    ASSUME NEW a \in Actions, NEW r \in Rows, NEW n, StageMoves(a, r, n), WasBegun(r)
    PROVE  WasBegun(n)
<1>1. r.retries \in Nat
  BY BoundsAssumption DEF Rows
<1>2. QED
  BY <1>1 DEF StageMoves, WasBegun

LEMMA BegunStep == IInv /\ BegunInv /\ [Next]_vars => BegunInv'
<1> SUFFICES ASSUME IInv, BegunInv, [Next]_vars PROVE BegunInv'
  OBVIOUS
<1>0. /\ \A a \in Actions : row[a] \in Rows
      /\ worker \in [Agents -> [Actions -> WorkerStates]]
  BY DEF IInv, RowOK
<1>1. ASSUME RowsMove, NEW a \in Actions
      PROVE  /\ WasBegun(row[a]) => WasBegun(row'[a])
             /\ row'[a].state = "absent" => row'[a].retries = 0
  <2>1. RowMoves(a, row[a], row'[a])
    BY <1>1 DEF RowsMove
  <2>2. WasBegun(row[a]) => WasBegun(row'[a])
    BY <1>0, <2>1, StaysBegun DEF RowMoves
  <2>3. ASSUME row'[a].state = "absent" PROVE row'[a].retries = 0
    <3>1. row[a].state = "absent" /\ row[a].retries = 0
      BY <2>1, <2>3 DEF RowMoves, BegunInv
    <3>2. Stage(row[a]) = "waiting"
      BY <3>1 DEF Stage
    <3>3. QED
      BY <2>1, <3>1, <3>2 DEF RowMoves, StageMoves
  <2>4. QED
    BY <2>2, <2>3
<1>2. CASE RowsMove /\ NoNewWorker
  BY <1>1, <1>2 DEF BegunInv, NoNewWorker
<1>3. CASE RowsMove /\ \E g \in Agents, a \in Actions :
              /\ worker' = [worker EXCEPT ![g][a] = "executing"]
              /\ Stage(row'[a]) = "running"
  <2>1. PICK g \in Agents, a \in Actions :
              /\ worker' = [worker EXCEPT ![g][a] = "executing"]
              /\ Stage(row'[a]) = "running"
    BY <1>3
  <2>2. ASSUME NEW h \in Agents, NEW b \in Actions, worker'[h][b] # "idle"
        PROVE  WasBegun(row'[b])
    <3>1. worker[h][b] # "idle" \/ b = a
      BY <1>0, <2>1, <2>2
    <3>2. QED
      BY <1>1, <1>3, <2>1, <3>1 DEF BegunInv, WasBegun
  <2>3. QED
    BY <1>1, <1>3, <2>2 DEF BegunInv
<1>4. CASE row' = row /\ NoNewWorker
  BY <1>4 DEF BegunInv, NoNewWorker
<1>5. QED
  BY <1>2, <1>3, <1>4, StepMoves

\* A step of the ledger is a step of DurableWork, or none.
LEMMA DurableStep == IInv /\ IInv' /\ BegunInv /\ [Next]_vars => [Durable!Next]_(Durable!vars)
<1> SUFFICES ASSUME IInv, IInv', BegunInv, [Next]_vars PROVE [Durable!Next]_(Durable!vars)
  OBVIOUS
<1>0. \A a \in Actions : /\ row[a].retries \in 0..(MaxRetries + 1)
                         /\ row'[a].retries \in 0..(MaxRetries + 1)
  BY DEF IInv, RowOK, Rows
<1>1. ASSUME RowsMove PROVE Durable!MoveSome
  <2>1. [a \in Actions |-> Stage(row'[a])] \in [Actions -> Durable!Stages]
    BY StageInStages
  <2>2. [a \in Actions |-> row'[a].retries] \in [Actions -> 0..(MaxRetries + 1)]
    BY <1>0
  <2>3. \A a \in Actions : StageMoves(a, row[a], row'[a])
    BY <1>1 DEF RowsMove, RowMoves
  <2>4. QED
    BY <1>1, <2>1, <2>2, <2>3
       DEF RowsMove, StageMoves, Durable!MoveSome, Durable!Moves, Durable!Begin,
           Durable!Refuse, Durable!Submit, Durable!Interrupt, Durable!GiveUp, Durable!Hold,
           Durable!Succeed, Durable!Goes, Durable!GoesInterrupted
<1>2. ASSUME NEW a \in Actions, WasBegun(row[a]), effects' = effects \cup {a}, row' = row
      PROVE  Durable!MakeEffect(a) \/ UNCHANGED Durable!vars
  <2>1. Durable!Begun(a)
    BY <1>2 DEF WasBegun, Durable!Begun
  <2>2. CASE a \in effects
    BY <1>2, <2>2 DEF Durable!vars
  <2>3. CASE a \notin effects
    BY <1>2, <2>1, <2>3 DEF Durable!MakeEffect
  <2>4. QED
    BY <2>2, <2>3
<1>3. QED
  BY <1>1, <1>2, StepMoves DEF Durable!Next

\* The ledger implements DurableWork, for every number of actions and agents.
THEOREM LedgerIsDurable == Spec => ImplementsDurableWork
<1>1. Init => Durable!Init
  <2> SUFFICES ASSUME Init PROVE Durable!Init
    OBVIOUS
  <2>1. \A a \in Actions : Stage(row[a]) = "waiting" /\ row[a].retries = 0
    BY DEF Init, NoRow, CreatedRow, Stage
  <2>2. QED
    BY <2>1 DEF Init, Durable!Init
<1>2. Init => BegunInv
  BY DEF Init, BegunInv, NoRow, CreatedRow
<1>3. Spec => []BegunInv
  BY <1>2, BegunStep, Invariance, PTL DEF Spec
<1>4. QED
  BY <1>1, <1>3, DurableStep, Invariance, PTL DEF Spec, ImplementsDurableWork, Durable!Spec

=============================================================================
