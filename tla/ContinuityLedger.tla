-------------------------- MODULE ContinuityLedger --------------------------
(***************************************************************************)
(* The operational continuity ledger of src/lib/founder-exit/ledger.ts:    *)
(* the rows of MemoryActionLedger, the keys of MemorySideEffects, and the  *)
(* functions attemptAction, beginExecution, resumeWithAgent, markSubmitted,*)
(* completeVerified and recover that move a row along TRANSITIONS.         *)
(*                                                                         *)
(* An action is named by its idempotency key: byKey maps a key to the one  *)
(* row that has it, so key and action_id are one name here.  Times are     *)
(* kept as what is left of them: `lease' is lease_expires_at - now and     *)
(* `wait' is next_retry_at - now, both 0 once the instant has passed, and  *)
(* Tick lets a unit of time pass.  History, evidence texts, correlation    *)
(* ids and instructions to operators are left out.                         *)
(*                                                                         *)
(* The functions of the ledger are called by workers.  A worker is what a  *)
(* caller knows: that its beginExecution returned ("executing") and that   *)
(* its recordSideEffect returned ("applied").  Nothing tells a worker that *)
(* its lease has expired, so a slow worker goes on acting for a row that   *)
(* recovery has already moved.                                             *)
(***************************************************************************)
EXTENDS Integers, FiniteSets

CONSTANTS
    Actions,          \* idempotency keys that may be attempted
    Agents,           \* agent_id values
    Autonomous,       \* action types an agent may take without approval
    ApprovalRequired, \* action types that need a standing approval
    OtherTypes,       \* action types outside the bounded policy
    OperateInternal,  \* the capability that covers every autonomous type
    Capabilities,     \* Capabilities[g]: the capabilities of agent g
    Revocable,        \* agents that may be revoked
    MaxRetries,       \* recover's maxRetries
    LeaseTtl,         \* ttlMs of a lease, in ticks
    BaseDelay,        \* baseMs of retryDelayMs, in ticks
    CapDelay,         \* capMs of retryDelayMs, in ticks
    Rng,              \* values of rng(), in tenths
    None              \* a null lease_owner, or the type of an absent row

ActionTypes == Autonomous \cup ApprovalRequired \cup OtherTypes

ASSUME TypesAssumption ==
    /\ Autonomous \cap ApprovalRequired = {}
    /\ OtherTypes \cap (Autonomous \cup ApprovalRequired) = {}
    /\ OperateInternal \notin ActionTypes
    /\ Capabilities \in [Agents -> SUBSET (ActionTypes \cup {OperateInternal})]
    /\ Revocable \subseteq Agents
    /\ None \notin Agents \cup ActionTypes

ASSUME BoundsAssumption ==
    /\ MaxRetries \in Nat
    /\ LeaseTtl \in Nat \ {0}
    /\ BaseDelay \in Nat \ {0}
    /\ CapDelay \in Nat
    /\ Rng \subseteq 0..9

\* Arithmetic that TLC evaluates and the provers do not know.
ASSUME PowersAssumption == \A n \in 1..MaxRetries : 2 ^ (n - 1) \in Nat

VARIABLES
    row,       \* row[a]: the ledger row of action a
    effects,   \* keys in the side-effect log
    worker,    \* worker[g][a]: what agent g knows of its execution of a
    revoked,   \* agents whose identity is revoked
    approved   \* actions first attempted under a standing approval by an
               \* agent that held the type's own capability

vars == <<row, effects, worker, revoked, approved>>

-----------------------------------------------------------------------------
(* The rows.                                                               *)

Terminal == {"succeeded", "permanent_failure", "cancelled", "denied"}

ActionStates ==
    Terminal \cup
    {"queued", "authorized", "running", "awaiting_external_result",
     "retryable_failure", "blocked", "reconciliation_required"}

Decisions == {"permitted", "denied", "awaiting_approval"}

\* The evidence classes the functions below write.
EvidenceClasses == {"unknown", "blocked", "verified", "observed_unverified"}

\* TRANSITIONS: the moves a row may make, as pairs of states.
Transitions ==
    (({"queued"} \X {"authorized", "denied", "blocked", "cancelled"}) \cup
     ({"authorized"} \X {"running", "blocked", "cancelled", "denied"}) \cup
     ({"running"} \X
        {"awaiting_external_result", "succeeded", "retryable_failure",
         "permanent_failure", "reconciliation_required", "blocked"}) \cup
     ({"awaiting_external_result"} \X
        {"succeeded", "retryable_failure", "permanent_failure",
         "reconciliation_required"}) \cup
     ({"retryable_failure"} \X
        {"authorized", "permanent_failure", "blocked",
         "reconciliation_required"}) \cup
     ({"reconciliation_required"} \X
        {"succeeded", "permanent_failure", "blocked"}) \cup
     ({"blocked"} \X {"authorized", "cancelled", "denied"}))

Rows == [type: ActionTypes \cup {None}, state: ActionStates \cup {"absent"},
         decision: Decisions, retries: 0..(MaxRetries + 1), wait: Nat,
         owner: Agents \cup {None}, lease: Nat, submitted: BOOLEAN,
         status: EvidenceClasses]

\* A row as create() fills it in.
CreatedRow(type, state, decision, status) ==
    [type |-> type, state |-> state, decision |-> decision, retries |-> 0,
     wait |-> 0, owner |-> None, lease |-> 0, submitted |-> FALSE,
     status |-> status]

\* A key for which no row exists, and the row create() stores.
NoRow == CreatedRow(None, "absent", "awaiting_approval", "unknown")
NewRow(type) == CreatedRow(type, "queued", "awaiting_approval", "unknown")

WorkerStates == {"idle", "executing", "applied"}

Init ==
    /\ row = [a \in Actions |-> NoRow]
    /\ effects = {}
    /\ worker = [g \in Agents |-> [a \in Actions |-> "idle"]]
    /\ revoked = {}
    /\ approved = {}

\* Mutated: a result that arrives late settles a row already given up.
CanMoveLate(from, to) ==
    <<from, to>> \in Transitions \cup {<<"permanent_failure", "succeeded">>}

CanMove(from, to) == <<from, to>> \in Transitions

\* transition(): refused unless TRANSITIONS allows the move; the patch is
\* the rest of `new'.
Transition(a, new) ==
    /\ CanMove(row[a].state, new.state)
    /\ row' = [row EXCEPT ![a] = new]

SetWorker(g, a, w) == worker' = [worker EXCEPT ![g][a] = w]

-----------------------------------------------------------------------------
(* Authorization.                                                          *)

Denied == [state |-> "denied", decision |-> "denied"]
Blocked == [state |-> "blocked", decision |-> "awaiting_approval"]
Authorized == [state |-> "authorized", decision |-> "permitted"]

\* An autonomous type, within the agent's own or its general capability.
MayActAlone(g, type) ==
    /\ type \in Autonomous
    /\ {type, OperateInternal} \cap Capabilities[g] # {}

\* Mutated: a standing approval is enough, whatever the agent may do.
DecideWithoutCapability(g, type, standing) ==
    IF g \in revoked THEN Denied
    ELSE IF type \in ApprovalRequired
           THEN IF standing THEN Authorized ELSE Blocked
           ELSE IF MayActAlone(g, type) THEN Authorized ELSE Denied

\* decideAuthorization: the state and the decision of a new row.
DecideAuthorization(g, type, standing) ==
    IF g \in revoked THEN Denied
    ELSE IF type \in ApprovalRequired
           THEN IF standing /\ type \in Capabilities[g] THEN Authorized ELSE Blocked
           ELSE IF MayActAlone(g, type) THEN Authorized ELSE Denied

\* The row attemptAction ends with: blocked at once when a required secret
\* is absent, otherwise as decided.
AttemptedRow(g, type, standing, secretAbsent) ==
    IF secretAbsent
      THEN CreatedRow(type, "blocked", "awaiting_approval", "blocked")
      ELSE LET d == DecideAuthorization(g, type, standing) IN
           CreatedRow(type, d.state, d.decision,
                      IF d.state = "authorized" THEN "unknown" ELSE "blocked")

\* attemptAction: create() and then the transition out of "queued".  A key
\* that already has a row returns that row and changes nothing.
AttemptAction(g, a, type, standing, secretAbsent) ==
    /\ row[a].state = "absent"
    /\ LET new == AttemptedRow(g, type, standing, secretAbsent) IN
         /\ CanMove("queued", new.state)
         /\ row' = [row EXCEPT ![a] = new]
    /\ approved' = IF standing /\ g \notin revoked /\ type \in Capabilities[g]
                     THEN approved \cup {a} ELSE approved
    /\ UNCHANGED <<effects, worker, revoked>>

\* attemptAction whose second commit throws (database_timeout, or a commit
\* hook that fails and rolls the row back): the queued row stays.
AttemptStopsAtQueued(a, type) ==
    /\ row[a].state = "absent"
    /\ row' = [row EXCEPT ![a] = NewRow(type)]
    /\ UNCHANGED <<effects, worker, revoked, approved>>

\* A direct transition() to "cancelled" by an operator.
Cancel(a) ==
    /\ Transition(a, [row[a] EXCEPT !.state = "cancelled"])
    /\ UNCHANGED <<effects, worker, revoked, approved>>

\* The registry marks an agent revoked; its rows stay as they are.
Revoke(g) ==
    /\ g \in Revocable \ revoked
    /\ revoked' = revoked \cup {g}
    /\ UNCHANGED <<row, effects, worker, approved>>

-----------------------------------------------------------------------------
(* Execution.                                                              *)

LeaseActive(r) == r.owner # None /\ r.lease > 0

Leased(r, g) == [r EXCEPT !.state = "running", !.owner = g, !.lease = LeaseTtl]

BeginExecution(g, a) ==
    /\ g \notin revoked
    /\ row[a].decision = "permitted"
    /\ ~(LeaseActive(row[a]) /\ row[a].owner # g)
    /\ Transition(a, Leased(row[a], g))
    /\ SetWorker(g, a, "executing")
    /\ UNCHANGED <<effects, revoked, approved>>

\* A replacement takes over work that is already authorized.
ResumeWithAgent(g, a) ==
    /\ row[a].state = "authorized"
    /\ row[a].decision = "permitted"
    /\ g \notin revoked
    /\ {row[a].type, OperateInternal} \cap Capabilities[g] # {}
    /\ Transition(a, Leased(row[a], g))
    /\ SetWorker(g, a, "executing")
    /\ UNCHANGED <<effects, revoked, approved>>

\* recordSideEffect by a worker that believes it is executing.  The key is
\* all it is given: neither the row nor the lease is looked at, and a key
\* already present is a duplicate that changes nothing in the log.
RecordSideEffect(g, a) ==
    /\ worker[g][a] = "executing"
    /\ effects' = effects \cup {a}
    /\ SetWorker(g, a, "applied")
    /\ UNCHANGED <<row, revoked, approved>>

\* markSubmitted: the caller's lease is not compared with the row's.
MarkSubmitted(g, a) ==
    /\ worker[g][a] # "idle"
    /\ Transition(a, [row[a] EXCEPT !.state = "awaiting_external_result",
                                    !.submitted = TRUE])
    /\ UNCHANGED <<effects, worker, revoked, approved>>

\* completeVerified with evidence, by a worker whose side effect is recorded.
CompleteVerified(g, a, status) ==
    /\ worker[g][a] = "applied"
    /\ g \notin revoked
    /\ row[a].owner \in {None, g}
    /\ Transition(a, [row[a] EXCEPT !.state = "succeeded", !.status = status,
                                    !.owner = None, !.lease = 0])
    /\ SetWorker(g, a, "idle")
    /\ UNCHANGED <<effects, revoked, approved>>

\* The worker dies or gives up between two calls.
WorkerStops(g, a) ==
    /\ worker[g][a] # "idle"
    /\ SetWorker(g, a, "idle")
    /\ UNCHANGED <<row, effects, revoked, approved>>

-----------------------------------------------------------------------------
(* Recovery.                                                               *)

\* retryDelayMs: exponential, capped, with up to a fifth of jitter.
Backoff(n) == LET exp == BaseDelay * 2 ^ (n - 1)
              IN  IF exp < CapDelay THEN exp ELSE CapDelay
RetryDelay(n, rng) == Backoff(n) + (Backoff(n) * rng) \div 50

InFlight(r) == r.state \in {"running", "awaiting_external_result"}

\* Mutated: the lease of a running row is not looked at.
DueIgnoringLease(a) ==
    \/ InFlight(row[a])
    \/ row[a].state = "retryable_failure" /\ row[a].wait = 0

\* Mutated: rows waiting for a retry are never taken up again.
DueWithoutRetries(a) ==
    \/ row[a].state = "running" /\ ~LeaseActive(row[a])
    \/ row[a].state = "awaiting_external_result"

\* Mutated: rows waiting for an external result are left to their worker.
DueWithoutAwaiting(a) ==
    \/ row[a].state = "running" /\ ~LeaseActive(row[a])
    \/ row[a].state = "retryable_failure" /\ row[a].wait = 0

\* The rows a pass of recover() touches.
Due(a) ==
    \/ row[a].state = "running" /\ ~LeaseActive(row[a])
    \/ row[a].state = "awaiting_external_result"
    \/ row[a].state = "retryable_failure" /\ row[a].wait = 0

\* reconcileExisting
Reconciled(r) == [r EXCEPT !.state = "succeeded", !.status = "verified",
                           !.owner = None, !.lease = 0]

\* Mutated: the lease survives the quarantine; a timeout counts as success.
QuarantinedLeased(r) ==
    [r EXCEPT !.state = "reconciliation_required", !.status = "unknown"]
QuarantinedAsSuccess(r) == Reconciled(r)

\* quarantineUnknown
Quarantined(r) ==
    [r EXCEPT !.state = "reconciliation_required", !.status = "unknown",
              !.owner = None, !.lease = 0]

\* An interrupted row that never submitted: no retry left, or one more.
Exhausted(r) ==
    [r EXCEPT !.state = "permanent_failure", !.status = "unknown",
              !.owner = None, !.lease = 0, !.retries = r.retries + 1]
Requeued(r, rng) ==
    [r EXCEPT !.state = "retryable_failure", !.status = "unknown",
              !.owner = None, !.lease = 0, !.retries = r.retries + 1,
              !.wait = RetryDelay(r.retries + 1, rng)]

\* A retry that is due goes back to "authorized", whatever the log holds.
Readied(r) == [r EXCEPT !.state = "authorized", !.decision = "permitted"]

Unknown(r) == r.submitted \/ r.state = "awaiting_external_result"

\* Mutated: no quarantine; no retry budget; a budget compared before the
\* retry is counted; the quarantine tested before the side-effect log.
RecoveredUnquarantined(a, rng) ==
    LET r == row[a] IN
    IF ~InFlight(r) THEN Readied(r)
    ELSE IF a \in effects THEN Reconciled(r)
    ELSE IF r.retries + 1 > MaxRetries THEN Exhausted(r) ELSE Requeued(r, rng)
RecoveredUnbudgeted(a, rng) ==
    LET r == row[a] IN
    IF ~InFlight(r) THEN Readied(r)
    ELSE IF a \in effects THEN Reconciled(r)
    ELSE IF Unknown(r) THEN Quarantined(r) ELSE Requeued(r, rng)
RecoveredLateBudget(a, rng) ==
    LET r == row[a] IN
    IF ~InFlight(r) THEN Readied(r)
    ELSE IF a \in effects THEN Reconciled(r)
    ELSE IF Unknown(r) THEN Quarantined(r)
    ELSE IF r.retries > MaxRetries THEN Exhausted(r) ELSE Requeued(r, rng)
RecoveredQuarantineFirst(a, rng) ==
    LET r == row[a] IN
    IF ~InFlight(r) THEN Readied(r)
    ELSE IF Unknown(r) THEN Quarantined(r)
    ELSE IF a \in effects THEN Reconciled(r)
    ELSE IF r.retries + 1 > MaxRetries THEN Exhausted(r) ELSE Requeued(r, rng)

\* What one iteration of recover's loop leaves of the row of a.
Recovered(a, rng) ==
    LET r == row[a] IN
    IF ~InFlight(r) THEN Readied(r)
    ELSE IF a \in effects THEN Reconciled(r)
    ELSE IF Unknown(r) THEN Quarantined(r)
    ELSE IF r.retries + 1 > MaxRetries THEN Exhausted(r) ELSE Requeued(r, rng)

\* One pass.  `reached' is every due row, or those committed before a commit
\* threw or the process died.
Recover(reached, rng) ==
    /\ reached # {}
    /\ \A a \in reached :
         /\ Due(a)
         /\ CanMove(row[a].state, Recovered(a, rng[a]).state)
    /\ row' = [a \in Actions |->
                 IF a \in reached THEN Recovered(a, rng[a]) ELSE row[a]]
    /\ UNCHANGED <<effects, worker, revoked, approved>>

RecoverAll ==
    LET due == {a \in Actions : Due(a)} IN
    \E rng \in [due -> Rng] : Recover(due, rng)

\* A unit of time passes.
Elapse(n) == IF n = 0 THEN 0 ELSE n - 1
Tick ==
    /\ \E a \in Actions : row[a].lease > 0 \/ row[a].wait > 0
    /\ row' = [a \in Actions |-> [row[a] EXCEPT !.lease = Elapse(row[a].lease),
                                                !.wait = Elapse(row[a].wait)]]
    /\ UNCHANGED <<effects, worker, revoked, approved>>

-----------------------------------------------------------------------------
Next ==
    \/ \E a \in Actions :
         \/ \E g \in Agents, type \in ActionTypes, standing \in BOOLEAN,
               secretAbsent \in BOOLEAN :
              AttemptAction(g, a, type, standing, secretAbsent)
         \/ \E type \in ActionTypes : AttemptStopsAtQueued(a, type)
         \/ Cancel(a)
    \/ \E g \in Agents : Revoke(g)
    \/ \E g \in Agents, a \in Actions :
         \/ BeginExecution(g, a)
         \/ ResumeWithAgent(g, a)
         \/ RecordSideEffect(g, a)
         \/ MarkSubmitted(g, a)
         \/ \E status \in {"verified", "observed_unverified"} :
              CompleteVerified(g, a, status)
         \/ WorkerStops(g, a)
    \/ \E reached \in SUBSET Actions : \E rng \in [reached -> Rng] :
         Recover(reached, rng)
    \/ Tick

Spec == Init /\ [][Next]_vars

\* The clock advances, the interval recovery pass eventually completes, and
\* some agent eventually takes authorized work.  Nothing is assumed of a
\* worker once it has begun: it may stop, or stay silent, for ever.
Fairness ==
    /\ WF_vars(Tick)
    /\ WF_vars(RecoverAll)
    /\ \A a \in Actions :
         WF_vars(\E g \in Agents : BeginExecution(g, a) \/ ResumeWithAgent(g, a))

FairSpec == Spec /\ Fairness

-----------------------------------------------------------------------------
(* Properties.                                                             *)

\* The variables hold values of their types; in particular no row counts
\* more than one retry past the budget.
TypeOK ==
    /\ row \in [Actions -> Rows]
    /\ effects \subseteq Actions
    /\ worker \in [Agents -> [Actions -> WorkerStates]]
    /\ revoked \subseteq Revocable
    /\ approved \subseteq Actions

\* A row whose request was submitted is never made ready to run again: with
\* the outcome unknown it waits, is quarantined, or succeeds.
NeverResubmitted ==
    \A a \in Actions : row[a].submitted =>
        row[a].state \in {"awaiting_external_result", "reconciliation_required",
                          "succeeded"}

\* A row names a lease owner exactly while it is in flight.  A lease that
\* outlived its execution would shut out the agent that has to finish the
\* row; one that ended early would let two agents run it.
LeaseOnlyInFlight ==
    \A a \in Actions : row[a].owner # None <=> InFlight(row[a])

\* Whichever of a worker, a recovery pass and a late worker settles a row as
\* succeeded, its side effect is in the log, and only such a row is verified.
SuccessHasEffect ==
    \A a \in Actions :
        /\ row[a].state = "succeeded" => a \in effects
        /\ row[a].status = "verified" => row[a].state = "succeeded"

\* No path, recovery's re-authorization included, brings a row of an
\* approval-required type to execution unless it was first attempted under a
\* standing approval by an agent holding that capability.
ApprovalRespected ==
    \A a \in Actions :
        /\ row[a].type \in ApprovalRequired
        /\ row[a].state \notin {"queued", "blocked", "denied", "cancelled"}
        => a \in approved

\* Once the retry budget is exceeded the row is given up, and only then.
BudgetRespected ==
    \A a \in Actions :
        row[a].retries > MaxRetries <=> row[a].state = "permanent_failure"

\* A settled row does not change again, whatever late workers and later
\* passes do.
TerminalIsFinal ==
    [][\A a \in Actions :
         row[a].state \in Terminal =>
           row'[a].state = row[a].state /\ row'[a].status = row[a].status]_vars

\* While the lease of a running row is live the row keeps its owner, until
\* the owner completes it: neither recovery nor a second agent interferes.
LiveLeaseRespected ==
    [][\A a \in Actions :
         row[a].state = "running" /\ LeaseActive(row[a]) =>
           \/ InFlight(row'[a]) /\ row'[a].owner = row[a].owner
           \/ /\ row'[a].state = "succeeded"
              /\ worker[row[a].owner][a] = "applied"]_vars

\* The longest delay retryDelayMs gives: the cap and the jitter on it.
LongestDelay == CapDelay + (CapDelay * 9) \div 50

\* However often a row was interrupted and taken up again, recovery can look at
\* it again within the ttl of one lease or the longest delay of one retry: they
\* do not add up.
WaitsBounded ==
    \A a \in Actions : row[a].lease <= LeaseTtl /\ row[a].wait <= LongestDelay

\* What DurableWork knows of a row.
Stage(r) ==
    CASE r.state = "running" -> "running"
      [] r.state = "awaiting_external_result" -> "submitted"
      [] r.state = "reconciliation_required" -> "held"
      [] r.state = "succeeded" -> "succeeded"
      [] r.state \in {"permanent_failure", "cancelled", "denied"} -> "closed"
      [] OTHER -> "waiting"

Durable == INSTANCE DurableWork WITH
    Work  <- Actions,
    stage <- [a \in Actions |-> Stage(row[a])],
    tries <- [a \in Actions |-> row[a].retries],
    done  <- effects

\* The ledger keeps the promise of DurableWork, zombie workers, partial passes
\* of recovery and revoked agents included: in particular a row whose effect is
\* in the log is neither quarantined, retried nor given up (ledger.ts:837-899),
\* and no effect is recorded for work that nobody ever began.
ImplementsDurableWork == Durable!Spec

Held == {"blocked", "reconciliation_required"}

\* Work that was authorized is not lost when workers die: it settles, or is
\* held for an operator.  Needs an agent that cannot be revoked.
AuthorizedWorkSettles ==
    \A a \in Actions :
        row[a].state = "authorized" ~> row[a].state \in Terminal \cup Held

\* Once a row in flight has its side effect in the log it succeeds; it is
\* neither quarantined nor retried.
EffectInFlightSucceeds ==
    \A a \in Actions :
        InFlight(row[a]) /\ a \in effects ~> row[a].state = "succeeded"

\* A revoked agent does not keep its leases.
RevokedLeaseReleased ==
    \A a \in Actions, g \in Agents :
        row[a].owner = g /\ g \in revoked ~> row[a].owner # g

-----------------------------------------------------------------------------
(* What the documentation says of the ledger and the code does not do.     *)

\* docs/FOUNDER_INDEPENDENCE.md: an approval-required action needs "the
\* matching capability", and a different agent may resume an action "only
\* when that agent holds the capability".
ExecutedByCapableAgent ==
    \A a \in Actions :
        row[a].state = "running" /\ row[a].type \in ApprovalRequired
        => row[a].type \in Capabilities[row[a].owner]

=============================================================================
