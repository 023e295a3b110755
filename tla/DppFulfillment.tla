--------------------------- MODULE DppFulfillment ---------------------------
(***************************************************************************)
(* The fulfilment of one paid DPP session: fulfillDppPaidSession of        *)
(* src/lib/dpp-fulfill-checkout.ts around beginProvisionContinuity and     *)
(* finishProvisionContinuity of src/lib/founder-exit/supabase-log.ts, run  *)
(* by every delivery of the session's event that gets past the duplicate   *)
(* check (StripeDelivery), several at a time.                              *)
(*                                                                         *)
(* The session's row of founder_exit_actions is a row of ContinuityLedger; *)
(* here it has one more column, `moves', the length of its history: the    *)
(* table's trigger refuses an update whose history does not extend the     *)
(* stored one, that is, one computed from a row that has moved since.      *)
(*                                                                         *)
(* The recovery pass of ledger.ts works on the same table through          *)
(* PostgresContinuityLog of postgres-log.ts: a process loads the table     *)
(* into memory, moves the rows there, and writes what it moved afterwards, *)
(* in a transaction that may fail, as may the reload that is to put memory *)
(* back.  Several such processes may run.  The pass looks for the row's    *)
(* own idempotency key in the side effects, and the webhook records        *)
(* another, grant:<session>, so that it never finds one.                   *)
(*                                                                         *)
(* provisionPurchase is Provisioning, seen as one step.  Demo sessions,    *)
(* sessions with a user id that has no profile, loop events and the        *)
(* wording of the mail are left out.                                       *)
(***************************************************************************)
EXTENDS Integers, FiniteSets

CONSTANTS
    Deliveries, \* handlers of the session's deliveries at one time
    Recoverers, \* processes that run the recovery pass
    Buyers,     \* "email", "user" (an id and no address) or "nobody"
    MaxRetries, \* recover's maxRetries
    MaxOthers   \* bound on the account's other purchases

\* A handler is a request to the server: there are finitely many at a time.
ASSUME DeliveriesAssumption == IsFiniteSet(Deliveries)

ASSUME DppAssumption ==
    /\ Buyers \subseteq {"email", "user", "nobody"}
    /\ MaxRetries \in Nat
    /\ MaxOthers \in Nat

VARIABLES
    buyer,    \* what the session says of its buyer
    \* The continuity row.
    state,    \* its state, "absent" before the first delivery
    retries,  \* retry_count
    leased,   \* its lease has not expired
    due,      \* next_retry_at has passed
    moves,    \* the length of its history
    begun,    \* the entries of the history that made it running
    effect,   \* the key grant:<session> is in founder_exit_side_effects
    \* The copy of the row in the memory of recovery process r.
    held,     \* held[r]: its state
    counted,  \* counted[r]: its retry_count
    base,     \* base[r]: how much of its history is in the table
    ahead,    \* ahead[r]: how much is still pending
    \* The profile and the mail.
    grants,   \* times this session was granted
    last,     \* last_grant_session_id is this session
    others,   \* other purchases granted to the account
    mails,    \* activation mails handed to the provider
    \* Stripe and the handlers.
    acked,    \* Stripe has its 200
    at,       \* at[d]: what delivery d does next
    seen,     \* seen[d]: the history length of the row d loaded
    found,    \* found[d]: its state
    skipped,  \* skipped[d]: provisionPurchase said skippedIdempotent
    calm      \* no more failed requests, lost answers and crashes

row == <<state, retries, leased, due, moves, begun>>
cache == <<held, counted, base, ahead>>
profile == <<grants, last, others, mails>>
handlers == <<at, seen, found, skipped>>
vars == <<buyer, row, effect, cache, profile, acked, handlers, calm>>

States == {"absent", "running", "retryable_failure", "authorized", "permanent_failure",
           "succeeded"}

Steps == {"idle", "load", "insert", "resume", "provision", "reload", "record", "complete",
          "mail", "answer"}

\* The steps at which a delivery works with the row it loaded.
Holding == {"resume", "record", "complete"}

TypeOK ==
    /\ buyer \in Buyers
    /\ state \in States
    /\ retries \in 0..(MaxRetries + 1)
    /\ leased \in BOOLEAN /\ due \in BOOLEAN
    /\ moves \in Nat /\ begun \in Nat
    /\ effect \in BOOLEAN
    /\ held \in [Recoverers -> States]
    /\ counted \in [Recoverers -> 0..(MaxRetries + 1)]
    /\ base \in [Recoverers -> Nat] /\ ahead \in [Recoverers -> Nat]
    /\ grants \in Nat /\ mails \in Nat
    /\ last \in BOOLEAN
    /\ others \in 0..MaxOthers
    /\ acked \in BOOLEAN
    /\ at \in [Deliveries -> Steps]
    /\ seen \in [Deliveries -> Nat]
    /\ found \in [Deliveries -> States]
    /\ skipped \in [Deliveries -> BOOLEAN]
    /\ calm \in BOOLEAN

Init ==
    /\ buyer \in Buyers
    /\ state = "absent" /\ retries = 0 /\ leased = FALSE /\ due = FALSE
    /\ moves = 0 /\ begun = 0
    /\ effect = FALSE
    /\ held = [r \in Recoverers |-> "absent"]
    /\ counted = [r \in Recoverers |-> 0]
    /\ base = [r \in Recoverers |-> 0] /\ ahead = [r \in Recoverers |-> 0]
    /\ grants = 0 /\ last = FALSE /\ others = 0 /\ mails = 0
    /\ acked = FALSE
    /\ at = [d \in Deliveries |-> "idle"]
    /\ seen = [d \in Deliveries |-> 0]
    /\ found = [d \in Deliveries |-> "absent"]
    /\ skipped = [d \in Deliveries |-> FALSE]
    /\ calm = FALSE

\* The row moves to state s, with or without a lease; every move appends to the
\* history.
Move(s, lease) ==
    /\ state' = s
    /\ leased' = lease
    /\ due' = FALSE
    /\ moves' = moves + 1
    /\ begun' = IF s = "running" THEN begun + 1 ELSE begun

\* Delivery d goes on to step s, with what the step needs of what it has read.
Goto(d, s) ==
    /\ at' = [at EXCEPT ![d] = s]
    /\ seen' = [seen EXCEPT ![d] = IF s \in Holding THEN @ ELSE 0]
    /\ found' = [found EXCEPT ![d] = IF s \in Holding THEN @ ELSE "absent"]
    /\ skipped' = [skipped EXCEPT ![d] = @ /\ s \notin {"idle", "answer"}]

\* Delivery d has loaded the row and goes on to step s.
GotoWithRow(d, s) ==
    /\ at' = [at EXCEPT ![d] = s]
    /\ seen' = [seen EXCEPT ![d] = IF s \in Holding THEN moves ELSE 0]
    /\ found' = [found EXCEPT ![d] = IF s \in Holding THEN state ELSE "absent"]
    /\ skipped' = [skipped EXCEPT ![d] = @ /\ s # "idle"]
    /\ UNCHANGED <<buyer, row, effect, cache, profile, acked, calm>>

\* Mutated: no trigger.
ExtendsAnything(d) == TRUE

\* The founder_exit_actions_guard trigger takes d's update of the row it loaded.
Extends(d) == moves = seen[d]

-----------------------------------------------------------------------------
(* A delivery.                                                             *)

\* Stripe delivers the event until it is acknowledged.
Deliver(d) ==
    /\ ~acked /\ at[d] = "idle"
    /\ Goto(d, "load")
    /\ UNCHANGED <<buyer, row, effect, cache, profile, acked, calm>>

\* Mutated: the first delivery leaves the row to be written later.
LoadLeniently(d) ==
    /\ at[d] = "load"
    /\ GotoWithRow(d, CASE state \in {"running", "succeeded", "absent"} -> "provision"
                        [] state = "authorized" -> "resume"
                        [] OTHER -> "idle")

\* beginProvisionContinuity loads the row.  A running or succeeded one lets the
\* delivery pass; one that is neither authorized nor absent is not resumable,
\* and the delivery fails.
Load(d) ==
    /\ at[d] = "load"
    /\ GotoWithRow(d, CASE state \in {"running", "succeeded"} -> "provision"
                        [] state = "absent" -> "insert"
                        [] state = "authorized" -> "resume"
                        [] OTHER -> "idle")

\* The insert of a new running row; the unique key refuses a second one.
InsertRow(d, answered) ==
    /\ at[d] = "insert"
    /\ answered \/ ~calm
    /\ IF state = "absent"
       THEN Move("running", TRUE) /\ Goto(d, IF answered THEN "provision" ELSE "idle")
       ELSE UNCHANGED <<state, leased, due, moves, begun>> /\ Goto(d, "idle")
    /\ UNCHANGED <<buyer, retries, effect, cache, profile, acked, calm>>

\* The update of an authorized row to running.
ResumeRow(d, answered) ==
    /\ at[d] = "resume"
    /\ answered \/ ~calm
    /\ IF Extends(d)
       THEN Move("running", TRUE) /\ Goto(d, IF answered THEN "provision" ELSE "idle")
       ELSE UNCHANGED <<state, leased, due, moves, begun>> /\ Goto(d, "idle")
    /\ UNCHANGED <<buyer, retries, effect, cache, profile, acked, calm>>

\* provisionPurchase: a session the profile names is skipped, another is
\* granted.  A sale that names nobody fails until Stripe gives up.
Provision(d, answered) ==
    /\ at[d] = "provision"
    /\ answered \/ ~calm
    /\ buyer # "nobody"
    /\ grants' = IF last THEN grants ELSE grants + 1
    /\ last' = TRUE
    /\ IF answered
       THEN /\ at' = [at EXCEPT ![d] = "reload"]
            /\ skipped' = [skipped EXCEPT ![d] = last]
            /\ UNCHANGED <<seen, found>>
       ELSE Goto(d, "idle")
    /\ UNCHANGED <<buyer, row, effect, cache, others, mails, acked, calm>>

NoIdentity(d) ==
    /\ at[d] = "provision"
    /\ buyer = "nobody"
    /\ Goto(d, "idle")
    /\ UNCHANGED <<buyer, row, effect, cache, profile, acked, calm>>

\* finishProvisionContinuity loads the row again.
Reload(d) ==
    /\ at[d] = "reload"
    /\ GotoWithRow(d, IF state = "absent" THEN "idle" ELSE "record")

\* It inserts the grant's key, a duplicate being as good, and completes the row
\* it loaded unless that had succeeded.  Only a running row may.
RecordEffect(d, answered) ==
    /\ at[d] = "record"
    /\ answered \/ ~calm
    /\ effect' = TRUE
    /\ Goto(d, CASE answered /\ found[d] = "succeeded" -> "mail"
                 [] answered /\ found[d] = "running" -> "complete"
                 [] OTHER -> "idle")
    /\ UNCHANGED <<buyer, row, cache, profile, acked, calm>>

\* Mutated: the error of the update is not looked at.
CompleteUnchecked(d, answered) ==
    /\ at[d] = "complete"
    /\ answered \/ ~calm
    /\ IF Extends(d)
       THEN Move("succeeded", FALSE)
       ELSE UNCHANGED <<state, leased, due, moves, begun>>
    /\ Goto(d, "mail")
    /\ UNCHANGED <<buyer, retries, effect, cache, profile, acked, calm>>

\* The update of the row to succeeded.
Complete(d, answered) ==
    /\ at[d] = "complete"
    /\ answered \/ ~calm
    /\ IF Extends(d)
       THEN Move("succeeded", FALSE) /\ Goto(d, IF answered THEN "mail" ELSE "idle")
       ELSE UNCHANGED <<state, leased, due, moves, begun>> /\ Goto(d, "idle")
    /\ UNCHANGED <<buyer, retries, effect, cache, profile, acked, calm>>

\* Mutated: every delivery mails.
MailAgain(d) ==
    /\ at[d] = "mail"
    /\ mails' = IF buyer = "email" THEN mails + 1 ELSE mails
    /\ Goto(d, "answer")
    /\ UNCHANGED <<buyer, row, effect, cache, grants, last, others, acked, calm>>

\* The activation mail goes out with the grant only; whether the provider takes
\* it changes a record and nothing else.
Mail(d) ==
    /\ at[d] = "mail"
    /\ mails' = IF buyer = "email" /\ ~skipped[d] THEN mails + 1 ELSE mails
    /\ Goto(d, "answer")
    /\ UNCHANGED <<buyer, row, effect, cache, grants, last, others, acked, calm>>

Answer(d) ==
    /\ at[d] = "answer"
    /\ acked' = TRUE
    /\ Goto(d, "idle")
    /\ UNCHANGED <<buyer, row, effect, cache, profile, calm>>

\* A request fails without effect, the answer to Stripe is lost, or the handler
\* dies: Stripe sees no 200.
Fail(d) ==
    /\ ~calm
    /\ at[d] # "idle"
    /\ Goto(d, "idle")
    /\ UNCHANGED <<buyer, row, effect, cache, profile, acked, calm>>

-----------------------------------------------------------------------------
(* A recovery process.                                                     *)

\* Mutated: the count of retries stays as memory has it.
RefreshState(r) ==
    /\ held' = [held EXCEPT ![r] = state]
    /\ base' = [base EXCEPT ![r] = moves]
    /\ ahead' = [ahead EXCEPT ![r] = 0]
    /\ UNCHANGED <<buyer, row, effect, counted, profile, acked, handlers, calm>>

\* reloadNow: memory is replaced by the table and nothing is pending.
Refresh(r) ==
    /\ held' = [held EXCEPT ![r] = state]
    /\ counted' = [counted EXCEPT ![r] = retries]
    /\ base' = [base EXCEPT ![r] = moves]
    /\ ahead' = [ahead EXCEPT ![r] = 0]
    /\ UNCHANGED <<buyer, row, effect, profile, acked, handlers, calm>>

\* A process starts or reloads.  What is pending is written first, unless that
\* failed: the reload after a failed write, or the start of another process
\* after a crash.
ReloadCache(r) ==
    /\ ahead[r] > 0 => ~calm
    /\ Refresh(r)

\* The copy of the row moves to state s with retry_count n; its flush is to come.
MoveCopy(r, s, n) ==
    /\ held' = [held EXCEPT ![r] = s]
    /\ counted' = [counted EXCEPT ![r] = n]
    /\ ahead' = [ahead EXCEPT ![r] = @ + 1]
    /\ UNCHANGED <<buyer, row, effect, base, profile, acked, handlers, calm>>

\* The copy is the row as the table has it.  The times in a copy that is not
\* may have passed or not.
IsCurrent(r) == base[r] = moves /\ ahead[r] = 0

\* Mutated: the budget is compared before the retry is counted.
RecoverRunningLate(r) ==
    /\ held[r] = "running"
    /\ IsCurrent(r) => ~leased
    /\ MoveCopy(r, IF counted[r] > MaxRetries THEN "permanent_failure" ELSE "retryable_failure",
                counted[r] + 1)

\* recover: a running row whose lease has expired is counted as interrupted; a
\* retryable one that is due is authorized again.
RecoverRunning(r) ==
    /\ held[r] = "running"
    /\ IsCurrent(r) => ~leased
    /\ MoveCopy(r, IF counted[r] + 1 > MaxRetries THEN "permanent_failure" ELSE "retryable_failure",
                counted[r] + 1)

RecoverRetryable(r) ==
    /\ held[r] = "retryable_failure"
    /\ IsCurrent(r) => due
    /\ MoveCopy(r, "authorized", counted[r])

\* flushNow, when it has its connection: the whole row is upserted and the
\* trigger takes it if the table's history has not moved since; otherwise memory
\* is put back.  A commit whose answer is lost is a commit: to write the row
\* again changes nothing.  Other failures change nothing, or are ReloadCache.
Flush(r) ==
    /\ ahead[r] > 0
    /\ IF base[r] = moves
       THEN /\ state' = held[r]
            /\ retries' = counted[r]
            /\ leased' = FALSE
            /\ due' = FALSE
            /\ moves' = moves + ahead[r]
            /\ base' = [base EXCEPT ![r] = @ + ahead[r]]
            /\ ahead' = [ahead EXCEPT ![r] = 0]
            /\ UNCHANGED <<buyer, begun, effect, held, counted, profile, acked, handlers, calm>>
       ELSE Refresh(r)

RecoveryStep(r) ==
    \/ ReloadCache(r)
    \/ RecoverRunning(r)
    \/ RecoverRetryable(r)
    \/ Flush(r)

-----------------------------------------------------------------------------
(* The rest of the world.                                                  *)

\* A lease of five minutes expires, or the retry time comes.
Clock ==
    /\ \/ leased /\ leased' = FALSE /\ due' = due
       \/ state = "retryable_failure" /\ ~due /\ due' = TRUE /\ leased' = leased
    /\ UNCHANGED <<buyer, state, retries, moves, begun, effect, cache, profile, acked, handlers, calm>>

\* The account buys something else: the profile names the other session.
OtherPurchase ==
    /\ others < MaxOthers
    /\ others' = others + 1
    /\ last' = FALSE
    /\ UNCHANGED <<buyer, row, effect, cache, grants, mails, acked, handlers, calm>>

EndOfTrouble ==
    /\ ~calm
    /\ calm' = TRUE
    /\ UNCHANGED <<buyer, row, effect, cache, profile, acked, handlers>>

DeliveryStep(d) ==
    \/ Deliver(d)
    \/ Load(d)
    \/ \E answered \in BOOLEAN :
          \/ InsertRow(d, answered)
          \/ ResumeRow(d, answered)
          \/ Provision(d, answered)
          \/ RecordEffect(d, answered)
          \/ Complete(d, answered)
    \/ NoIdentity(d)
    \/ Reload(d)
    \/ Mail(d)
    \/ Answer(d)

Next ==
    \/ \E d \in Deliveries : DeliveryStep(d) \/ Fail(d)
    \/ \E r \in Recoverers : RecoveryStep(r)
    \/ Clock
    \/ OtherPurchase
    \/ EndOfTrouble

Spec == Init /\ [][Next]_vars

\* Stripe redelivers and some handler runs, some recovery process reloads and
\* repeats its pass, and time passes; failures come to an end.
FairSpec ==
    /\ Spec
    /\ WF_vars(\E d \in Deliveries : DeliveryStep(d))
    /\ WF_vars(\E r \in Recoverers : RecoveryStep(r))
    /\ WF_vars(Clock)
    /\ WF_vars(EndOfTrouble)

-----------------------------------------------------------------------------
(* What the fulfilment promises.                                           *)

Stage ==
    CASE acked -> "acknowledged"
      [] ~acked /\ state = "permanent_failure" -> "exhausted"
      [] ~acked /\ state = "succeeded" -> "completed"
      [] ~acked /\ state \notin {"permanent_failure", "succeeded"} /\ effect -> "recorded"
      [] ~acked /\ state \notin {"permanent_failure", "succeeded"} /\ ~effect /\ grants > 0
            -> "granted"
      [] OTHER -> "paid"

Sale == INSTANCE PaidSale WITH stage <- Stage, identified <- buyer # "nobody"

\* The handlers of any number of deliveries, the recovery pass and every failure
\* between two requests together implement the sale: granted, recorded,
\* completed, acknowledged, in this order and without a step back, and a sale
\* that names its buyer is acknowledged in the end unless recovery exhausts it.
ImplementsPaidSale == Sale!FairSpec

\* The grant never runs without a continuity row.
GrantHasRow == grants > 0 => state # "absent"

\* A row becomes succeeded only from running: what recovery has taken from a
\* slow handler, that handler's late update does not take back.
OnlyRunningSucceeds == [][state' = "succeeded" => state \in {"running", "succeeded"}]_vars

\* Whatever the recovery processes have in memory and fail to write, the row
\* counts no interruption that did not happen, and is given up only when every
\* retry of the budget was begun.
RetriesAreReal ==
    /\ retries <= begun
    /\ state = "permanent_failure" => begun > MaxRetries

\* Every activation mail belongs to a grant of its own, and goes out only once
\* the sale's row is completed.
MailIsEarned == mails <= grants /\ (mails > 0 => state = "succeeded")
=============================================================================
