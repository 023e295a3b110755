---------------------------- MODULE StripeDelivery ----------------------------
(***************************************************************************)
(* The deliveries of one Stripe event: handleStripeWebhook of              *)
(* server/webhooks/stripe.ts with claimStripeEvent                         *)
(* (src/lib/stripe-webhook-claim.ts) and recordStripeWebhookDelivery       *)
(* (src/lib/stripe-webhook-log.ts), which share the event's row of         *)
(* `stripe_events'.  Events do not interact, so one is enough.             *)
(*                                                                         *)
(* Every request to Supabase is one step, which may take effect although   *)
(* its answer is lost, and the Worker may stop between any two.  What an   *)
(* event makes the handler do is abstracted to whether it has been done:   *)
(* `fulfilled'.  Test events (evt_test_) are left out.                     *)
(***************************************************************************)
EXTENDS Naturals

CONSTANTS
    Handlers,  \* requests that the Worker may serve at once
    Database   \* whether DATABASE_URL is set: activity_log is then a second
               \* duplicate check

ASSUME DatabaseAssumption == Database \in BOOLEAN

VARIABLES
    kind,      \* what the event is; it never changes
    stripe,    \* what Stripe knows of its deliveries
    row,       \* the row of `stripe_events'
    seen,      \* activity_log has a row for the event
    handler,   \* handler[h]: a run of handleStripeWebhook
    fulfilled, \* the work of the event has been done
    overtaken  \* a claim older than STRIPE_CLAIM_STALE_MS was taken over

vars == <<kind, stripe, row, seen, handler, fulfilled, overtaken>>

-----------------------------------------------------------------------------
\* A paid DPP checkout; a paid catalogue checkout, with a buyer or without one;
\* and an event that is not a checkout.
Checkouts == {"dpp", "catalog", "anonymous"}
Kinds == Checkouts \cup {"other"}

\* isReplayableCheckoutEvent.
Replayable == kind \in Checkouts

Statuses == {"absent", "received", "success", "error", "duplicate",
             "reconciliation_required"}

NoRow == [status |-> "absent", age |-> "new"]

\* A row just written: processed_at is now.
Fresh(status) == [status |-> status, age |-> "new"]

Idle == [pc |-> "idle", claim |-> "duplicate", code |-> 200]

Init ==
    /\ kind \in Kinds
    /\ stripe = "retrying"
    /\ row = NoRow
    /\ seen = FALSE
    /\ handler = [h \in Handlers |-> Idle]
    /\ fulfilled = FALSE
    /\ overtaken = FALSE

Go(h, pc) == handler' = [handler EXCEPT ![h].pc = pc]

\* The claim is answered.
Claimed(h, pc, claim) ==
    handler' = [handler EXCEPT
                  ![h] = [pc |-> pc, claim |-> claim, code |-> 200]]

\* An error will be answered with code.
Fails(h, code) ==
    handler' = [handler EXCEPT
                  ![h] = [pc |-> "log_error", claim |-> @.claim,
                          code |-> code]]

\* What Stripe makes of a response: it retries until a 2xx, and stops on 400.
Told(code) ==
    IF stripe # "retrying" \/ code = 500 THEN stripe
    ELSE IF code = 200 THEN "acknowledged" ELSE "stopped"

\* The response, which may be lost on its way or with its Worker.
Answer(h, code) ==
    /\ handler' = [handler EXCEPT ![h] = Idle]
    /\ stripe' \in {stripe, Told(code)}

-----------------------------------------------------------------------------
(* The claim.                                                              *)

\* A first delivery, a retry, or a duplicate of an event already answered.
Deliver(h) ==
    /\ handler[h].pc = "idle"
    /\ Go(h, "claim")
    /\ UNCHANGED <<kind, stripe, row, seen, fulfilled, overtaken>>

\* upsert with ignoreDuplicates: the row is inserted, or it exists.
Claim(h) ==
    /\ handler[h].pc = "claim"
    /\ IF row.status = "absent"
       THEN /\ row' = Fresh("received")
            /\ Claimed(h, "receive", "claimed")
       ELSE /\ Go(h, "reclaim")
            /\ UNCHANGED row
    /\ UNCHANGED <<kind, stripe, seen, fulfilled, overtaken>>

\* Mutated: a row that another handler has just claimed may be claimed again.
ReclaimableInFlight == row.status \in {"error", "received"}

Reclaimable ==
    \/ row.status = "error"
    \/ row.status = "received" /\ row.age = "stale"

\* The update that lets the retry of a failed delivery through.
Reclaim(h) ==
    /\ handler[h].pc = "reclaim"
    /\ Reclaimable
    /\ row' = Fresh("received")
    /\ overtaken' = (overtaken \/ row.age = "stale")
    /\ Claimed(h, "receive", "claimed")
    /\ UNCHANGED <<kind, stripe, seen, fulfilled>>

\* Whether the request that handler h has sent, insert or update, finds its row.
ClaimMatches(h) ==
    \/ handler[h].pc = "claim" /\ row.status = "absent"
    \/ handler[h].pc = "reclaim" /\ Reclaimable

\* The row after such a request has failed: it may have taken effect.
ClaimEffects(h) ==
    {row} \cup (IF ClaimMatches(h) THEN {Fresh("received")} ELSE {})

\* No row matches the update, or it reports an error.
IsDuplicate(h) ==
    /\ handler[h].pc = "reclaim"
    /\ row' \in ClaimEffects(h)
    /\ Claimed(h, "dispatch", "duplicate")
    /\ UNCHANGED <<kind, stripe, seen, fulfilled, overtaken>>

\* "unavailable", answered 500: the insert reports an error, or either throws.
ClaimUnavailable(h) ==
    /\ handler[h].pc \in {"claim", "reclaim"}
    /\ row' \in ClaimEffects(h)
    /\ Answer(h, 500)
    /\ UNCHANGED <<kind, seen, fulfilled, overtaken>>

-----------------------------------------------------------------------------
(* recordStripeWebhookDelivery.                                            *)

\* Mutated: processed_at is not renewed.
LogOutcomesUndated(status) ==
    {[ok |-> TRUE, row |-> [row EXCEPT !.status = status]],
     [ok |-> FALSE, row |-> row]}

\* All columns are written and answered for; or they are written, the answer is
\* lost and the upsert of the base columns follows, which leaves the status; or
\* only the base columns are written, which renew processed_at; or nothing.
\* "ok" is what the hold asks for: ok, and not with the base columns only.
LogOutcomes(status) ==
    {[ok |-> TRUE, row |-> Fresh(status)],
     [ok |-> FALSE, row |-> Fresh(status)],
     [ok |-> FALSE, row |-> Fresh(row.status)],
     [ok |-> FALSE, row |-> row]}

LogReceived(h) ==
    /\ handler[h].pc = "receive"
    /\ \E o \in LogOutcomes("received") : row' = o.row
    /\ Go(h, "dispatch")
    /\ UNCHANGED <<kind, stripe, seen, fulfilled, overtaken>>

\* The log of the outcome, whatever becomes of it, then the response.
LogAndAnswer(h, pc, status, code) ==
    /\ handler[h].pc = pc
    /\ \E o \in LogOutcomes(status) : row' = o.row
    /\ Answer(h, code)
    /\ UNCHANGED <<kind, seen, fulfilled, overtaken>>

LogDuplicate(h) == LogAndAnswer(h, "log_duplicate", "duplicate", 200)
LogSuccess(h) == LogAndAnswer(h, "log_success", "success", 200)
LogError(h) == LogAndAnswer(h, "log_error", "error", handler[h].code)

\* The hold of a paid checkout without a buyer must be persisted.  When it is not
\* known to be, the handler throws, and its own catch logs an error over it.
LogHold(h) ==
    /\ handler[h].pc = "log_hold"
    /\ \E o \in LogOutcomes("reconciliation_required") :
         /\ row' = o.row
         /\ IF o.ok
            THEN Answer(h, 200)
            ELSE Fails(h, 500) /\ UNCHANGED stripe
    /\ UNCHANGED <<kind, seen, fulfilled, overtaken>>

-----------------------------------------------------------------------------
(* The dispatch and the work.                                              *)

\* The answers db.hasWebhookEventProcessed may give; it fails open.
DrizzleSeen == IF Database THEN {seen, FALSE} ELSE {FALSE}

Dispatch(h) ==
    /\ handler[h].pc = "dispatch"
    /\ \E drizzleSeen \in DrizzleSeen :
         Go(h, IF ~(drizzleSeen \/ handler[h].claim = "duplicate") THEN "mark"
               ELSE IF Replayable THEN "replay" ELSE "log_duplicate")
    /\ UNCHANGED <<kind, stripe, row, seen, fulfilled, overtaken>>

\* db.logActivity, where there is a database; a failure is ignored.
MarkInFlight(h) ==
    /\ handler[h].pc = "mark"
    /\ seen' \in {seen, Database}
    /\ Go(h, "work")
    /\ UNCHANGED <<kind, stripe, row, fulfilled, overtaken>>

WorkSucceeds(h) ==
    /\ handler[h].pc = "work"
    /\ kind # "anonymous"
    /\ fulfilled' = TRUE
    /\ Go(h, "log_success")
    /\ UNCHANGED <<kind, stripe, row, seen, overtaken>>

\* A paid catalogue checkout that names no buyer.
WorkHolds(h) ==
    /\ handler[h].pc = "work"
    /\ kind = "anonymous"
    /\ Go(h, "log_hold")
    /\ UNCHANGED <<kind, stripe, row, seen, fulfilled, overtaken>>

\* A fulfilment that fails is retryable, though it may have taken effect; any
\* other error is not, be it in an event that is no checkout or in what follows
\* the fulfilment.
WorkFails(h) ==
    /\ handler[h].pc = "work"
    /\ \/ /\ Fails(h, IF Replayable THEN 500 ELSE 400)
          /\ fulfilled' \in {fulfilled, fulfilled \/ kind # "anonymous"}
       \/ Fails(h, 400) /\ kind # "anonymous" /\ fulfilled' = TRUE
    /\ UNCHANGED <<kind, stripe, row, seen, overtaken>>

\* Mutated: a duplicate is acknowledged without the replay of its DPP grant.
ReplayedSkipped(h) ==
    /\ handler[h].pc = "replay"
    /\ UNCHANGED fulfilled

\* fulfillDppCheckoutIfPaid: only a DPP checkout has anything to replay.
Replayed(h) ==
    /\ handler[h].pc = "replay"
    /\ fulfilled' = IF kind = "dpp" THEN TRUE ELSE fulfilled

\* Mutated: the replay of a duplicate is logged as a success.
LogsReplay(h) == TRUE

\* The receipt of a duplicate is left as it is.
LogsOutcome(h) == handler[h].claim # "duplicate"

ReplaySucceeds(h) ==
    /\ Replayed(h)
    /\ IF LogsOutcome(h)
       THEN Go(h, "log_success") /\ UNCHANGED stripe
       ELSE Answer(h, 200)
    /\ UNCHANGED <<kind, row, seen, overtaken>>

\* It fails, though it may have granted.
ReplayFails(h) ==
    /\ handler[h].pc = "replay"
    /\ kind = "dpp"
    /\ fulfilled' \in {fulfilled, TRUE}
    /\ Fails(h, 500)
    /\ UNCHANGED <<kind, stripe, row, seen, overtaken>>

-----------------------------------------------------------------------------
\* The Worker stops; Stripe gets no answer.
Crash(h) ==
    /\ handler[h].pc # "idle"
    /\ handler' = [handler EXCEPT ![h] = Idle]
    /\ UNCHANGED <<kind, stripe, row, seen, fulfilled, overtaken>>

\* STRIPE_CLAIM_STALE_MS pass since processed_at.
Ages ==
    /\ row.status = "received"
    /\ row' = [row EXCEPT !.age = "stale"]
    /\ UNCHANGED <<kind, stripe, seen, handler, fulfilled, overtaken>>

HandlerStep(h) ==
    \/ Claim(h) \/ ClaimUnavailable(h)
    \/ Reclaim(h) \/ IsDuplicate(h)
    \/ LogReceived(h) \/ LogDuplicate(h) \/ LogSuccess(h) \/ LogError(h)
    \/ LogHold(h)
    \/ Dispatch(h) \/ MarkInFlight(h)
    \/ WorkSucceeds(h) \/ WorkHolds(h) \/ WorkFails(h)
    \/ ReplaySucceeds(h) \/ ReplayFails(h)

Next ==
    \/ \E h \in Handlers : Deliver(h) \/ HandlerStep(h) \/ Crash(h)
    \/ Ages

Spec == Init /\ [][Next]_vars

\* Stripe delivers until it is answered, and a handler that is not stopped goes on.
Fairness ==
    /\ WF_vars(stripe = "retrying" /\ \E h \in Handlers : Deliver(h))
    /\ \A h \in Handlers : WF_vars(HandlerStep(h))

FairSpec == Spec /\ Fairness

-----------------------------------------------------------------------------
(* Properties.                                                             *)

HandlerStates ==
    {"idle", "claim", "reclaim", "receive", "dispatch", "mark", "work",
     "replay", "log_duplicate", "log_success", "log_error", "log_hold"}

\* The variables have their types; only a "received" row grows stale.
TypeOK ==
    /\ kind \in Kinds
    /\ stripe \in {"retrying", "acknowledged", "stopped"}
    /\ row \in [status: Statuses, age: {"new", "stale"}]
    /\ row.age = "stale" => row.status = "received"
    /\ seen \in BOOLEAN /\ fulfilled \in BOOLEAN /\ overtaken \in BOOLEAN
    /\ handler \in [Handlers -> [pc: HandlerStates,
                                 claim: {"claimed", "duplicate"},
                                 code: {200, 400, 500}]]

\* A row says "success" only of an event whose work was done, though it is
\* written by whichever delivery ends last (stripe.ts:680-691).  It holds as
\* long as activity_log does not know the event: always on the apex Worker,
\* which has no database, and wherever logActivity has failed.
SuccessMeansFulfilled == (~seen /\ row.status = "success") => fulfilled

\* Doing the work of the event, as opposed to replaying it.
Working(h) ==
    /\ handler[h].claim = "claimed"
    /\ handler[h].pc \in {"receive", "dispatch", "mark", "work"}

\* Two deliveries never do the work of one event at once, unless a handler was
\* overtaken after ten minutes (stripe-webhook-claim.ts:76-98).  A DPP event is
\* excepted: a replay that fails reopens the claim of a handler still at work.
OneWorker ==
    (kind # "dpp" /\ ~overtaken) =>
        \A g, h \in Handlers : Working(g) /\ Working(h) => g = h

\* Handler h could not tell that its hold was persisted: it logs an error and
\* answers 500.
GivesUpHold(h) ==
    /\ handler[h].pc = "log_error" /\ handler[h].code = 500
    /\ handler[h].claim = "claimed"

\* A paid checkout held for an operator stays held.  No redelivery, no duplicate
\* still on its way and no replay writes over the hold: only the handler that
\* wrote it may, with the error it answers 500 because it was not told that the
\* hold is there (stripe.ts:1063-1068, 1228; stripe.ts:680-691).  A handler that
\* was overtaken after ten minutes is excepted.
HoldStays ==
    [][row.status = "reconciliation_required" /\ ~overtaken'
         => \/ row'.status = row.status
            \/ /\ row'.status = "error"
               /\ \E h \in Handlers : GivesUpHold(h) /\ handler'[h] = Idle]_vars

\* A DPP sale that Stripe was told about is provisioned, through any crash, lost
\* answer, duplicate or failed log (stripe.ts:671-702).
DppAcknowledgedIsFulfilled ==
    (kind = "dpp" /\ stripe # "retrying") => fulfilled

\* From some point on the Worker is not stopped in the middle of a request, and
\* what it asks of Supabase for the claim and the fulfilment does not fail.
\* Logs may fail and responses be lost for ever.
TroubleEnds ==
    <>[][\A h \in Handlers :
           ~(Crash(h) \/ ClaimUnavailable(h) \/ WorkFails(h) \/ ReplayFails(h))]_vars

\* A DPP sale is provisioned in the end: Stripe goes on delivering until a
\* delivery has replayed the fulfilment (stripe.ts:671-702).
DppFulfilledInTheEnd == TroubleEnds => (kind = "dpp" => <>fulfilled)

-----------------------------------------------------------------------------
(* What a comment says and the code does not do.                           *)

\* "the route answers 500 so Stripe retries later instead of the event running
\* without a duplicate guard" (stripe-webhook-claim.ts:16-21): an event whose claim
\* was answered "unavailable" is left to a later delivery, which is "not mistaken
\* for an in-flight duplicate" (stripe.ts:637-638).  When the insert had taken
\* effect, that delivery is answered 200 as a duplicate of an event nobody worked
\* on, and logs "duplicate" over "received", which ends all re-claims.
UnavailableClaimIsRetried ==
    (/\ \A h \in Handlers : handler[h].pc = "idle"
     /\ stripe = "acknowledged"
     /\ row.status = "duplicate")
    => fulfilled

=============================================================================
