-------------------------- MODULE AffiliatePayout --------------------------
(***************************************************************************)
(* Affiliate commissions from a paid sale to a Stripe transfer:            *)
(*   accrue_affiliate_commission, claim_affiliate_payout and               *)
(*   complete_affiliate_payout of                                          *)
(*   supabase/migrations/20261001000001_payment_integrity_and_checkout_    *)
(*   controls.sql, each one transaction that locks the affiliate's row or  *)
(*   the claim's, and                                                      *)
(*   POST of src/app/api/affiliate/payout/route.ts, which the monthly      *)
(*   workflow, a manual dispatch and the autonomous controller may run at  *)
(*   the same time and which stops at any point.                           *)
(*                                                                         *)
(* Money is in cents.  Every request of a run may take effect and lose its *)
(* answer, or fail and do nothing; both are caught, written on the claim   *)
(* and left to a later run.  Counters of referrals, error messages,        *)
(* needs_review rows and the automation log are left out: nothing here     *)
(* reads them.  Nothing in the repository changes affiliates.status from   *)
(* 'active' or takes a connected account away.                             *)
(***************************************************************************)
EXTENDS Integers, FiniteSets

CONSTANTS
    Affiliates,     \* rows of affiliates, all of them active
    Events,         \* ids of the Stripe events that carry an affiliate code
    Payee,          \* Payee[e]: the affiliate of event e's code
    Commission,     \* Commission[e]: v_commission, in cents
    ClaimIds,       \* ids gen_random_uuid may return
    Minimum,        \* the least amount Stripe transfers, 100 cents
    Runs,           \* runs of the payout route at one time
    ListLimit,      \* the most rows a query of the route returns, 100
    AuditInferable, \* whether the audit upsert's ON CONFLICT (idempotency_key)
                    \* finds a unique index to infer
    None            \* no claim, no affiliate

ASSUME AffiliateAssumption ==
    /\ Payee \in [Events -> Affiliates]
    /\ Commission \in [Events -> Nat \ {0}]
    /\ Minimum \in Nat \ {0}
    /\ ListLimit \in Nat \ {0}
    /\ AuditInferable \in BOOLEAN
    /\ None \notin ClaimIds \cup Affiliates

VARIABLES
    \* The database.
    connected, \* affiliates whose profile names a Stripe account
    credited,  \* event ids in affiliate_commission_events
    pending,   \* pending[a]: pending_payout
    earnings,  \* earnings[a]: total_earnings
    owner,     \* owner[c]: affiliate_id of the payout claim c
    amount,    \* amount[c]: amount_cents
    status,    \* status[c]: "absent", "processing" or "paid"
    audited,   \* claims with a row in affiliate_payouts
    \* Stripe.
    keys,      \* claims whose idempotency key Stripe holds
    transfers, \* transfers[c]: transfers made for claim c
    pruned,    \* claims whose key Stripe has dropped
    \* The runs.
    phase,     \* phase[r]: "stopped", "outstanding" or "owed"
    todo,      \* todo[r]: claims or affiliates the run still has to visit
    claim,     \* claim[r]: the claim that processClaim works on
    step,      \* step[r]: the request processClaim makes next
    calm,      \* no more failed requests, lost answers and crashes
    \* History.
    accrued    \* accrued[a]: the commissions of a's events, each once

database == <<connected, credited, pending, earnings, owner, amount, status, audited>>
stripe == <<keys, transfers, pruned>>
runs == <<phase, todo, claim, step, calm>>
vars == <<database, stripe, runs, accrued>>

Open(a) == {c \in ClaimIds : status[c] = "processing" /\ owner[c] = a}

TypeOK ==
    /\ connected \subseteq Affiliates
    /\ credited \subseteq Events
    /\ pending \in [Affiliates -> Nat]
    /\ earnings \in [Affiliates -> Nat]
    /\ owner \in [ClaimIds -> Affiliates \cup {None}]
    /\ amount \in [ClaimIds -> Nat]
    /\ status \in [ClaimIds -> {"absent", "processing", "paid"}]
    /\ audited \subseteq ClaimIds
    /\ keys \subseteq ClaimIds
    /\ transfers \in [ClaimIds -> Nat]
    /\ pruned \subseteq ClaimIds
    /\ phase \in [Runs -> {"stopped", "outstanding", "owed"}]
    /\ todo \in [Runs -> SUBSET (ClaimIds \cup Affiliates)]
    /\ claim \in [Runs -> ClaimIds \cup {None}]
    /\ step \in [Runs -> {"none", "transfer", "audit", "complete"}]
    /\ calm \in BOOLEAN
    /\ accrued \in [Affiliates -> Nat]

Init ==
    /\ connected = {}
    /\ credited = {}
    /\ pending = [a \in Affiliates |-> 0]
    /\ earnings = [a \in Affiliates |-> 0]
    /\ owner = [c \in ClaimIds |-> None]
    /\ amount = [c \in ClaimIds |-> 0]
    /\ status = [c \in ClaimIds |-> "absent"]
    /\ audited = {}
    /\ keys = {}
    /\ transfers = [c \in ClaimIds |-> 0]
    /\ pruned = {}
    /\ phase = [r \in Runs |-> "stopped"]
    /\ todo = [r \in Runs |-> {}]
    /\ claim = [r \in Runs |-> None]
    /\ step = [r \in Runs |-> "none"]
    /\ calm = FALSE
    /\ accrued = [a \in Affiliates |-> 0]

-----------------------------------------------------------------------------
(* Accrual, and what the affiliates and Stripe do.                         *)

\* Mutated: a repeated event adds its commission again.
CreditAgain(e) == [pending EXCEPT ![Payee[e]] = @ + Commission[e]]

\* accrue_affiliate_commission: the event id goes in first, and only the
\* transaction that inserted it adds the commission.
Credit(e) ==
    IF e \in credited
    THEN pending
    ELSE [pending EXCEPT ![Payee[e]] = @ + Commission[e]]

\* A receiver credits the sale of event e; a repeated delivery, or one whose
\* first call committed without an answer, calls it again.
Accrue(e) ==
    /\ credited' = credited \cup {e}
    /\ pending' = Credit(e)
    /\ accrued' = IF e \in credited
                  THEN accrued
                  ELSE [accrued EXCEPT ![Payee[e]] = @ + Commission[e]]
    /\ UNCHANGED <<connected, earnings, owner, amount, status, audited, stripe, runs>>

\* POST of affiliate/connect writes stripe_account_id to the profile.
Connect(a) ==
    /\ connected' = connected \cup {a}
    /\ UNCHANGED <<credited, pending, earnings, owner, amount, status, audited,
                   stripe, runs, accrued>>

\* Stripe drops an idempotency key some time after its first use; once for a
\* claim is enough here.
PruneKey(c) ==
    /\ c \in keys \ pruned
    /\ keys' = keys \ {c}
    /\ pruned' = pruned \cup {c}
    /\ UNCHANGED <<database, transfers, runs, accrued>>

-----------------------------------------------------------------------------
(* A run of the payout route.                                              *)

\* What a query with a limit and without an order may return of the rows that
\* match: any of them, up to the limit.
Listed(rows) ==
    IF Cardinality(rows) <= ListLimit
    THEN {rows}
    ELSE {listed \in SUBSET rows : Cardinality(listed) = ListLimit}

\* Mutated: claims left processing are not retried.
ListNone(r) ==
    /\ phase[r] = "stopped"
    /\ phase' = [phase EXCEPT ![r] = "outstanding"]
    /\ todo' = [todo EXCEPT ![r] = {}]
    /\ UNCHANGED <<database, stripe, claim, step, calm, accrued>>

\* The run reads claims that an earlier one left processing.
ListOutstanding(r) ==
    /\ phase[r] = "stopped"
    /\ phase' = [phase EXCEPT ![r] = "outstanding"]
    /\ \E listed \in Listed({c \in ClaimIds : status[c] = "processing"}) :
          todo' = [todo EXCEPT ![r] = listed]
    /\ UNCHANGED <<database, stripe, claim, step, calm, accrued>>

\* Once it has retried them it reads affiliates that are owed money, and returns
\* if there is none.  One below the minimum at this read is held.
ListOwed(r) ==
    /\ phase[r] = "outstanding" /\ todo[r] = {} /\ claim[r] = None
    /\ \E listed \in Listed({a \in Affiliates : pending[a] > 0}) :
          /\ phase' = [phase EXCEPT ![r] = IF listed = {} THEN "stopped" ELSE "owed"]
          /\ todo' = [todo EXCEPT ![r] = {a \in listed : pending[a] >= Minimum}]
    /\ UNCHANGED <<database, stripe, claim, step, calm, accrued>>

\* The run has visited every affiliate it read and returns.
Finish(r) ==
    /\ phase[r] = "owed" /\ todo[r] = {} /\ claim[r] = None
    /\ phase' = [phase EXCEPT ![r] = "stopped"]
    /\ UNCHANGED <<database, stripe, todo, claim, step, calm, accrued>>

\* A query is refused and the run returns, or its process dies.
Stop(r) ==
    /\ ~calm
    /\ phase[r] # "stopped"
    /\ phase' = [phase EXCEPT ![r] = "stopped"]
    /\ todo' = [todo EXCEPT ![r] = {}]
    /\ claim' = [claim EXCEPT ![r] = None]
    /\ step' = [step EXCEPT ![r] = "none"]
    /\ UNCHANGED <<database, stripe, calm, accrued>>

\* processClaim begins with claim c of the outstanding ones.
RetryClaim(r, c) ==
    /\ phase[r] = "outstanding" /\ claim[r] = None /\ c \in todo[r]
    /\ todo' = [todo EXCEPT ![r] = @ \ {c}]
    /\ claim' = [claim EXCEPT ![r] = c]
    /\ step' = [step EXCEPT ![r] = "transfer"]
    /\ UNCHANGED <<database, stripe, phase, calm, accrued>>

\* Mutated: no look for a processing claim.
OpenAnotherClaim(a, c) ==
    /\ pending[a] >= Minimum
    /\ status[c] = "absent"
    /\ owner' = [owner EXCEPT ![c] = a]
    /\ amount' = [amount EXCEPT ![c] = pending[a]]
    /\ status' = [status EXCEPT ![c] = "processing"]
    /\ pending' = [pending EXCEPT ![a] = 0]

\* claim_affiliate_payout for an affiliate that has no processing claim: the
\* whole pending amount moves into a new claim.
OpenClaim(a, c) ==
    /\ Open(a) = {}
    /\ pending[a] >= Minimum
    /\ status[c] = "absent"
    /\ owner' = [owner EXCEPT ![c] = a]
    /\ amount' = [amount EXCEPT ![c] = pending[a]]
    /\ status' = [status EXCEPT ![c] = "processing"]
    /\ pending' = [pending EXCEPT ![a] = 0]

\* Mutated: the balance pays for the claim a second time.
ReturnClaimDeducted(a, c) ==
    /\ c \in Open(a)
    /\ pending' = [pending EXCEPT ![a] = @ - amount[c]]
    /\ UNCHANGED <<owner, amount, status>>

\* Mutated: what has become due since goes into the open claim.
ReturnClaimToppedUp(a, c) ==
    /\ c \in Open(a)
    /\ amount' = [amount EXCEPT ![c] = @ + pending[a]]
    /\ pending' = [pending EXCEPT ![a] = 0]
    /\ UNCHANGED <<owner, status>>

\* For one that has a processing claim, the function returns that claim.
ReturnClaim(a, c) ==
    /\ c \in Open(a)
    /\ UNCHANGED <<owner, amount, status, pending>>

\* The run takes the next affiliate it read, finds its connected account and
\* claims its payout.  When the answer is lost the run passes on, and the claim
\* is left to the next run.
ClaimPayout(r, a, c, answered) ==
    /\ phase[r] = "owed" /\ claim[r] = None /\ a \in todo[r]
    /\ a \in connected
    /\ answered \/ ~calm
    /\ OpenClaim(a, c) \/ ReturnClaim(a, c)
    /\ todo' = [todo EXCEPT ![r] = @ \ {a}]
    /\ claim' = [claim EXCEPT ![r] = IF answered THEN c ELSE None]
    /\ step' = [step EXCEPT ![r] = IF answered THEN "transfer" ELSE "none"]
    /\ UNCHANGED <<connected, credited, earnings, audited, stripe, phase, calm,
                   accrued>>

\* It passes over an affiliate without an account and one that the function
\* finds below the minimum; and over one whose profile cannot be read or whose
\* claim fails.
SkipAffiliate(r, a) ==
    /\ phase[r] = "owed" /\ claim[r] = None /\ a \in todo[r]
    /\ \/ a \notin connected
       \/ Open(a) = {} /\ pending[a] < Minimum
       \/ ~calm
    /\ todo' = [todo EXCEPT ![r] = @ \ {a}]
    /\ UNCHANGED <<database, stripe, phase, claim, step, calm, accrued>>

\* After a request of processClaim: on to the next one, or, when its answer is
\* lost, out of processClaim.
Proceed(r, next, answered) ==
    /\ claim' = [claim EXCEPT ![r] = IF answered /\ next # "none" THEN @ ELSE None]
    /\ step' = [step EXCEPT ![r] = IF answered THEN next ELSE "none"]
    /\ UNCHANGED <<phase, todo, calm>>

\* Mutated: every attempt has an idempotency key of its own.
TransferredAnew(c) == [transfers EXCEPT ![c] = @ + 1]

\* stripe.transfers.create: one transfer for a key as long as Stripe holds it.
Transferred(c) == IF c \in keys THEN transfers ELSE [transfers EXCEPT ![c] = @ + 1]

Transfer(r, answered) ==
    /\ step[r] = "transfer"
    /\ answered \/ ~calm
    /\ transfers' = Transferred(claim[r])
    /\ keys' = keys \cup {claim[r]}
    /\ Proceed(r, "audit", answered)
    /\ UNCHANGED <<database, pruned, accrued>>

\* The upsert into affiliate_payouts.
WriteAudit(r, answered) ==
    /\ step[r] = "audit"
    /\ AuditInferable
    /\ answered \/ ~calm
    /\ audited' = audited \cup {claim[r]}
    /\ Proceed(r, "complete", answered)
    /\ UNCHANGED <<connected, credited, pending, earnings, owner, amount, status,
                   stripe, accrued>>

\* complete_affiliate_payout: the first completion adds to total_earnings.
Complete(r) ==
    /\ step[r] = "complete"
    /\ status' = [status EXCEPT ![claim[r]] = "paid"]
    /\ earnings' = IF status[claim[r]] = "paid"
                   THEN earnings
                   ELSE [earnings EXCEPT ![owner[claim[r]]] = @ + amount[claim[r]]]
    /\ Proceed(r, "none", TRUE)
    /\ UNCHANGED <<connected, credited, pending, owner, amount, audited, stripe, accrued>>

\* Mutated: the error of a request is not looked at.
RequestFailsUnseen(r) ==
    /\ step[r] # "none"
    /\ calm => step[r] = "audit"
    /\ \/ step[r] = "transfer" /\ Proceed(r, "audit", TRUE)
       \/ step[r] = "audit" /\ Proceed(r, "complete", TRUE)
       \/ step[r] = "complete" /\ Proceed(r, "none", TRUE)
    /\ UNCHANGED <<database, stripe, accrued>>

\* A request fails without effect: processClaim annotates the claim and ends.
\* The upsert may fail for ever: it does when it has no unique index to infer.
RequestFails(r) ==
    /\ step[r] # "none"
    /\ calm => step[r] = "audit"
    /\ Proceed(r, "none", FALSE)
    /\ UNCHANGED <<database, stripe, accrued>>

\* From some time on processes live and requests, the upsert apart, are answered.
EndOfTrouble == ~calm /\ calm' = TRUE
    /\ UNCHANGED <<database, stripe, phase, todo, claim, step, accrued>>

\* What a run does on its own account.
RunStep(r) ==
    \/ ListOutstanding(r)
    \/ ListOwed(r)
    \/ Finish(r)
    \/ \E c \in ClaimIds : RetryClaim(r, c)
    \/ \E a \in Affiliates, c \in ClaimIds, answered \in BOOLEAN :
          ClaimPayout(r, a, c, answered)
    \/ \E a \in Affiliates : SkipAffiliate(r, a)
    \/ \E answered \in BOOLEAN : Transfer(r, answered)
    \/ \E answered \in BOOLEAN : WriteAudit(r, answered)
    \/ Complete(r)
    \/ RequestFails(r)

Next ==
    \/ \E e \in Events : Accrue(e)
    \/ \E a \in Affiliates : Connect(a)
    \/ \E c \in ClaimIds : PruneKey(c)
    \/ \E r \in Runs : RunStep(r) \/ Stop(r)
    \/ EndOfTrouble

Spec == Init /\ [][Next]_vars

\* The workflow calls the route again and again and a run that is not stopped
\* goes on; requests do not fail for ever.
FairSpec ==
    /\ Spec
    /\ \A r \in Runs : WF_vars(RunStep(r))
    /\ WF_vars(EndOfTrouble)

-----------------------------------------------------------------------------
(* What the payouts promise.                                               *)

\* At most one claim of an affiliate is processing: the row lock of the claim
\* function and the partial unique index behind it.
OneClaimOpen == \A a \in Affiliates : \A c, d \in Open(a) : c = d

\* Every commission is in exactly one place: pending, in the one open claim, or
\* among the earnings paid out.  Accruals between the read and the claim, lost
\* answers, crashed and overlapping runs neither lose a cent nor count it twice.
Conservation ==
    \A a \in Affiliates :
        /\ Open(a) = {} => pending[a] + earnings[a] = accrued[a]
        /\ \A c \in Open(a) : pending[a] + amount[c] + earnings[a] = accrued[a]

\* A claim is transferred at most once, however often and by however many runs
\* it is retried, unless Stripe drops its idempotency key in between.
TransferredOnce == \A c \in ClaimIds : transfers[c] > 1 => c \in pruned

\* A claim is closed only after its money has left and the audit row is there,
\* and money leaves only for a claim that was opened.
PaidIsTransferredAndAudited ==
    \A c \in ClaimIds :
        /\ status[c] = "paid" => transfers[c] > 0 /\ c \in audited
        /\ transfers[c] > 0 => status[c] # "absent"

-----------------------------------------------------------------------------
(* Seen without claims, runs and requests.                                 *)

\* What claim_affiliate_payout took out of a's balance and no completion has
\* added to the earnings: the amount of the open claim.
SetAside(a) == IF Open(a) = {} THEN 0 ELSE amount[CHOOSE c \in Open(a) : TRUE]

\* Whether Stripe has made a transfer for it.
Sent(a) == \E c \in Open(a) : transfers[c] > 0

Account == INSTANCE CommissionAccount WITH
    owed <- pending,
    aside <- [a \in Affiliates |-> SetAside(a)],
    sent <- {a \in Affiliates : Sent(a)},
    paid <- earnings

\* Overlapping and crashing runs, lost answers and repeated deliveries are seen
\* by an affiliate as nothing at all or as one step of its account: a sale is
\* credited once, the whole balance is set aside while nothing else is, exactly
\* that amount is sent, and it counts as paid once, after it was sent.
ImplementsCommissionAccount == Account!Spec
=============================================================================
