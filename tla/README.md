# Formal models of the AuthiChain payment and continuity core

TLA+ models of the parts of this repository where money, entitlements and
autonomous work meet concurrency and failure; TLC checks them on small
instances and TLAPS proves the safety results for all instances. Paths below are relative to the
repository root. The library code is under `src/`, the Express-era server under
`server/`, the apex Cloudflare Worker under `worker-app/`, other Workers under
`workers/`.

## 1. Inventory

| Component | State it keeps | Operations | What is hard |
| --- | --- | --- | --- |
| Continuity ledger (`src/lib/founder-exit/ledger.ts`) | a row per action (state, decision, lease, retries, `request_submitted`), the side-effect log | attempt, begin, resume, record effect, mark submitted, complete, recover | workers die between any two calls, live and dead workers race the recovery pass, agents are revoked under a lease |
| Postgres continuity store (`src/lib/founder-exit/postgres-log.ts`) | a cache of the rows, a pending map, a promise queue, two tables with an append-only history trigger | the same, queued; flush, reload | the cache is changed before the transaction; commit and reload may fail; two processes |
| Continuity over Supabase (`src/lib/founder-exit/supabase-log.ts`) with DPP fulfilment (`src/lib/dpp-fulfill-checkout.ts`) | a ledger row and an effect key per checkout session | begin before the grant, finish after it | crash between grant, effect key, completion and activation email; the recovery pass moves rows the webhook then refuses |
| Provisioning (`src/lib/provisioning.ts`) | `generations_limit`, `generations_used`, `last_grant_session_id` of a profile | resolve or create, read, conditional write, retry | other writers of the same columns; lost answers; redeliveries |
| Generation spending (`src/lib/business-tier.ts`, `src/lib/generate-api.ts`) | the same columns | check, generate, deduct | an unconditional read-then-write |
| Stripe delivery (`server/webhooks/stripe.ts`, `src/lib/stripe-webhook-claim.ts`, `src/lib/stripe-webhook-log.ts`, `worker-app/index.ts`) | a `stripe_events` row per event, `activity_log` | claim, re-claim, log, dispatch, replay, answer | concurrent deliveries write one row last-writer-wins; crashes; the answer decides whether Stripe retries |
| Second Stripe receiver (`workers/stripe-webhook`) | the profile columns again | upsert, grant (set), refill | no condition on its writes, no dedupe of `invoice.paid` |
| Next.js Stripe route (`src/app/api/stripe/webhook/route.ts`) | a `stripe_events` row per event, with statuses of its own (`processing`), `user_referrals` | claim, re-claim, dispatch to provisioning, reward a referrer | a third caller of `provisionPurchase`; `creditReferral` reads `generations_limit` and writes it back 100 higher, unconditionally |
| Ledger anchoring (`src/lib/ledger-service.ts`, `contracts/ledger`) | `ledger_receipts`, the contract, a transaction queue | anchor, reverse, retry pending | transactions mined late, several instances |
| Affiliate payout (`src/app/api/affiliate/payout/route.ts`, `src/lib/affiliate-accrual.ts`) | balances, claims, payouts | accrue, claim, transfer, complete, retry | ambiguous transfers retried by overlapping runs |
| Stripe reconciler (`workers/stripe-reconcile`) | none | compare charges with rows | a pure function |
| x402 (`src/lib/x402.ts`, `src/lib/x402-free-tier.ts`) | a counter in the database | reserve, verify, settle | settled outside the repository |
| Agent governor, outreach, verify agents, scheduled jobs, metering, issuer, checkout gate | small or external | | mostly I/O, or pure checks |

How they interact: Stripe calls the apex Worker and the second receiver
independently, with the same events. The apex Worker claims the event in
`stripe_events`, and calls DPP fulfilment or catalogue fulfilment; both call
`provisionPurchase`. DPP fulfilment brackets that call with a continuity row
(`reconcile` type) kept over Supabase; the recovery pass of the Postgres store
works on the same table. Affiliate accrual and ledger anchoring start from the
same checkout, after the answer, and affect neither. Generations spend what provisioning grants. Nothing runs in a
transaction across two of these; each request to Supabase is atomic by itself.

What makes each correct: the ledger never lets work whose outcome is unknown
run again, and never loses authorized work; a Stripe event is worked on once
and acknowledged only when that is true; a purchase adds exactly what was
bought, once, whatever else writes the profile; what an affiliate is owed is
paid once and never lost; a sale has one id on the public chain and its receipt
says no more than the chain does.

## 2. Modules

| Module | What it is |
| --- | --- |
| `ContinuityLedger` | the ledger: one action per exported function, plus revocation, cancellation, worker deaths and time |
| `DurableWork` | work that is begun, interrupted, submitted, held and settled, without agents, leases, rows or time: an abstract specification |
| `ContinuityLedgerProofs` | its theorems, the refinement of `DurableWork` among them |
| `MCContinuityLedger` | two agents with different capabilities, one type of each class |
| `StripeDelivery` | all deliveries of one event: one action per request to Supabase |
| `StripeDeliveryProofs`, `MCStripeDelivery` | its theorems; its instance |
| `CreditAccount` | a buyer's credits, each grant one step: an abstract specification |
| `Provisioning` | one buyer's profile, with provisioning, spending and the second receiver as its writers: implements `CreditAccount` |
| `ProvisioningProofs`, `MCProvisioning` | its theorems, the refinement among them; its instances |
| `PaidSale` | the stages of a paid DPP sale, without handlers, requests or rows: the abstract specification |
| `DppFulfillment` | all deliveries of one DPP session, its continuity row, the recovery processes and their caches: implements `PaidSale` |
| `DppFulfillmentProofs`, `MCDppFulfillment` | its theorems, the refinement among them; its instance |
| `CommissionAccount` | what an affiliate is owed, set aside, sent and paid, without claims, runs or retries: an abstract specification |
| `AffiliatePayout` | commissions, claims, transfers and audit rows, with overlapping payout runs: implements `CommissionAccount` |
| `AffiliatePayoutProofs`, `MCAffiliatePayout` | its theorems, the refinement among them; its instances |
| `LedgerAnchor` | one sale, its receipt row and the contract, with overlapping runs |
| `LedgerAnchorProofs`, `MCLedgerAnchor` | its theorems; its instance |

### ContinuityLedger

`row[a]` is the ledger row of action `a`; `effects` the side-effect log;
`worker[g][a]` what agent `g` believes of its own execution (it is not stored
anywhere in the code: it stands for a worker process between two calls);
`revoked` the identities the registry has revoked; `approved` is a history
variable. `lease` and `wait` count the time left until `lease_expires_at` and
`next_retry_at`. `attemptAction` makes two commits: `AttemptAction` is both, and
`AttemptStopsAtQueued` the first alone, when the second throws. `recover` loops
over rows and may be cut short by a commit that throws: `Recover(reached, rng)`
takes any set of due rows, `RecoverAll` the whole pass. Every move goes through
`CanMove`, the table `TRANSITIONS`. Text fields, history, evidence references
and the economic classification are left out. `completeVerified` is called by a
worker whose effect is recorded, as every caller in the repository does, though
the function does not look. A new row starts with no retries counted, as every
caller but the local replica drill has it (`ledger.ts:427` accepts a number).

`DurableWork` says what this is for: `Stage(r)` maps a row to waiting, running,
submitted, held, succeeded or closed. Work that is blocked, queued, authorized or
between two retries is waiting. A pass of recovery moves several pieces of work
in one step; an effect may be made late, by a worker whose row was taken away,
but only of work that was begun.

### StripeDelivery

`row` is the event's row of `stripe_events` with the age of `processed_at`
(`new`, or `stale` when more than ten minutes old); `seen` whether
`activity_log` knows the event (only where `DATABASE_URL` is set, constant
`Database`); `handler[h]` a run of `handleStripeWebhook`; `stripe` whether
Stripe still retries; `fulfilled` whether the event's work was done.
`overtaken` is a history variable. `recordStripeWebhookDelivery` may write all
columns, only the base ones (which renew `processed_at`) or nothing, and an
answer lost after all columns were written makes it report the base columns
only: `LogOutcomes`. Every request may take effect although its answer is lost:
`ClaimEffects` for the insert and the update of the claim, `WorkFails` and
`ReplayFails` for the fulfilment, `Answer` for the response to Stripe. The
kinds of event are what the dispatch distinguishes: a DPP checkout, a catalogue
checkout with or without a buyer, anything else. Whatever the handler does for
an event is one step that may fail before or after it took effect.

### Provisioning

`profile` is the row with the columns that credits depend on; `call[c]`,
`edge[e]`, `spend[g]` are runs of `provisionPurchase`, of the second receiver
and of `handleGeneratePost`. `Entitled(p, s)` is the update computed from the
row `p` that was read; `UnchangedSince` the conditions added to it. `id` tells
apart a profile created for a guest, which an update by the buyer's user id does
not find. The uniqueness of `profiles.email` is assumed (the second receiver
upserts on it). Plan and status columns are left out. All callers pass a
session id, so the read before the write always happens.
`generations_limit` null and 0 are not told apart. The `dpp` plan of the second
receiver, which writes nothing but the upsert, is not in `EdgeSessions`.
`invoice.paid` is matched by the Stripe customer alone (`Refill`); the model lets
it find any profile, also a guest's that has no customer yet. The reward of a
referrer by the Next.js route is not among the writers: `UnchangedSince` looks at
the column it changes, so a call that races with it retries, but it is no step of
`CreditAccount`.

`CreditAccount` keeps `left`, what remains of the limit, `total`, the limit as
the last grant set it, and the session granted last. A grant by
`provisionPurchase` is one step that works on what is left then; a deduction may
be lost to another one but leaves less than `total`; the second receiver
overwrites.

### DppFulfillment

`state`, `retries`, `leased`, `due` are the session's row of
`founder_exit_actions`; `moves` is the length of its history, which stands for
the history itself: the table's trigger refuses an update whose history does not
extend the stored one (`Extends`, and the test of `Flush`). `at[d]` is the
request a run of `fulfillDppPaidSession` makes next, `seen[d]` and `found[d]` the
row it has loaded. `held`, `counted`, `base` and `ahead` are the copy of the row
in the memory of a `PostgresContinuityLog`: `recover` moves the copy
(`RecoverRunning`, `RecoverRetryable`), `flushNow` writes it later (`Flush`). A
failed connection leaves the moves pending, and the next pass adds to them; a
failed or refused write is followed by a reload, which may fail too. A commit
whose answer is lost is a commit: writing the same row again changes nothing.
When a copy is not the stored row, the times in it may have passed or not: what
it does is refused, so the choice is harmless. `grants`, `last` and `mails`
count what `provisionPurchase` and the mail did; `Provisioning` shows what one
grant does to the credits. `begun` is the number of history entries that made
the row running.

### AffiliatePayout

The three SQL functions are one step each, under the lock they take; the payout
route is a run of several steps, `claim[r]` and `step[r]` being where
`processClaim` is. `keys` are the idempotency keys Stripe holds, `pruned` those
it has dropped, `transfers` what it sent. The two listings have a limit of 100 and
no order: `Listed` is any choice of at most `ListLimit` rows, and an affiliate may
be left out of every one. `AuditInferable` says whether
`ON CONFLICT (idempotency_key)` finds its index. The upsert may fail for ever
either way (`RequestFails`), so the behaviours without the index are among those
with it.

To `CommissionAccount` an open claim is the amount set aside (`SetAside(a)`), and
a transfer for it is the money sent (`Sent(a)`). Whatever else the runs do is
nothing to the account.

### LedgerAnchor

`receipt` is the row of `ledger_receipts` of one sale, `chain` the contract's
entry, `sales` the ids it gave, `sent[r]` a transaction of run `r` that is not
mined yet. A run looks the row up, checks, upserts, preflights, sends, awaits,
writes. Reads that fail are taken for absent rows, as the code takes them;
`waitForTransaction` may answer null or throw. The owner may revoke the recorder
and restore it.

## 3. Runs

| Run | Instance | Shows |
| --- | --- | --- |
| `ledger_safety` | 2 actions, 2 agents, 3 types, 1 retry, lease of 1 tick | the invariants and action properties of the ledger, with passes over both rows, and that it implements `DurableWork`; about 450 000 states |
| `ledger_liveness` | 1 action, 2 retries, delays of 3 and 6 ticks with jitter | liveness |
| `ledger_capability` | 1 action | a documented rule the code does not enforce |
| `delivery` | 3 concurrent deliveries, every kind of event, a database whose writes may fail (which includes every behaviour without one) | what the event row says, what Stripe is told, who may replace a hold, and that DPP sales are provisioned in the end; about 330 000 states |
| `delivery_unavailable` | 1 delivery at a time | a claim whose answer is lost is closed by the retry it asked for |
| `provisioning_safety` | 3 sessions (a pack known by email, one by user id, a subscription), 2 calls, 1 request to the second receiver, 1 generation, 1 refill, 4 deliveries, 1 retry; a new account or one with credits | the conditional write; that it implements `CreditAccount` |
| `provisioning_redelivery` | 2 packs, 1 call at a time | a session credited twice |
| `provisioning_stale_deduction` | 2 packs, 1 call, 1 generation | a deduction that eats a pack |
| `affiliate_payout` | 2 affiliates, 3 commissions (one below the minimum of 100 cents), 2 claims, 2 overlapping runs, listings of 1 row; the audit upsert may succeed or fail, for ever too | no cent lost or counted twice, one transfer for a claim, what is owed is sent; that it implements `CommissionAccount` |
| `payout_audit` | 1 affiliate, 1 commission, 1 run, the index as the migration makes it | a transfer whose audit row is never written |
| `dpp_fulfillment` | 2 deliveries, 2 recovery processes, 1 retry, 1 other purchase of the account | the fulfilment implements `PaidSale` |
| `ledger_anchor` | 2 runs, 1 revocation | one id, true receipts, and receipts that settle |

Why the bounds are enough. Ledger rows interact only through one agent working
on several and through a pass that stops between two rows: two actions have
both. Two agents are the owner and another; a third repeats them. Retries and
delays are counted to the limit and past it in the liveness run. An event's
handlers interact through one row; three give a worker, a duplicate and a
re-claim at once. In provisioning every race is between one read-write pair and
one other writer; two calls and one of each other writer give all pairs, and
one retry reaches both the second attempt and its exhaustion. Four deliveries
let each of two sessions be delivered twice. `MaxDeliveries`, `MaxGenerated` and
`MaxRefills` bound only how often the environment acts. The subscription of the
instance grants what the account already has, so that the limit alone does not
betray a grant. Symmetry is used in the safety runs only. A payout run races
with another run and with accruals; a third affiliate or run repeats them, and
three commissions give one below the minimum, one that lands between the read
and the claim, and one after. A limit of one row is exceeded by two affiliates
that are owed something, or by two open claims, which is what the limit of 100
does with more. For the DPP sale, two deliveries and two caches
give every pair of writers of the row, one retry both a requeue and an
exhaustion, and one other purchase the second grant of the same session; a buyer
known by user id only differs from the one with an address in that no mail goes
out, and is left to the proofs. Two anchoring runs give the double send and the
stale write. The theorems of section 4 hold for any of these numbers.

### Fairness

`ContinuityLedger!Fairness`: time passes; the interval recovery pass runs to
its end; an authorized row is eventually taken by some agent. The first is the
clock, the second is what `docs/RECOVERY_AND_RECONCILIATION.md` calls the startup and
interval pass, the third the scheduler that resumes ready work, which needs an
agent that is not revoked (`General` in the instance). Nothing is assumed of a
worker once it has begun. `StripeDelivery!Fairness`: Stripe delivers while it is
not answered 2xx or 400, and a running handler goes on (weak fairness of both;
which branch it takes is not assumed). `DppFulfilledInTheEnd` also supposes that
trouble ends: from some time on no Worker stops in the middle of a request and
the claim and the fulfilment do not fail. Logs may fail and responses be lost for
ever.
`DppFulfillment!FairSpec`: of the deliveries Stripe makes, some handler goes on,
some recovery process goes on, time passes, failures end. The documents speak of
a startup and interval pass; nothing in the repository schedules it.
`AffiliatePayout!FairSpec`: the workflow calls the route again and again, a run
that is not stopped goes on, failures end, those of the audit upsert excepted.
`LedgerAnchor!Fairness`: runs go on,
transactions are mined, the recorder is restored, failures end, and
`retry-pending` is run again and again, which is an operator's doing: no
schedule of the repository runs it.

### Properties, by what they protect

- `NeverResubmitted`, `SuccessHasEffect`, `EffectInFlightSucceeds`: the order of
  the tests in `recover`.
- `LiveLeaseRespected`, `LeaseOnlyInFlight`, `RevokedLeaseReleased`: who may
  take a row away from a worker, and when.
- `ApprovalRespected`, `BudgetRespected`, `TerminalIsFinal`: what no sequence of
  legal calls may reach. `AuthorizedWorkSettles`: nothing authorized is lost.
- `ImplementsDurableWork`: all of the ledger at once. Beyond the properties above
  it says that a row whose effect is logged is neither interrupted, held nor
  given up, also when the effect comes late from a worker that lost its row; that
  an interruption is counted once, and never past the budget; and that nobody
  makes an effect of work that was never begun.
- `DppAcknowledgedIsFulfilled`, `DppFulfilledInTheEnd`: Stripe is told to stop
  only when the sale is provisioned, and it is.
- `SuccessMeansFulfilled`, `OneWorker`: the event row is true, and a claim
  excludes others. Both hold with the limits their comments state: an event that
  `activity_log` has already seen is replayed as a DPP sale would be and logged
  as a success (so the first excepts it), and a DPP replay that fails reopens a
  claim still held (so the second excepts DPP).
- `HoldStays`: a paid checkout without a buyer is held for an operator, and no
  redelivery, duplicate or replay writes over the hold. Only the handler that
  wrote it may: when it is not told that the hold persisted, it throws, logs the
  error over it and answers 500 (`GivesUpHold`), so that Stripe delivers again. A
  handler that was overtaken after ten minutes is excepted.
- `PackAddsItsCredits`, `NoGrantOverItself`, `ProvisionedIsGranted`: the
  conditional write of `provisionPurchase` loses nothing, repeats nothing under
  way, and is not reported when it did not happen.
- `ImplementsCreditAccount`: to the credits a call of `provisionPurchase`, with
  its reads, conflicts and retries, is one step or none. This is what lets
  `DppFulfillment` model the call as one step (`Provision`).
- `ImplementsPaidSale`: deliveries, zombies, recovery with stale memory and
  failures between any two requests never take a sale a step back, never
  acknowledge it before it is granted, recorded and completed, and acknowledge
  it in the end unless recovery exhausts it.
- `OnlyRunningSucceeds`, `RetriesAreReal`: the trigger keeps a late write from
  undoing a newer one, and a cache that is ahead of the table from counting an
  interruption twice.
- `GrantHasRow`, `MailIsEarned`: no grant without its row; no mail without its
  grant and completed row.
- `OneClaimOpen`, `Conservation`: the row lock of `claim_affiliate_payout`
  against accruals and other runs. `TransferredOnce`,
  `PaidIsTransferredAndAudited`: the idempotency key and the order of transfer,
  audit and completion. With the index of the migration no claim is ever paid, and
  the latter says no more than that. `OwedIsSent`: what a connected affiliate is
  owed is sent in the end, whether or not its audit row can ever be written,
  unless others crowd it out of the listings. It is not said that the claim is
  closed: with the migration's index it is not, and what the affiliate is owed
  for later sales waits behind it.
  `ImplementsCommissionAccount`: an affiliate sees one movement at a time, the
  amount set aside does not change until it counts as paid, so that every attempt
  to send it sends the same amount.
- `RecordedOnce`, `ReceiptIsOnChain`, `ReceiptSettles`: a transaction whose fate
  is unknown is neither anchored twice nor forgotten.

What the runs also showed, and no statement of the repository rules out:

- `recover` tests for the row's own key `dpp_fulfill:<session>`, the webhook
  records `grant:<session>`: recovery requeues a granted sale and never
  reconciles it, which `docs/RECOVERY_AND_RECONCILIATION.md` would have it do.
- A delivery whose row was taken away may still grant, after the row is given
  up too; such a sale stays unacknowledged. A crash between grant and mail loses
  the mail.
- A reverted anchoring transaction is recorded as anchored with id 0, since no
  status is read (`src/lib/ledger-service.ts:230-260`); hence the exception of
  `ReceiptIsOnChain` for a revoked recorder. A run that read the row before a
  refund writes anchored over reversed, and a refund before the sale is on chain
  is skipped. Two runs may put the row back to pending in turn, so that
  `ReceiptSettles` says only that it is settled again and again.
- A claim that stays open until Stripe has dropped its key is transferred a
  second time; `TransferredOnce` excepts it. With the migration's index every
  claim stays open, and a monthly retry comes after the key is gone.
- A hold that was written and whose answer was lost is replaced by an error of
  the handler that wrote it.
- With more rows than a listing returns, nothing keeps it from returning the same
  ones each time.

### Disagreements found

Each is a run that TLC must find violated.

1. `ExecutedByCapableAgent`: `beginExecution` never looks at capabilities
   (`docs/FOUNDER_INDEPENDENCE.md:27`).
2. `UnavailableClaimIsRetried`: the route answers 500 to an unavailable claim so
   that a retry works on the event (`src/lib/stripe-webhook-claim.ts:16-21`,
   `server/webhooks/stripe.ts:635-638`). When the insert took effect and only its
   answer was lost, a retry within ten minutes is a duplicate of an event nobody
   worked on; it is answered 200 and closes the row. A Worker that stops after its
   claim leaves the same row, and the same end.
3. `SessionCreditedOnce`: the profile remembers one session only
   (`src/lib/provisioning.ts:193-194`).
4. `PackCreditsKept`: a stale deduction undoes the reset of a grant
   (`src/lib/provisioning.ts:92-93`, `src/lib/business-tier.ts:91-94`).
5. `TransferIsAudited`: the audit upsert names a column whose only unique index
   is partial, so that it fails after each transfer
   (`src/app/api/affiliate/payout/route.ts:29-30,102`). The claim is never
   closed and is retried by each run, under the same key.

## 4. Proofs

All theorems hold for every value of the constants under the assumptions named
in the modules (`SessionsAssumption`, `NumbersAssumption`, `DatabaseAssumption`,
`AffiliateAssumption`, `DppAssumption`, `DeliveriesAssumption` (finitely many
requests at a time), `AnchorAssumption` and those of
`ContinuityLedger`), which TLC evaluates on each instance.

- **Ledger.** `IInv` gathers in `RowOK` what is true of one row: an owner
  exactly in flight, submitted only in flight, quarantined or succeeded, success
  only with the effect in the log, the retry count beyond the budget exactly
  when given up; and, of workers, that one who believes its effect recorded is
  right. The last is what makes `SuccessHasEffect` inductive, since the ledger
  itself does not look at the log on completion. From `IInv` follow all six
  invariants of `ledger_safety`; `TerminalStays` and `LiveLeaseHolds` are
  action properties proved from it and the transition table. `LedgerIsDurable`
  (`Spec => Durable!Spec`) shows each step to be a step of `DurableWork` or a
  stutter. It needs one more invariant, `BegunInv`: a worker that knows anything
  of a row is a worker of a row that was begun, though the row may have moved on;
  without it a late effect could be of work nobody began. `RecoveredMoves` is the
  heart: each branch of one iteration of `recover` is one move. `StepMoves` turns
  every action into moves of rows. `WaitsAreBounded` is arithmetic
  (`RetryDelayBounded`): neither retries nor leases add up, so recovery can look
  at every row again within one lease or one capped and jittered delay. It is the
  safety fact that `AuthorizedWorkSettles` rests on.
- **Delivery.** `DppInv` adds to the types what each program point of a handler
  knows (a handler about to log a duplicate has an event that is no checkout;
  one about to answer 400 for a checkout has fulfilled it). `SuccessInv` says
  which handlers may write a success. `AtMostOneWorker` rests on the row:
  `WorkerInv` says that a claim that is held has a row no one may take over.
  `HoldIsKept` uses all of these: who logs an error, a success or another hold
  has the claim (`HoldsOK`, `HoldInv`), and once a hold is written nobody has it
  but, possibly, the handler that wrote it and was not told so, which has nothing
  left to do but log its error; a duplicate is only logged for an event that is
  no checkout. `HoldInv` is what makes this inductive: no step gives out a claim
  of a held row.
- **Provisioning.** `IInv` says what a call knows: one past its lookup that has
  no user id has a profile; the row it read was not granted to its session; the
  session the profile remembers was credited. `PackStacks` is the arithmetic;
  `WriteLandsKeeps` the step that matters. `PacksAddTheirCredits` and
  `NotGrantedOverItself` follow because a write that lands finds the columns as
  read. `GrantsAreAtomic` (`Spec => Account!Spec`) needs `ProfileInv`, that a
  profile does not go away and nothing is spent or set before there is one, so
  that the guest's row inserted over no row leaves the account as it was; and
  `EdgeInv`. `PackLeft` and `PeriodLeft` are what the two kinds of grant leave.
- **DPP fulfilment.** `IInv`: a row a delivery has loaded is the stored one or
  one that has moved since (`LoadedInv`); a copy in a recovery process is the
  stored row, pending moves of it, or outdated (`CacheInv`); the retry count is
  the number of interruptions (`RowInv`); what the next step of a delivery
  implies of the sale (`StepInv`, `SaleInv`). The trigger's test then leaves no
  write that is computed from an old row. `DeliveryDoes` turns each step into
  its effects, which the six preservation lemmas use. `Refinement`
  (`Spec => Sale!Spec`) maps every step to a step of `PaidSale` or a stutter,
  for any number of deliveries and recovery processes. `MailsAreEarned` needs
  a count: `MailInv` has the mails sent and the deliveries that still owe one
  (`Owing`) at most as many as the grants, which a step can only keep by
  granting once or by paying one mail it owes.
- **Payout.** `IInv` adds to one open claim and conservation what a run knows
  of its claim: past the transfer, Stripe has sent it; past the audit, the row
  is there; a paid claim had both. `OneTransferForAClaim` follows from the keys.
  `PayoutIsAnAccount` (`Spec => Account!Spec`) adds `AmountInv`, no claim below the
  minimum: an amount set aside is never zero, so the account can tell whether
  there is one. `SeenSteps` leaves four actions an affiliate can see; a repeated
  event, a returned or already paid claim and a repeated transfer are stutters.
  That a claim is settled only after it was sent rests on `RunInv`.
- **Anchor.** `IInv` ties the number of ids to the chain, and, while the
  recorder was never revoked, a mined transaction to what it was to write.
  `CountUp` and `CountOne` are the arithmetic, `RecordSaleDoes` and `RevokeDoes`
  the contract's two functions that matter.

Only model-checked: the liveness properties (`AuthorizedWorkSettles`,
`DppFulfilledInTheEnd`, `OwedIsSent`, `ReceiptSettles`, and the fair half of
`ImplementsPaidSale`), since TLAPS proves nothing under fairness; and
`EffectInFlightSucceeds` and `RevokedLeaseReleased`, for the same reason. Of the
first, `LedgerIsDurable` proves the safe half: where the effect is logged no row
in flight can go anywhere but to success. The other three abstract specifications
have no fairness, so their refinement is proved whole.

## 5. Not modelled, and why

See `PROJECT.json` for the list with reasons. In short: pure I/O (mail,
scheduled jobs, clients), code of one request with no state across requests
(issuer, checkout gate, the reconciler's comparison), best-effort counters, and
the vendored and archived applications under `apps/` and `docs/archive/`, which
make up most of the lines of the repository. The branches of the webhook for
events that are not checkouts are one step, `WorkSucceeds` or `WorkFails`.

Of the components that are modelled in part:

- **Postgres continuity store.** Its `attempt`, `begin`, `complete` and
  `recordSideEffect` are called by the local replica drill alone
  (`docs/AUTONOMOUS_ACTION_LEDGER.md`). `recordSideEffect` adds the key to memory
  before it asks for a connection, outside the `try`: when that fails the key
  stays, and a second call says `duplicate` although nothing was inserted.
- **DPP fulfilment.** Demo sessions, loop events, a user id that has no profile.
- **Payout.** The apex webhook, which logs a failed accrual and goes on, so that
  the commission depends on Stripe's retry.
- **Next.js Stripe route.** Its claim of `stripe_events`, with a status the apex
  Worker does not know; and `creditReferral`, which may lose a grant written
  between its read and its write, and is not done again when it fails.
- **Anchoring.** The limit of 100 rows of a retry, batches, currencies the
  contract has no code for, the write-back to Stripe.
- **Second receiver.** The delegated DPP check, which writes nothing.
- **File continuity store.** The ledger with a snapshot after each commit.

## 6. Plan

What could come next, in this order:

1. An abstract specification of an anchored sale for `LedgerAnchor`, as four
   other components have one, and its refinement.
2. The side-effect keys of the Postgres store as a module of its own, once a
   production caller records effects through it.
3. `DppFulfillment` over `CreditAccount`, which `GrantsAreAtomic` allows, in place
   of counting grants.
4. The Next.js route: its claim beside the apex Worker's on the same rows, and
   `creditReferral` as one more writer of `Provisioning`.
