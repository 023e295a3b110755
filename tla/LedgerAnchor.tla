---------------------------- MODULE LedgerAnchor ----------------------------
(***************************************************************************)
(* The public anchor of one Stripe sale: anchorStripeSale and              *)
(* anchorStripeReversal of src/lib/ledger-service.ts, run by the Next.js   *)
(* webhook after its response, by scripts/ledger/backfill-stripe.ts and by *)
(* scripts/ledger/retry-pending.ts, several at a time and in different     *)
(* processes; the row of `ledger_receipts' they share; and the contract    *)
(* AuthiChainLedger.sol they write to.  Sales do not interact.             *)
(*                                                                         *)
(* supabase-js returns errors and none of these calls looks at them: a     *)
(* read that fails is a row that is not there, a write that fails did      *)
(* nothing.  The queue that serialises one process's transactions only     *)
(* takes behaviours away.  What is recorded of the sale, its transaction   *)
(* hash, the write-back to Stripe and currencies the contract has no code  *)
(* for are left out.                                                       *)
(***************************************************************************)
EXTENDS Integers

CONSTANTS
    Runs,          \* runs at one time of the two functions
    MaxRevocations \* bound on how often the owner revokes the recorder

ASSUME AnchorAssumption == MaxRevocations \in Nat

VARIABLES
    refunded,    \* Stripe has refunded or voided the sale
    receipt,     \* the row of ledger_receipts
    \* The contract.
    chain,       \* the sale under this stripeRef
    sales,       \* sale ids given to this stripeRef
    recorder,    \* isRecorder of the wallet
    revocations, \* times the owner has revoked it
    \* The runs.
    kind,        \* kind[r]: what run r writes to the contract
    at,          \* at[r]: what it does next
    sent,        \* sent[r]: its transaction that is not mined, or the receipt
                 \* it has not seen yet
    calm         \* no more failures

contract == <<chain, sales, recorder, revocations>>
runs == <<kind, at, sent>>
vars == <<refunded, receipt, contract, runs, calm>>

Kinds == {"sale", "reversal"}

Steps == {"idle", "lookup", "check", "upsert", "preflight", "send", "await", "settle",
          "unconfirmed", "fail"}

Init ==
    /\ refunded = FALSE
    /\ receipt = [status |-> "none", error |-> "none"]
    /\ chain = "none" /\ sales = 0
    /\ recorder = TRUE /\ revocations = 0
    /\ kind = [r \in Runs |-> "sale"]
    /\ at = [r \in Runs |-> "idle"]
    /\ sent = [r \in Runs |-> "none"]
    /\ calm = FALSE

Goto(r, step) == at' = [at EXCEPT ![r] = step]

\* A run starts once the last transaction of its slot has left the mempool.
Start(r, what, step) ==
    /\ at[r] = "idle" /\ sent[r] = "none"
    /\ kind' = [kind EXCEPT ![r] = what]
    /\ Goto(r, step)
    /\ UNCHANGED <<refunded, receipt, contract, sent, calm>>

-----------------------------------------------------------------------------
(* Stripe and the callers.                                                 *)

\* charge.refunded or invoice.voided.
Refund ==
    /\ ~refunded
    /\ refunded' = TRUE
    /\ UNCHANGED <<receipt, contract, runs, calm>>

\* The event of the payment, once or again, or the backfill.
StartAnchor(r) == Start(r, "sale", "check")

\* The event of the refund, once or again, or the backfill.
StartReversal(r) == refunded /\ Start(r, "reversal", "check")

\* Mutated: a row that failed is not listed.
ListsPending == receipt.status = "pending"

\* retry-pending lists rows that are pending or failed.
Lists == receipt.status \in {"pending", "failed"}

StartRetry(r) == Lists /\ Start(r, "sale", "lookup")

\* It looks for the listed sale on the chain before anchorStripeSale.
Lookup(r, answered) ==
    /\ at[r] = "lookup"
    /\ answered \/ ~calm
    /\ Goto(r, IF answered /\ chain # "none" THEN "settle" ELSE "check")
    /\ UNCHANGED <<refunded, receipt, contract, kind, sent, calm>>

-----------------------------------------------------------------------------
(* The receipt.                                                            *)

\* What run r reads of the row.
StatusRead(read) == IF read THEN receipt.status ELSE "none"

\* A sale is anchored unless its row says so already; a reversal needs a row
\* that does not say reversed.
Check(r, read) ==
    /\ at[r] = "check"
    /\ read \/ ~calm
    /\ LET status == StatusRead(read) IN
       Goto(r, IF kind[r] = "sale"
               THEN IF status \in {"anchored", "reversed"} THEN "idle" ELSE "upsert"
               ELSE IF status \in {"none", "reversed"} THEN "idle" ELSE "preflight")
    /\ UNCHANGED <<refunded, receipt, contract, kind, sent, calm>>

\* The pending row: inserted, or an existing one put back to pending.
Upsert(r, written) ==
    /\ at[r] = "upsert"
    /\ written \/ ~calm
    /\ receipt' = IF written THEN [receipt EXCEPT !.status = "pending"] ELSE receipt
    /\ Goto(r, "preflight")
    /\ UNCHANGED <<refunded, contract, kind, sent, calm>>

\* Mutated: the error of a failed anchor is not written.
OutcomeUnexplained(r) ==
    CASE at[r] = "settle" ->
            [status |-> IF kind[r] = "sale" THEN "anchored" ELSE "reversed",
             error |-> "none"]
      [] at[r] = "unconfirmed" ->
            [status |-> IF kind[r] = "sale" THEN "pending" ELSE "reversed",
             error |-> "confirmation timeout"]
      [] at[r] = "fail" ->
            [receipt EXCEPT !.status = IF kind[r] = "sale" THEN "failed" ELSE @]

\* The update that ends run r.  A reversal that fails leaves the status.
Outcome(r) ==
    CASE at[r] = "settle" ->
            [status |-> IF kind[r] = "sale" THEN "anchored" ELSE "reversed",
             error |-> "none"]
      [] at[r] = "unconfirmed" ->
            [status |-> IF kind[r] = "sale" THEN "pending" ELSE "reversed",
             error |-> "confirmation timeout"]
      [] at[r] = "fail" ->
            [status |-> IF kind[r] = "sale" THEN "failed" ELSE receipt.status,
             error |-> "other"]

\* The update matches nothing where there is no row.
Write(r, written) ==
    /\ at[r] \in {"settle", "unconfirmed", "fail"}
    /\ written \/ ~calm
    /\ receipt' = IF written /\ receipt.status # "none" THEN Outcome(r) ELSE receipt
    /\ Goto(r, "idle")
    /\ UNCHANGED <<refunded, contract, kind, sent, calm>>

-----------------------------------------------------------------------------
(* The chain as a run sees it.                                             *)

\* The contract already says what run r is about to write.
Written(r) == IF kind[r] = "sale" THEN chain # "none" ELSE chain = "reversed"

\* saleIdByRef, and saleByStripeRef for a reversal: what is there is not sent
\* again, and a sale that is not anchored cannot be reversed.
Preflight(r) ==
    /\ at[r] = "preflight"
    /\ Goto(r, CASE kind[r] = "reversal" /\ chain = "none" -> "idle"
                 [] Written(r) -> "settle"
                 [] OTHER -> "send")
    /\ UNCHANGED <<refunded, receipt, contract, kind, sent, calm>>

\* The transaction is sent, unless its gas estimate is refused.  The answer may
\* be lost.
Send(r, answered) ==
    /\ at[r] = "send"
    /\ answered \/ ~calm
    /\ sent' = [sent EXCEPT ![r] = IF recorder THEN kind[r] ELSE "none"]
    /\ Goto(r, IF recorder /\ answered THEN "await" ELSE "fail")
    /\ UNCHANGED <<refunded, receipt, contract, kind, calm>>

\* The receipt of the transaction; nobody asks whether it was reverted.
Confirmed(r) ==
    /\ at[r] = "await" /\ sent[r] = "mined"
    /\ sent' = [sent EXCEPT ![r] = "none"]
    /\ Goto(r, "settle")
    /\ UNCHANGED <<refunded, receipt, contract, kind, calm>>

\* Run r waits no longer; its transaction may still be mined.
StopWaiting(r) == sent' = [sent EXCEPT ![r] = IF @ = "mined" THEN "none" ELSE @]

\* Mutated: no receipt is taken for a receipt.
TimesOutSettled(r) ==
    /\ at[r] = "await"
    /\ ~calm \/ sent[r] = "none"
    /\ StopWaiting(r)
    /\ Goto(r, "settle")
    /\ UNCHANGED <<refunded, receipt, contract, kind, calm>>

\* waitForTransaction gives no receipt in time, or throws.
TimesOut(r) ==
    /\ at[r] = "await"
    /\ ~calm \/ sent[r] = "none"
    /\ StopWaiting(r)
    /\ Goto(r, "unconfirmed") \/ Goto(r, "fail")
    /\ UNCHANGED <<refunded, receipt, contract, kind, calm>>

\* The RPC endpoint fails before anything is sent.
RpcFails(r) ==
    /\ ~calm
    /\ at[r] \in {"preflight", "send"}
    /\ Goto(r, "fail")
    /\ UNCHANGED <<refunded, receipt, contract, kind, sent, calm>>

\* The platform ends the background work, or the script is stopped.
Crash(r) ==
    /\ ~calm
    /\ at[r] # "idle"
    /\ StopWaiting(r)
    /\ Goto(r, "idle")
    /\ UNCHANGED <<refunded, receipt, contract, kind, calm>>

-----------------------------------------------------------------------------
(* The contract and the mempool.                                           *)

\* Mutated: a replay of a stripeRef is another sale.
RecordSaleAgain ==
    IF recorder
    THEN chain' = "recorded" /\ sales' = sales + 1
    ELSE UNCHANGED <<chain, sales>>

\* recordSale: a replay of an anchored stripeRef changes nothing, and neither
\* does a caller that is no recorder.
RecordSale ==
    IF recorder /\ chain = "none"
    THEN chain' = "recorded" /\ sales' = sales + 1
    ELSE UNCHANGED <<chain, sales>>

RecordReversal ==
    /\ chain' = IF recorder /\ chain # "none" THEN "reversed" ELSE chain
    /\ UNCHANGED sales

\* The transaction of slot r is mined, whatever its run does by now.
Mine(r) ==
    /\ \/ sent[r] = "sale" /\ RecordSale
       \/ sent[r] = "reversal" /\ RecordReversal
    /\ sent' = [sent EXCEPT ![r] = IF at[r] = "await" THEN "mined" ELSE "none"]
    /\ UNCHANGED <<refunded, receipt, recorder, revocations, kind, at, calm>>

\* It is dropped, or replaced by another with the same nonce.
Drop(r) ==
    /\ ~calm
    /\ sent[r] \in Kinds
    /\ sent' = [sent EXCEPT ![r] = "none"]
    /\ UNCHANGED <<refunded, receipt, contract, kind, at, calm>>

\* setRecorder.
Revoke ==
    /\ ~calm
    /\ recorder /\ revocations < MaxRevocations
    /\ recorder' = FALSE
    /\ revocations' = revocations + 1
    /\ UNCHANGED <<refunded, receipt, chain, sales, runs, calm>>

Restore ==
    /\ ~recorder
    /\ recorder' = TRUE
    /\ UNCHANGED <<refunded, receipt, chain, sales, revocations, runs, calm>>

EndOfTrouble ==
    /\ ~calm /\ recorder
    /\ calm' = TRUE
    /\ UNCHANGED <<refunded, receipt, contract, runs>>

RunStep(r) ==
    \/ \E ok \in BOOLEAN :
          \/ Lookup(r, ok)
          \/ Check(r, ok)
          \/ Upsert(r, ok)
          \/ Send(r, ok)
          \/ Write(r, ok)
    \/ Preflight(r)
    \/ Confirmed(r)
    \/ TimesOut(r)

Next ==
    \/ \E r \in Runs :
          \/ StartAnchor(r) \/ StartReversal(r) \/ StartRetry(r)
          \/ RunStep(r) \/ RpcFails(r) \/ Crash(r)
          \/ Mine(r) \/ Drop(r)
    \/ Refund
    \/ Revoke \/ Restore
    \/ EndOfTrouble

Spec == Init /\ [][Next]_vars

\* Runs go on, transactions are mined, the recorder is restored, failures come
\* to an end, and retry-pending is run again and again: an operator does that,
\* no schedule in the repository.
Fairness ==
    /\ \A r \in Runs : WF_vars(RunStep(r)) /\ WF_vars(Mine(r))
    /\ SF_vars(\E r \in Runs : StartRetry(r))
    /\ WF_vars(Restore)
    /\ WF_vars(EndOfTrouble)

FairSpec == Spec /\ Fairness

-----------------------------------------------------------------------------
(* Properties.                                                             *)

\* The variables have their types; a receipt that failed says why.
TypeOK ==
    /\ refunded \in BOOLEAN
    /\ receipt \in [status: {"none", "pending", "anchored", "reversed", "failed"},
                    error: {"none", "confirmation timeout", "other"}]
    /\ receipt.status = "failed" => receipt.error = "other"
    /\ chain \in {"none", "recorded", "reversed"}
    /\ sales \in Nat
    /\ recorder \in BOOLEAN /\ revocations \in 0..MaxRevocations
    /\ kind \in [Runs -> Kinds]
    /\ at \in [Runs -> Steps]
    /\ sent \in [Runs -> Kinds \cup {"none", "mined"}]
    /\ calm \in BOOLEAN

\* A sale has one id on the chain, though two runs may both have found nothing
\* and sent it, and an unmined transaction is sent again (ledger-service.ts:
\* 150-154, 213-218); the id stays when the sale is reversed.
RecordedOnce == sales = IF chain = "none" THEN 0 ELSE 1

\* The public receipt page says no more than the chain does: an anchored or
\* reversed receipt has its sale on the chain, and a reversed one without the
\* note "confirmation timeout" or another error is reversed there.  It takes a
\* recorder that was never revoked: a reverted transaction has a receipt too,
\* and nobody looks at its status (ledger-service.ts:230-260).
ReceiptIsOnChain ==
    revocations = 0 =>
        /\ receipt.status \in {"anchored", "reversed"} => chain # "none"
        /\ receipt.status = "reversed" /\ receipt.error = "none" => chain = "reversed"

\* A pending or failed receipt is anchored or reversed in the end, through lost
\* answers, dropped transactions and runs cut short (retry-pending.ts:4-6).  It
\* need not stay so while runs go on: one that has read the row before puts it
\* back to pending, which lets a third one do the same to the second.
ReceiptSettles ==
    receipt.status \in {"pending", "failed"} ~> receipt.status \in {"anchored", "reversed"}
=============================================================================
