---------------------------- MODULE Provisioning ----------------------------
(***************************************************************************)
(* The credits of one buyer: provisionPurchase of src/lib/provisioning.ts, *)
(* with the spending of what it grants, checkCredit and deductCredit       *)
(* (src/lib/business-tier.ts) called by handleGeneratePost                 *)
(* (src/lib/generate-api.ts), and the second Stripe receiver               *)
(* workers/stripe-webhook.  The reward that the Next.js route adds to a    *)
(* referrer's limit (creditReferral) is left out.                          *)
(*                                                                         *)
(* Every caller of provisionPurchase passes the checkout session, so       *)
(* needsRead is always true.  Each request to Supabase is one step, and a  *)
(* request may fail before or after it takes effect.  The plan and status  *)
(* of a subscription, brands and timestamps are left out: no property here *)
(* depends on them.  PostgREST updates by id match no row when the profile *)
(* has another id: a guest's profile is not found by the user's id.        *)
(***************************************************************************)
EXTENDS Integers

CONSTANTS
    Sessions,      \* checkout sessions of the buyer
    Kind,          \* Kind[s]: "pack", "subscription", or "none" (no credits)
    Grant,         \* Grant[s]: the credits grantFor returns for s
    ById,          \* sessions that carry metadata.user_id
    Calls,         \* calls of provisionPurchase that may run at once
    EdgeCalls,     \* requests that workers/stripe-webhook may serve at once
    EdgeSessions,  \* sessions in that worker's price map
    Generations,   \* calls of handleGeneratePost that may run at once
    Balances,      \* <<generations_limit, generations_used>> of a new account
    Retries,       \* PROVISION_CAS_RETRIES
    Unlimited,     \* UNLIMITED_SENTINEL
    MaxDeliveries, \* bound: deliveries of the sessions to both receivers
    MaxGenerated,  \* bound: images generated
    MaxRefills,    \* bound: invoice.paid events
    None           \* a null column

ASSUME SessionsAssumption ==
    /\ Kind \in [Sessions -> {"pack", "subscription", "none"}]
    /\ Grant \in [Sessions -> Nat]
    /\ ById \subseteq Sessions
    /\ EdgeSessions \subseteq Sessions
    /\ None \notin Sessions

ASSUME NumbersAssumption ==
    /\ Balances \subseteq Nat \X Nat
    /\ Retries \in Nat
    /\ Unlimited \in Nat
    /\ {MaxDeliveries, MaxGenerated, MaxRefills} \subseteq Nat

VARIABLES
    profile,   \* the buyer's row of `profiles'
    call,      \* call[c]: a run of provisionPurchase
    edge,      \* edge[e]: a request to the second receiver
    spend,     \* spend[g]: a run of handleGeneratePost
    delivered, \* deliveries to both receivers
    generated, \* images returned to the buyer
    refills,   \* invoice.paid events served
    credited   \* credited[s]: writes of the grant of s, by either receiver

vars ==
    <<profile, call, edge, spend, delivered, generated, refills, credited>>

-----------------------------------------------------------------------------
(* The profile.                                                            *)

Profiles == [id: {"none", "user", "guest"}, limit: Nat, used: Nat,
             last: Sessions \cup {None}]

NoProfile == [id |-> "none", limit |-> 0, used |-> 0, last |-> None]
GuestProfile == [id |-> "guest", limit |-> 0, used |-> 0, last |-> None]

\* The row that `eq("id", profileId)' finds for the purchase s.
Visible(s) ==
    IF profile.id = "guest" /\ s \in ById THEN NoProfile ELSE profile

Positive(n) == IF n > 0 THEN n ELSE 0

Remaining(p) == Positive(p.limit - p.used)

\* hasUnlimitedPlan's sentinel, which packs and spending leave alone.
IsUnlimited(p) == p.limit >= Unlimited

SetCredits(p, limit, used) ==
    [id |-> p.id, limit |-> limit, used |-> used, last |-> p.last]

StackedPackCredits(p, pack) ==
    IF IsUnlimited(p)
    THEN p
    ELSE SetCredits(p, Remaining(p) + pack, 0)

\* A subscription, and the second receiver: the period grant, usage reset.
PeriodGrant(p, n) == SetCredits(p, n, 0)

\* last_grant_session_id.
Stamp(p, s) == [p EXCEPT !.last = s]

\* Mutated: last_grant_session_id is not written.
EntitledUnstamped(p, s) ==
    IF Kind[s] = "none" THEN p
    ELSE IF Kind[s] = "pack" THEN StackedPackCredits(p, Grant[s])
                             ELSE PeriodGrant(p, Grant[s])

\* The profile after the entitlement update of s, computed from the row p
\* that was read.
Entitled(p, s) ==
    IF Kind[s] = "none" THEN p
    ELSE Stamp(IF Kind[s] = "pack" THEN StackedPackCredits(p, Grant[s])
                                   ELSE PeriodGrant(p, Grant[s]), s)

IdleCall ==
    [pc |-> "idle", session |-> None, attempt |-> 0, seen |-> NoProfile]
IdleEdge == [pc |-> "idle", session |-> None]
IdleSpend == [pc |-> "idle", used |-> 0]

Init ==
    /\ profile \in
         {NoProfile} \cup
         {[id |-> "user", limit |-> b[1], used |-> b[2], last |-> None] :
            b \in Balances}
    /\ call = [c \in Calls |-> IdleCall]
    /\ edge = [e \in EdgeCalls |-> IdleEdge]
    /\ spend = [g \in Generations |-> IdleSpend]
    /\ delivered = 0
    /\ generated = 0
    /\ refills = 0
    /\ credited = [s \in Sessions |-> 0]

-----------------------------------------------------------------------------
(* provisionPurchase.                                                      *)

Finished == {"idle", "provisioned", "skipped", "upsert_failed"}

Move(c, pc) == call' = [call EXCEPT ![c].pc = pc]

Become(c, pc, s, attempt, seen) ==
    call' = [call EXCEPT ![c] = [pc |-> pc, session |-> s,
                                 attempt |-> attempt, seen |-> seen]]

\* The call returns: only its session and its status are left of it.
Return(c, status) ==
    Become(c, status, call[c].session, 0, NoProfile)

Credit(s) == credited' = [credited EXCEPT ![s] = @ + 1]

Receive ==
    /\ delivered < MaxDeliveries
    /\ delivered' = delivered + 1

\* A delivery of the event of s reaches provisionPurchase.
Deliver(c, s) ==
    /\ call[c].pc \in Finished
    /\ Receive
    /\ Become(c, IF s \in ById THEN "read" ELSE "lookup", s, 0, NoProfile)
    /\ UNCHANGED <<profile, edge, spend, generated, refills, credited>>

\* A request fails: the caller throws, so that Stripe delivers again.
RequestFails(c) ==
    /\ call[c].pc \in {"lookup", "insert", "read", "write"}
    /\ Return(c, "upsert_failed")
    /\ UNCHANGED <<profile, edge, spend, delivered, generated, refills,
                   credited>>

\* The profile of the buyer's email.
Lookup(c) ==
    /\ call[c].pc = "lookup"
    /\ Move(c, IF profile.id = "none" THEN "insert" ELSE "read")
    /\ UNCHANGED <<profile, edge, spend, delivered, generated, refills,
                   credited>>

\* A guest's profile.  The email is unique: when a profile has appeared
\* since the lookup, the insert fails.
InsertGuest(c) ==
    /\ call[c].pc = "insert"
    /\ IF profile.id = "none"
       THEN /\ profile' = GuestProfile
            /\ Move(c, "read")
       ELSE /\ Return(c, "upsert_failed")
            /\ UNCHANGED profile
    /\ UNCHANGED <<edge, spend, delivered, generated, refills, credited>>

\* The read at the head of each attempt: a session already granted stops.
ReadGrant(c) ==
    /\ call[c].pc = "read"
    /\ LET s == call[c].session
       IN IF Visible(s).last = s
          THEN Return(c, "skipped")
          ELSE Become(c, "write", s, call[c].attempt, Visible(s))
    /\ UNCHANGED <<profile, edge, spend, delivered, generated, refills,
                   credited>>

\* Mutated: CAS_COLUMNS without generations_used.
UnchangedSinceDespiteUse(p, seen) ==
    <<p.limit, p.last>> = <<seen.limit, seen.last>>

\* Mutated: CAS_COLUMNS without last_grant_session_id.
UnchangedSinceDespiteGrant(p, seen) ==
    <<p.limit, p.used>> = <<seen.limit, seen.used>>

\* The conditional update matches the row: CAS_COLUMNS are as they were read.
UnchangedSince(p, seen) ==
    <<p.limit, p.used, p.last>> = <<seen.limit, seen.used, seen.last>>

\* The conditional update lands.  Its answer may be lost.
WriteLands(c) ==
    LET s == call[c].session
        seen == call[c].seen
    IN /\ call[c].pc = "write"
       /\ seen.id # "none"
       /\ UnchangedSince(profile, seen)
       /\ profile' = Entitled(seen, s)
       /\ IF Kind[s] = "none" THEN UNCHANGED credited ELSE Credit(s)
       /\ \E pc \in {"provisioned", "upsert_failed"} : Return(c, pc)
       /\ UNCHANGED <<edge, spend, delivered, generated, refills>>

\* Mutated: one attempt too many.
AttemptsLeftOnceMore(c) == call[c].attempt <= Retries

AttemptsLeft(c) == call[c].attempt < Retries

\* Mutated: the number of rows written is not looked at.
WriteConflictsUnseen(c) ==
    /\ call[c].pc = "write"
    /\ call[c].seen.id # "none"
    /\ ~UnchangedSince(profile, call[c].seen)
    /\ Return(c, "provisioned")
    /\ UNCHANGED <<profile, edge, spend, delivered, generated, refills,
                   credited>>

\* It matches no row: read again, at most Retries times.
WriteConflicts(c) ==
    /\ call[c].pc = "write"
    /\ call[c].seen.id # "none"
    /\ ~UnchangedSince(profile, call[c].seen)
    /\ IF AttemptsLeft(c)
       THEN Become(c, "read", call[c].session, call[c].attempt + 1, NoProfile)
       ELSE Return(c, "upsert_failed")
    /\ UNCHANGED <<profile, edge, spend, delivered, generated, refills,
                   credited>>

\* No row was read.  The update is unconditional, matches no row, and is
\* reported as provisioned.
WriteWithoutRow(c) ==
    /\ call[c].pc = "write"
    /\ call[c].seen.id = "none"
    /\ Return(c, "provisioned")
    /\ UNCHANGED <<profile, edge, spend, delivered, generated, refills,
                   credited>>

-----------------------------------------------------------------------------
(* handleGeneratePost.                                                     *)

\* creditStatus.
HasCredit == profile.id = "user" /\ (IsUnlimited(profile)
                                     \/ profile.used < profile.limit)

MoveSpend(g, pc, used) ==
    spend' = [spend EXCEPT ![g] = [pc |-> pc, used |-> used]]

\* checkCredit; the image is then generated.
CheckCredit(g) ==
    /\ spend[g].pc = "idle"
    /\ HasCredit
    /\ generated < MaxGenerated
    /\ MoveSpend(g, "generating", 0)
    /\ UNCHANGED <<profile, call, edge, delivered, generated, refills,
                   credited>>

GenerateFails(g) ==
    /\ spend[g].pc = "generating"
    /\ MoveSpend(g, "idle", 0)
    /\ UNCHANGED <<profile, call, edge, delivered, generated, refills,
                   credited>>

\* The image exists; deductCredit reads the profile.  Without credit, or with
\* an unlimited plan, nothing is deducted.
DeductRead(g) ==
    /\ spend[g].pc = "generating"
    /\ generated < MaxGenerated
    /\ generated' = generated + 1
    /\ IF HasCredit /\ ~IsUnlimited(profile)
       THEN MoveSpend(g, "deducting", profile.used)
       ELSE MoveSpend(g, "idle", 0)
    /\ UNCHANGED <<profile, call, edge, delivered, refills, credited>>

\* The unconditional update of generations_used.
DeductWrite(g) ==
    /\ spend[g].pc = "deducting"
    /\ profile' = [profile EXCEPT !.used = spend[g].used + 1]
    /\ MoveSpend(g, "idle", 0)
    /\ UNCHANGED <<call, edge, delivered, generated, refills, credited>>

DeductFails(g) ==
    /\ spend[g].pc = "deducting"
    /\ MoveSpend(g, "idle", 0)
    /\ UNCHANGED <<profile, call, edge, delivered, generated, refills,
                   credited>>

-----------------------------------------------------------------------------
(* workers/stripe-webhook.                                                 *)

MoveEdge(e, pc, s) == edge' = [edge EXCEPT ![e] = [pc |-> pc, session |-> s]]

\* A delivery upserts the profile of the buyer's email.
EdgeDeliver(e, s) ==
    /\ edge[e].pc = "idle"
    /\ s \in EdgeSessions
    /\ Receive
    /\ profile' = IF profile.id = "none"
                  THEN GuestProfile ELSE profile
    /\ MoveEdge(e, "read", s)
    /\ UNCHANGED <<call, spend, generated, refills, credited>>

\* Any failed request answers 500.
EdgeFails(e) ==
    /\ edge[e].pc # "idle"
    /\ MoveEdge(e, "idle", None)
    /\ UNCHANGED <<profile, call, spend, delivered, generated, refills,
                   credited>>

\* grantReplayAction.
EdgeRead(e) ==
    /\ edge[e].pc = "read"
    /\ IF profile.last = edge[e].session
       THEN MoveEdge(e, "idle", None)
       ELSE MoveEdge(e, "write", edge[e].session)
    /\ UNCHANGED <<profile, call, spend, delivered, generated, refills,
                   credited>>

\* The unconditional update: set, never add.
EdgeWrite(e) ==
    LET s == edge[e].session
    IN /\ edge[e].pc = "write"
       /\ profile' = Stamp(PeriodGrant(profile, Grant[s]), s)
       /\ Credit(s)
       /\ MoveEdge(e, "idle", None)
       /\ UNCHANGED <<call, spend, delivered, generated, refills>>

\* invoice.paid of a subscription, matched by the Stripe customer alone: the
\* period grant once more, or before the session's own.  The row is taken to
\* carry the customer, which a guest's gets with its first update.
Refill(s) ==
    /\ EdgeCalls # {}
    /\ s \in EdgeSessions
    /\ Kind[s] = "subscription"
    /\ profile.id # "none"
    /\ refills < MaxRefills
    /\ refills' = refills + 1
    /\ profile' = PeriodGrant(profile, Grant[s])
    /\ UNCHANGED <<call, edge, spend, delivered, generated, credited>>

-----------------------------------------------------------------------------
CallStep(c) ==
    \/ \E s \in Sessions : Deliver(c, s)
    \/ RequestFails(c)
    \/ Lookup(c)
    \/ InsertGuest(c)
    \/ ReadGrant(c)
    \/ WriteLands(c)
    \/ WriteConflicts(c)
    \/ WriteWithoutRow(c)

SpendStep(g) ==
    \/ CheckCredit(g)
    \/ GenerateFails(g)
    \/ DeductRead(g)
    \/ DeductWrite(g)
    \/ DeductFails(g)

EdgeStep(e) ==
    \/ \E s \in Sessions : EdgeDeliver(e, s)
    \/ EdgeFails(e)
    \/ EdgeRead(e)
    \/ EdgeWrite(e)

Next ==
    \/ \E c \in Calls : CallStep(c)
    \/ \E g \in Generations : SpendStep(g)
    \/ \E e \in EdgeCalls : EdgeStep(e)
    \/ \E s \in Sessions : Refill(s)

Spec == Init /\ [][Next]_vars

-----------------------------------------------------------------------------
(* Properties.                                                             *)

CallStates == Finished \cup {"lookup", "insert", "read", "write"}

\* The variables have their types; a call makes at most Retries attempts more
\* than its first (provisioning.ts:199).
TypeOK ==
    /\ profile \in Profiles
    /\ call \in [Calls ->
         [pc: CallStates, session: Sessions \cup {None},
          attempt: 0..Retries, seen: Profiles]]
    /\ edge \in [EdgeCalls -> [pc: {"idle", "read", "write"},
                               session: Sessions \cup {None}]]
    /\ spend \in [Generations -> [pc: {"idle", "generating", "deducting"},
                                  used: Nat]]
    /\ {delivered, generated, refills} \subseteq Nat
    /\ credited \in [Sessions -> Nat]

\* A buyer known by email whose call reports success has the credits: the
\* grant of that session was written, by this call, by a concurrent delivery,
\* or by an earlier one whose answer was lost (provisioning.ts:222-240,
\* 295-297).
ProvisionedIsGranted ==
    \A c \in Calls :
        (/\ call[c].pc \in {"provisioned", "skipped"}
         /\ call[c].session \notin ById
         /\ Kind[call[c].session] # "none")
        => credited[call[c].session] > 0

\* A write of provisionPurchase lands in this step.
CallWrites(c) == call[c].pc = "write" /\ credited' # credited

\* A pack raises what the buyer has left by exactly its credits, whatever
\* grants and deductions ran between the read and the write of the call: the
\* lost-update guard of provisioning.ts:188-194.
PackAddsItsCredits ==
    [][\A c \in Calls :
         (/\ CallWrites(c)
          /\ call'[c].pc # "write"
          /\ Kind[call[c].session] = "pack"
          /\ ~IsUnlimited(profile))
         => Remaining(profile') = Remaining(profile) + Grant[call[c].session]
      ]_vars

\* Two deliveries of one session that run at once never both grant it: no
\* call writes over its own session's grant (provisioning.ts:193-194).
NoGrantOverItself ==
    [][\A c \in Calls :
         (CallWrites(c) /\ call'[c].pc # "write")
         => profile.last # call[c].session]_vars

\* What CreditAccount knows of the profile.
CreditsLeft(p) == IF IsUnlimited(p) THEN Unlimited ELSE Remaining(p)
CreditsGranted(p) == IF IsUnlimited(p) THEN Unlimited ELSE p.limit

Account == INSTANCE CreditAccount WITH
    left  <- CreditsLeft(profile),
    total <- CreditsGranted(profile),
    last  <- profile.last

\* The calls of provisionPurchase, with their reads, conflicts, retries and lost
\* answers, look to the account like grants made in one step each, and neither
\* the guest's insert nor an update that matches no row touches the credits
\* (provisioning.ts:188-240, 268-300).
ImplementsCreditAccount == Account!Spec

-----------------------------------------------------------------------------
(* What comments say and the code does not do.                             *)

\* "a session is never credited twice" (provisioning.ts:193-194).  The profile
\* remembers one session only: a delivery of a session repeated after the
\* grant of another one is credited again.
SessionCreditedOnce == \A s \in Sessions : credited[s] <= 1

\* "credits purchased in packs never expire" (provisioning.ts:91-93): with
\* packs alone, what a pack granted is left or was spent on images.  A
\* deduction that read generations_used before the grant writes the old usage
\* over the reset.
PackCreditsKept ==
    \A s \in Sessions :
        credited[s] = 1 => Remaining(profile) + generated >= Grant[s]

=============================================================================
