-------------------------- MODULE ProvisioningProofs --------------------------
(***************************************************************************)
(* Safety of Provisioning for any number of sessions, calls and receivers. *)
(* What makes the conditional write safe is what the call knows when it    *)
(* tries: the row it read was not granted to its own session, and a write  *)
(* that lands finds the columns as they were read.                         *)
(***************************************************************************)
EXTENDS Provisioning, TLAPS

\* A call past its lookup that knows no user id has a profile to grant to.
CallOK(c) ==
    /\ call[c].pc # "idle" => call[c].session \in Sessions
    /\ call[c].pc \in {"read", "write"} /\ call[c].session \notin ById
         => profile.id # "none"
    /\ call[c].pc = "write" /\ call[c].seen.id = "none"
         => call[c].session \in ById
    /\ call[c].pc = "write" /\ call[c].seen.id # "none"
         => call[c].seen.last # call[c].session

EdgeOK(e) == edge[e].pc # "idle" => edge[e].session \in Sessions

\* The session that the profile remembers was credited.
LastIsCredited == profile.last # None => credited[profile.last] > 0

IInv ==
    /\ TypeOK
    /\ \A c \in Calls : CallOK(c)
    /\ \A e \in EdgeCalls : EdgeOK(e)
    /\ LastIsCredited
    /\ ProvisionedIsGranted

-----------------------------------------------------------------------------
(* What the operators on profiles return.                                  *)

LEMMA RemainingInNat ==
    ASSUME NEW p \in Profiles
    PROVE  Remaining(p) \in Nat
BY DEF Profiles, Remaining, Positive

LEMMA EntitledType ==
    ASSUME NEW p \in Profiles, NEW s \in Sessions
    PROVE  /\ Entitled(p, s) \in Profiles
           /\ Entitled(p, s).id = p.id
           /\ Kind[s] = "none" => Entitled(p, s) = p
           /\ Kind[s] # "none" => Entitled(p, s).last = s
<1>1. Grant[s] \in Nat /\ Remaining(p) \in Nat
  BY SessionsAssumption, RemainingInNat
<1>2. /\ StackedPackCredits(p, Grant[s]) \in Profiles
      /\ StackedPackCredits(p, Grant[s]).id = p.id
  BY <1>1 DEF StackedPackCredits, SetCredits, Profiles
<1>3. /\ PeriodGrant(p, Grant[s]) \in Profiles
      /\ PeriodGrant(p, Grant[s]).id = p.id
  BY <1>1 DEF PeriodGrant, SetCredits, Profiles
<1>4. ASSUME NEW q \in Profiles, q.id = p.id
      PROVE  /\ Stamp(q, s) \in Profiles
             /\ Stamp(q, s).id = p.id
             /\ Stamp(q, s).last = s
  BY <1>4 DEF Stamp, Profiles
<1>5. CASE Kind[s] = "none"
  BY <1>5 DEF Entitled
<1>6. CASE Kind[s] = "pack"
  <2>1. Entitled(p, s) = Stamp(StackedPackCredits(p, Grant[s]), s)
    BY <1>6 DEF Entitled
  <2>2. QED
    BY <1>2, <1>4, <1>6, <2>1
<1>7. CASE Kind[s] \notin {"none", "pack"}
  <2>1. Entitled(p, s) = Stamp(PeriodGrant(p, Grant[s]), s)
    BY <1>7 DEF Entitled
  <2>2. QED
    BY <1>3, <1>4, <1>7, <2>1
<1>8. QED
  BY <1>5, <1>6, <1>7

\* A pack computed from a row adds its credits to what the row has left.
LEMMA PackStacks ==
    ASSUME NEW p \in Profiles, NEW s \in Sessions, Kind[s] = "pack",
           ~IsUnlimited(p)
    PROVE  Remaining(Entitled(p, s)) = Remaining(p) + Grant[s]
<1>1. Grant[s] \in Nat /\ Remaining(p) \in Nat
  BY SessionsAssumption, RemainingInNat
<1>2. Entitled(p, s) = Stamp(StackedPackCredits(p, Grant[s]), s)
  BY DEF Entitled
<1>3. /\ Entitled(p, s).limit = Remaining(p) + Grant[s]
      /\ Entitled(p, s).used = 0
  BY <1>1, <1>2 DEF Stamp, StackedPackCredits, SetCredits, Profiles
<1>4. QED
  BY <1>1, <1>3 DEF Remaining, Positive

\* The row found by an id is the profile or none.
LEMMA VisibleProfile ==
    ASSUME TypeOK, NEW s \in Sessions
    PROVE  /\ Visible(s) \in Profiles
           /\ Visible(s) = profile \/ Visible(s).id = "none"
           /\ s \notin ById => Visible(s) = profile
BY DEF TypeOK, Visible, NoProfile, Profiles

-----------------------------------------------------------------------------
(* The invariant.  Each lemma says what the steps of one actor keep.       *)

LEMMA InitIInv == Init => IInv
<1> SUFFICES ASSUME Init PROVE IInv
  OBVIOUS
<1>1. NoProfile \in Profiles
  BY DEF NoProfile, Profiles
<1>2. profile \in Profiles /\ profile.last = None
  BY NumbersAssumption DEF Init, NoProfile, Profiles
<1>3. call \in [Calls ->
         [pc: CallStates, session: Sessions \cup {None},
          attempt: 0..Retries, seen: Profiles]]
  BY <1>1, NumbersAssumption DEF Init, IdleCall, CallStates, Finished
<1>4. /\ edge \in [EdgeCalls -> [pc: {"idle", "read", "write"},
                                 session: Sessions \cup {None}]]
      /\ spend \in [Generations -> [pc: {"idle", "generating", "deducting"},
                                    used: Nat]]
  BY DEF Init, IdleEdge, IdleSpend
<1>5. TypeOK
  BY <1>2, <1>3, <1>4 DEF Init, TypeOK
<1>6. \A c \in Calls : CallOK(c)
  BY DEF Init, IdleCall, CallOK
<1>7. \A e \in EdgeCalls : EdgeOK(e)
  BY DEF Init, IdleEdge, EdgeOK
<1>8. ProvisionedIsGranted
  BY DEF Init, IdleCall, ProvisionedIsGranted
<1>9. QED
  BY <1>2, <1>5, <1>6, <1>7, <1>8 DEF IInv, LastIsCredited

\* A call moves.  It may write the profile, which does not vanish, and add
\* credits.
LEMMA CallMoves ==
    ASSUME IInv, NEW c \in Calls, NEW pc \in CallStates,
           NEW s \in Sessions, NEW n \in 0..Retries, NEW seen \in Profiles,
           Become(c, pc, s, n, seen),
           UNCHANGED <<edge, spend, generated, refills>>,
           delivered' \in Nat,
           profile' \in Profiles, credited' \in [Sessions -> Nat],
           profile.id # "none" => profile'.id # "none",
           \A r \in Sessions : credited[r] > 0 => credited'[r] > 0,
           LastIsCredited',
           pc \in {"read", "write"} /\ s \notin ById => profile'.id # "none",
           pc = "write" /\ seen.id = "none" => s \in ById,
           pc = "write" /\ seen.id # "none" => seen.last # s,
           (pc \in {"provisioned", "skipped"} /\ s \notin ById
             /\ Kind[s] # "none") => credited'[s] > 0
    PROVE  IInv'
<1>1. TypeOK'
  BY DEF IInv, TypeOK, Become
<1>2. \A d \in Calls : CallOK(d)'
  BY DEF IInv, TypeOK, CallOK, Become
<1>3. \A e \in EdgeCalls : EdgeOK(e)'
  BY DEF IInv, EdgeOK
<1>4. ProvisionedIsGranted'
  <2> SUFFICES ASSUME NEW d \in Calls,
                      call'[d].pc \in {"provisioned", "skipped"},
                      call'[d].session \notin ById,
                      Kind[call'[d].session] # "none"
               PROVE  credited'[call'[d].session] > 0
    BY DEF ProvisionedIsGranted
  <2>1. CASE d = c
    BY <2>1 DEF IInv, TypeOK, Become
  <2>2. CASE d # c
    <3>1. call'[d] = call[d]
      BY <2>2 DEF IInv, TypeOK, Become
    <3>2. call[d].session \in Sessions
      BY <3>1 DEF IInv, CallOK
    <3>3. QED
      BY <3>1, <3>2 DEF IInv, ProvisionedIsGranted
  <2>3. QED
    BY <2>1, <2>2
<1>5. QED
  BY <1>1, <1>2, <1>3, <1>4 DEF IInv

\* A call moves and writes nothing.
LEMMA CallOnly ==
    ASSUME IInv, NEW c \in Calls, NEW pc \in CallStates,
           NEW s \in Sessions, NEW n \in 0..Retries, NEW seen \in Profiles,
           Become(c, pc, s, n, seen),
           UNCHANGED <<profile, edge, spend, generated, refills, credited>>,
           delivered' \in Nat,
           pc \in {"read", "write"} /\ s \notin ById => profile.id # "none",
           pc = "write" /\ seen.id = "none" => s \in ById,
           pc = "write" /\ seen.id # "none" => seen.last # s,
           (pc \in {"provisioned", "skipped"} /\ s \notin ById
             /\ Kind[s] # "none") => credited[s] > 0
    PROVE  IInv'
<1>1. profile' \in Profiles /\ credited' \in [Sessions -> Nat]
  BY DEF IInv, TypeOK
<1>2. LastIsCredited'
  BY DEF IInv, LastIsCredited
<1>3. QED
  BY <1>1, <1>2, CallMoves

\* The profile or the credits change and no call moves: a profile does not
\* vanish, and credits are not taken back.
LEMMA ProfileMoves ==
    ASSUME IInv, TypeOK', UNCHANGED call,
           profile.id # "none" => profile'.id # "none",
           \A s \in Sessions : credited[s] > 0 => credited'[s] > 0,
           LastIsCredited', \A e \in EdgeCalls : EdgeOK(e)'
    PROVE  IInv'
<1>1. \A d \in Calls : CallOK(d)'
  BY DEF IInv, TypeOK, CallOK
<1>2. ProvisionedIsGranted'
  <2>1. ASSUME NEW d \in Calls, call[d].pc \in {"provisioned", "skipped"},
               call[d].session \notin ById, Kind[call[d].session] # "none",
               call[d].session \in Sessions
        PROVE  credited'[call[d].session] > 0
    BY <2>1 DEF IInv, ProvisionedIsGranted
  <2>2. QED
    BY <2>1 DEF IInv, TypeOK, CallOK, ProvisionedIsGranted
<1>3. QED
  BY <1>1, <1>2 DEF IInv

\* What a step needs to know of the call that takes it.
LEMMA CallType ==
    ASSUME IInv, NEW c \in Calls, call[c].pc # "idle"
    PROVE  /\ call[c].session \in Sessions
           /\ call[c].attempt \in 0..Retries
           /\ call[c].seen \in Profiles
           /\ NoProfile \in Profiles
           /\ 0 \in 0..Retries
           /\ delivered \in Nat
           /\ Finished \subseteq CallStates
BY NumbersAssumption
DEF IInv, CallOK, TypeOK, NoProfile, Profiles, CallStates

\* A call that returns without having written.
LEMMA CallReturns ==
    ASSUME IInv, NEW c \in Calls, call[c].pc # "idle", NEW pc \in Finished,
           Return(c, pc), delivered' = delivered,
           UNCHANGED <<profile, edge, spend, generated, refills, credited>>,
           (pc \in {"provisioned", "skipped"} /\ call[c].session \notin ById
             /\ Kind[call[c].session] # "none")
             => credited[call[c].session] > 0
    PROVE  IInv'
<1>1. pc \in CallStates /\ pc \notin {"read", "write"}
  BY DEF CallStates, Finished
<1>2. QED
  BY <1>1, CallType, CallOnly DEF Return

\* A write that lands finds the profile as the call read it, up to its id.
LEMMA WriteLandsKeeps ==
    ASSUME IInv, NEW c \in Calls, WriteLands(c)
    PROVE  IInv'
<1> DEFINE s == call[c].session
           seen == call[c].seen
<1>1. /\ s \in Sessions /\ seen \in Profiles
      /\ NoProfile \in Profiles /\ 0 \in 0..Retries
      /\ delivered' \in Nat
      /\ seen.id # "none"
  BY CallType DEF WriteLands
<1>2. /\ profile' \in Profiles
      /\ profile'.id # "none"
      /\ Kind[s] = "none" => profile'.last = profile.last
      /\ Kind[s] # "none" => profile'.last = s
  BY <1>1, EntitledType DEF WriteLands, UnchangedSince
<1>3. /\ credited' \in [Sessions -> Nat]
      /\ \A r \in Sessions : credited[r] > 0 => credited'[r] > 0
      /\ Kind[s] # "none" => credited'[s] > 0
      /\ Kind[s] = "none" => credited' = credited
  BY <1>1 DEF WriteLands, Credit, IInv, TypeOK
<1>4. LastIsCredited'
  BY <1>1, <1>2, <1>3 DEF IInv, LastIsCredited, TypeOK, Profiles
<1>5. PICK pc \in {"provisioned", "upsert_failed"} : Return(c, pc)
  BY DEF WriteLands
<1>6. pc \in CallStates /\ Become(c, pc, s, 0, NoProfile)
  BY <1>5 DEF Return, CallStates, Finished
<1>7. QED
  BY <1>1, <1>2, <1>3, <1>4, <1>6, CallMoves DEF WriteLands

\* A move to another state leaves the rest of the call.
LEMMA MoveKeepsTheRest ==
    ASSUME IInv, NEW c \in Calls, NEW pc, Move(c, pc)
    PROVE  Become(c, pc, call[c].session, call[c].attempt, call[c].seen)
<1> DEFINE r == [pc |-> pc, session |-> call[c].session,
                 attempt |-> call[c].attempt, seen |-> call[c].seen]
<1>1. /\ call \in [Calls -> [pc: CallStates, session: Sessions \cup {None},
                             attempt: 0..Retries, seen: Profiles]]
      /\ call[c] \in [pc: CallStates, session: Sessions \cup {None},
                      attempt: 0..Retries, seen: Profiles]
  BY DEF IInv, TypeOK
<1>2. [call[c] EXCEPT !.pc = pc] = r
  BY <1>1
<1>3. call' = [call EXCEPT ![c] = [call[c] EXCEPT !.pc = pc]]
  BY DEF Move
<1>4. call' = [call EXCEPT ![c] = r]
  BY <1>2, <1>3
<1>5. QED
  BY <1>4 DEF Become

LEMMA CallSteps ==
    ASSUME IInv, NEW c \in Calls, CallStep(c)
    PROVE  IInv'
<1>1. ASSUME NEW s \in Sessions, Deliver(c, s)
      PROVE  IInv'
  <2>1. /\ NoProfile \in Profiles /\ 0 \in 0..Retries
        /\ {"read", "lookup"} \subseteq CallStates
        /\ delivered \in Nat
    BY NumbersAssumption
    DEF IInv, TypeOK, NoProfile, Profiles, CallStates
  <2>2. delivered' \in Nat
    BY <1>1, <2>1 DEF Deliver, Receive
  <2>3. CASE s \in ById
    <3>1. Become(c, "read", s, 0, NoProfile)
      BY <1>1, <2>3 DEF Deliver
    <3>2. QED
      BY <1>1, <2>1, <2>2, <2>3, <3>1, CallOnly DEF Deliver
  <2>4. CASE s \notin ById
    <3>1. Become(c, "lookup", s, 0, NoProfile)
      BY <1>1, <2>4 DEF Deliver
    <3>2. QED
      BY <1>1, <2>1, <2>2, <3>1, CallOnly DEF Deliver
  <2>5. QED
    BY <2>3, <2>4
<1>2. CASE RequestFails(c)
  BY <1>2, CallReturns DEF RequestFails, Finished
<1>3. CASE Lookup(c)
  <2>1. /\ call[c].pc = "lookup"
        /\ call[c].session \in Sessions
        /\ call[c].attempt \in 0..Retries
        /\ call[c].seen \in Profiles
        /\ delivered' \in Nat
    BY <1>3, CallType DEF Lookup
  <2>3. CASE profile.id = "none"
    <3>1. Become(c, "insert", call[c].session, call[c].attempt, call[c].seen)
      BY <1>3, <2>3, MoveKeepsTheRest DEF Lookup
    <3>2. "insert" \in CallStates
      BY DEF CallStates
    <3>3. QED
      BY <1>3, <2>1, <3>1, <3>2, CallOnly DEF Lookup
  <2>4. CASE profile.id # "none"
    <3>1. Become(c, "read", call[c].session, call[c].attempt, call[c].seen)
      BY <1>3, <2>4, MoveKeepsTheRest DEF Lookup
    <3>2. "read" \in CallStates
      BY DEF CallStates
    <3>3. QED
      BY <1>3, <2>1, <2>4, <3>1, <3>2, CallOnly DEF Lookup
  <2>5. QED
    BY <2>3, <2>4
<1>4. CASE InsertGuest(c)
  <2>1. CASE profile.id = "none"
    <3>1. /\ call[c].session \in Sessions
          /\ call[c].attempt \in 0..Retries
          /\ call[c].seen \in Profiles
          /\ delivered' \in Nat
          /\ call[c].pc = "insert"
          /\ "read" \in CallStates
      BY <1>4, CallType DEF InsertGuest, CallStates
    <3>3. Become(c, "read", call[c].session, call[c].attempt, call[c].seen)
      BY <1>4, <2>1, MoveKeepsTheRest DEF InsertGuest
    <3>4. profile' \in Profiles /\ profile'.id = "guest"
          /\ profile'.last = None
      BY <1>4, <2>1 DEF InsertGuest, GuestProfile, Profiles
    <3>5. LastIsCredited'
      BY <3>4 DEF LastIsCredited
    <3>6. credited' = credited /\ credited' \in [Sessions -> Nat]
      BY <1>4 DEF InsertGuest, IInv, TypeOK
    <3>7. QED
      BY <1>4, <3>1, <3>3, <3>4, <3>5, <3>6, CallMoves DEF InsertGuest
  <2>2. CASE profile.id # "none"
    BY <1>4, <2>2, CallReturns DEF InsertGuest, Finished
  <2>3. QED
    BY <2>1, <2>2
<1>5. CASE ReadGrant(c)
  <2> DEFINE s == call[c].session
  <2>1. /\ s \in Sessions
        /\ call[c].attempt \in 0..Retries
        /\ delivered' \in Nat
        /\ call[c].pc = "read"
        /\ "write" \in CallStates
    BY <1>5, CallType DEF ReadGrant, CallStates
  <2>2. /\ Visible(s) \in Profiles
        /\ Visible(s) = profile \/ Visible(s).id = "none"
        /\ s \notin ById => Visible(s) = profile
    BY <2>1, VisibleProfile DEF IInv
  <2>3. CASE Visible(s).last = s
    <3>1. s \notin ById => credited[s] > 0
      BY <2>1, <2>2, <2>3, SessionsAssumption DEF IInv, LastIsCredited
    <3>2. QED
      BY <1>5, <2>1, <2>3, <3>1, CallReturns DEF ReadGrant, Finished
  <2>4. CASE Visible(s).last # s
    <3>1. Become(c, "write", s, call[c].attempt, Visible(s))
      BY <1>5, <2>4 DEF ReadGrant
    <3>2. Visible(s).id = "none" => s \in ById
      BY <2>1, <2>2 DEF IInv, CallOK
    <3>3. QED
      BY <1>5, <2>1, <2>2, <2>4, <3>1, <3>2, CallOnly DEF ReadGrant
  <2>5. QED
    BY <2>3, <2>4
<1>6. CASE WriteLands(c)
  BY <1>6, WriteLandsKeeps
<1>7. CASE WriteConflicts(c)
  <2>1. CASE AttemptsLeft(c)
    <3>1. /\ call[c].session \in Sessions
          /\ call[c].attempt + 1 \in 0..Retries
          /\ NoProfile \in Profiles
          /\ delivered' \in Nat
          /\ call[c].pc = "write"
          /\ call[c].seen.id # "none"
          /\ "read" \in CallStates
      BY <1>7, <2>1, CallType, NumbersAssumption
      DEF WriteConflicts, CallStates, AttemptsLeft
    <3>2. Become(c, "read", call[c].session, call[c].attempt + 1, NoProfile)
      BY <1>7, <2>1 DEF WriteConflicts
    <3>3. call[c].session \notin ById => profile.id # "none"
      BY <3>1 DEF IInv, CallOK
    <3>4. QED
      BY <1>7, <3>1, <3>2, <3>3, CallOnly DEF WriteConflicts
  <2>2. CASE ~AttemptsLeft(c)
    BY <1>7, <2>2, CallReturns DEF WriteConflicts, Finished
  <2>3. QED
    BY <2>1, <2>2
<1>8. CASE WriteWithoutRow(c)
  <2>1. call[c].session \in ById
    BY <1>8 DEF WriteWithoutRow, IInv, CallOK
  <2>2. QED
    BY <1>8, <2>1, CallReturns DEF WriteWithoutRow, Finished
<1>9. QED
  BY <1>1, <1>2, <1>3, <1>4, <1>5, <1>6, <1>7, <1>8 DEF CallStep

\* What the steps of the other actors write to the profile.
LEMMA SpendSteps ==
    ASSUME IInv, NEW g \in Generations, SpendStep(g)
    PROVE  IInv'
<1>1. /\ UNCHANGED <<call, edge, credited, delivered, refills>>
      /\ generated' \in Nat
  BY DEF IInv, TypeOK, SpendStep, CheckCredit, GenerateFails, DeductRead,
         DeductWrite, DeductFails
<1>2. /\ spend' \in [Generations -> [pc: {"idle", "generating", "deducting"},
                                     used: Nat]]
      /\ profile' \in Profiles
      /\ profile'.id = profile.id
      /\ profile'.last = profile.last
  <2>1. /\ spend \in [Generations -> [pc: {"idle", "generating", "deducting"},
                                      used: Nat]]
        /\ profile \in Profiles
    BY DEF IInv, TypeOK
  <2>2. CASE CheckCredit(g)
    BY <2>1, <2>2 DEF CheckCredit, MoveSpend
  <2>3. CASE GenerateFails(g)
    BY <2>1, <2>3 DEF GenerateFails, MoveSpend
  <2>4. CASE DeductRead(g)
    <3>1. profile.used \in Nat
      BY <2>1 DEF Profiles
    <3>2. QED
      BY <2>1, <2>4, <3>1 DEF DeductRead, MoveSpend
  <2>5. CASE DeductWrite(g)
    BY <2>1, <2>5 DEF DeductWrite, MoveSpend, Profiles
  <2>6. CASE DeductFails(g)
    BY <2>1, <2>6 DEF DeductFails, MoveSpend
  <2>7. QED
    BY <2>2, <2>3, <2>4, <2>5, <2>6 DEF SpendStep
<1>3. TypeOK'
  BY <1>1, <1>2 DEF IInv, TypeOK
<1>4. LastIsCredited' /\ \A e \in EdgeCalls : EdgeOK(e)'
  BY <1>1, <1>2 DEF IInv, LastIsCredited, EdgeOK
<1>5. QED
  BY <1>1, <1>2, <1>3, <1>4, ProfileMoves

LEMMA EdgeSteps ==
    ASSUME IInv, NEW e \in EdgeCalls, EdgeStep(e)
    PROVE  IInv'
<1>1. /\ profile \in Profiles
      /\ edge \in [EdgeCalls -> [pc: {"idle", "read", "write"},
                                 session: Sessions \cup {None}]]
      /\ credited \in [Sessions -> Nat]
      /\ delivered \in Nat
  BY DEF IInv, TypeOK
<1>2. ASSUME NEW s \in Sessions, EdgeDeliver(e, s)
      PROVE  IInv'
  <2>1. /\ profile' \in Profiles
        /\ profile.id # "none" => profile' = profile
        /\ profile.id = "none" => profile'.last = None
        /\ profile'.id # "none"
    BY <1>1, <1>2 DEF EdgeDeliver, GuestProfile, Profiles
  <2>2. /\ edge' \in [EdgeCalls -> [pc: {"idle", "read", "write"},
                                    session: Sessions \cup {None}]]
        /\ \A f \in EdgeCalls : EdgeOK(f)'
    BY <1>1, <1>2 DEF EdgeDeliver, MoveEdge, IInv, EdgeOK
  <2>3. TypeOK'
    BY <1>1, <1>2, <2>1, <2>2 DEF EdgeDeliver, Receive, IInv, TypeOK
  <2>4. LastIsCredited'
    BY <1>2, <2>1 DEF EdgeDeliver, IInv, LastIsCredited
  <2>5. QED
    BY <1>2, <2>1, <2>2, <2>3, <2>4, ProfileMoves DEF EdgeDeliver
<1>3. CASE EdgeFails(e) \/ EdgeRead(e)
  <2>1. UNCHANGED <<profile, call, spend, delivered, generated, refills,
                    credited>>
    BY <1>3 DEF EdgeFails, EdgeRead
  <2>2. /\ edge' \in [EdgeCalls -> [pc: {"idle", "read", "write"},
                                    session: Sessions \cup {None}]]
        /\ \A f \in EdgeCalls : EdgeOK(f)'
    BY <1>1, <1>3 DEF EdgeFails, EdgeRead, MoveEdge, IInv, EdgeOK
  <2>3. TypeOK' /\ LastIsCredited'
    BY <2>1, <2>2 DEF IInv, TypeOK, LastIsCredited
  <2>4. QED
    BY <2>1, <2>2, <2>3, ProfileMoves
<1>4. CASE EdgeWrite(e)
  <2> DEFINE s == edge[e].session
  <2>1. s \in Sessions /\ Grant[s] \in Nat
    BY <1>4, SessionsAssumption DEF EdgeWrite, IInv, EdgeOK
  <2>2. /\ profile' \in Profiles
        /\ profile'.id = profile.id
        /\ profile'.last = s
    BY <1>1, <1>4, <2>1 DEF EdgeWrite, Stamp, PeriodGrant, SetCredits, Profiles
  <2>3. /\ credited' \in [Sessions -> Nat]
        /\ \A r \in Sessions : credited[r] > 0 => credited'[r] > 0
        /\ credited'[s] > 0
    BY <1>1, <1>4, <2>1 DEF EdgeWrite, Credit
  <2>4. /\ edge' \in [EdgeCalls -> [pc: {"idle", "read", "write"},
                                    session: Sessions \cup {None}]]
        /\ \A f \in EdgeCalls : EdgeOK(f)'
    BY <1>1, <1>4 DEF EdgeWrite, MoveEdge, IInv, EdgeOK
  <2>5. TypeOK'
    BY <1>4, <2>2, <2>3, <2>4 DEF EdgeWrite, IInv, TypeOK
  <2>6. LastIsCredited'
    BY <2>2, <2>3 DEF LastIsCredited
  <2>7. QED
    BY <1>4, <2>2, <2>3, <2>4, <2>5, <2>6, ProfileMoves DEF EdgeWrite
<1>5. QED
  BY <1>2, <1>3, <1>4 DEF EdgeStep

LEMMA RefillStep ==
    ASSUME IInv, NEW s \in Sessions, Refill(s)
    PROVE  IInv'
<1>1. Grant[s] \in Nat
  BY SessionsAssumption
<1>2. /\ profile' \in Profiles
      /\ profile'.id = profile.id
      /\ profile'.last = profile.last
  BY <1>1 DEF Refill, PeriodGrant, SetCredits, Profiles, IInv, TypeOK
<1>3. TypeOK'
  BY <1>2 DEF Refill, IInv, TypeOK
<1>4. LastIsCredited' /\ \A e \in EdgeCalls : EdgeOK(e)'
  BY <1>2 DEF Refill, IInv, LastIsCredited, EdgeOK
<1>5. QED
  BY <1>2, <1>3, <1>4, ProfileMoves DEF Refill

LEMMA NextIInv == IInv /\ [Next]_vars => IInv'
<1>1. ASSUME IInv, Next
      PROVE  IInv'
  BY <1>1, CallSteps, SpendSteps, EdgeSteps, RefillStep DEF Next
<1>2. ASSUME IInv, UNCHANGED vars
      PROVE  IInv'
  BY <1>2 DEF vars, IInv, TypeOK, CallOK, EdgeOK, LastIsCredited,
              ProvisionedIsGranted
<1>3. QED
  BY <1>1, <1>2

THEOREM ProvisioningInvariance == Spec => []IInv
BY InitIInv, NextIInv, PTL DEF Spec

-----------------------------------------------------------------------------
(* The theorems.                                                           *)

\* Every reachable state has the types, and no call tries more often than
\* Retries allows (provisioning.ts:199).
THEOREM ProvisioningTypeCorrect == Spec => []TypeOK
BY ProvisioningInvariance, PTL DEF IInv

\* A call that reports success to a buyer known by email has the credits
\* written: by itself or by the delivery it found (provisioning.ts:222-240).
THEOREM ProvisionedGranted == Spec => []ProvisionedIsGranted
BY ProvisioningInvariance, PTL DEF IInv

\* A step in which a call writes credits is its conditional update landing.
LEMMA OnlyLandedWrites ==
    ASSUME IInv, [Next]_vars, NEW c \in Calls, CallWrites(c),
           call'[c].pc # "write"
    PROVE  WriteLands(c) /\ Kind[call[c].session] # "none"
<1>1. Next
  BY DEF vars, CallWrites
<1>2. call \in [Calls -> [pc: CallStates, session: Sessions \cup {None},
                          attempt: 0..Retries, seen: Profiles]]
  BY DEF IInv, TypeOK
<1>3. call' # call
  BY DEF CallWrites
<1>4. PICK d \in Calls : WriteLands(d)
  BY <1>1, <1>3
  DEF CallWrites, Next, CallStep, SpendStep, EdgeStep, Deliver, RequestFails,
      Lookup, InsertGuest, ReadGrant, WriteConflicts, WriteWithoutRow,
      CheckCredit, GenerateFails, DeductRead, DeductWrite, DeductFails,
      EdgeDeliver, EdgeFails, EdgeRead, EdgeWrite, Refill
<1>5. d = c
  BY <1>2, <1>4 DEF WriteLands, Return, Become, CallWrites
<1>6. QED
  BY <1>4, <1>5 DEF WriteLands, CallWrites

\* No call writes over the grant of its own session: deliveries of one session
\* that run at once grant it once (provisioning.ts:193-194).
THEOREM NotGrantedOverItself == Spec => NoGrantOverItself
<1>1. ASSUME IInv, [Next]_vars, NEW c \in Calls, CallWrites(c),
             call'[c].pc # "write"
      PROVE  profile.last # call[c].session
  <2>1. WriteLands(c)
    BY <1>1, OnlyLandedWrites
  <2>2. QED
    BY <1>1, <2>1 DEF WriteLands, UnchangedSince, IInv, CallOK
<1>2. IInv /\ [Next]_vars =>
        [\A c \in Calls : (CallWrites(c) /\ call'[c].pc # "write")
                             => profile.last # call[c].session]_vars
  BY <1>1
<1>3. QED
  BY <1>2, ProvisioningInvariance, PTL DEF Spec, NoGrantOverItself

\* A pack adds exactly its credits to what the buyer has left when the write
\* lands, whatever ran since the call read the row (provisioning.ts:188-194).
THEOREM PacksAddTheirCredits == Spec => PackAddsItsCredits
<1>1. ASSUME IInv, [Next]_vars, NEW c \in Calls, CallWrites(c),
             call'[c].pc # "write", Kind[call[c].session] = "pack",
             ~IsUnlimited(profile)
      PROVE  Remaining(profile')
               = Remaining(profile) + Grant[call[c].session]
  <2> DEFINE s == call[c].session
             seen == call[c].seen
  <2>1. WriteLands(c)
    BY <1>1, OnlyLandedWrites
  <2>2. s \in Sessions /\ seen \in Profiles
    BY <1>1, CallType DEF CallWrites
  <2>3. /\ seen.limit = profile.limit
        /\ seen.used = profile.used
        /\ profile' = Entitled(seen, s)
    BY <2>1 DEF WriteLands, UnchangedSince
  <2>4. ~IsUnlimited(seen) /\ Remaining(seen) = Remaining(profile)
    BY <1>1, <2>3 DEF IsUnlimited, Remaining
  <2>5. QED
    BY <1>1, <2>2, <2>3, <2>4, PackStacks
<1>2. IInv /\ [Next]_vars =>
        [\A c \in Calls :
           (/\ CallWrites(c)
            /\ call'[c].pc # "write"
            /\ Kind[call[c].session] = "pack"
            /\ ~IsUnlimited(profile))
           => Remaining(profile')
                = Remaining(profile) + Grant[call[c].session]]_vars
  BY <1>1
<1>3. QED
  BY <1>2, ProvisioningInvariance, PTL DEF Spec, PackAddsItsCredits

-----------------------------------------------------------------------------
(* The account as CreditAccount sees it.                                   *)

\* Until the buyer has a profile there is nothing to spend or to set; and a
\* profile does not go away.
ProfileInv ==
    /\ profile.id = "none" => profile = NoProfile
    /\ \A e \in EdgeCalls : edge[e].pc # "idle" => profile.id # "none"
    /\ \A g \in Generations : spend[g].pc # "idle" => profile.id # "none"

\* The second receiver serves sessions of its own price map.
EdgeInv == \A e \in EdgeCalls : edge[e].pc # "idle" => edge[e].session \in EdgeSessions

Capped(n) == IF n >= Unlimited THEN Unlimited ELSE n

\* What a row that was just granted n credits has left.
LEMMA GrantedLeft ==
    ASSUME NEW p \in Profiles, NEW n \in Nat, p.limit = n, p.used = 0
    PROVE  CreditsLeft(p) = Capped(n) /\ CreditsGranted(p) = Capped(n)
BY NumbersAssumption DEF CreditsLeft, CreditsGranted, IsUnlimited, Remaining, Positive,
   Profiles, Capped

\* Only the three columns count.
LEMMA SameLeft ==
    ASSUME NEW p, NEW q, p.limit = q.limit, p.used = q.used
    PROVE  CreditsLeft(p) = CreditsLeft(q) /\ CreditsGranted(p) = CreditsGranted(q)
BY DEF CreditsLeft, CreditsGranted, IsUnlimited, Remaining

LEMMA PeriodLeft ==
    ASSUME NEW p \in Profiles, NEW s \in Sessions
    PROVE  /\ CreditsLeft(PeriodGrant(p, Grant[s])) = Capped(Grant[s])
           /\ CreditsGranted(PeriodGrant(p, Grant[s])) = Capped(Grant[s])
           /\ PeriodGrant(p, Grant[s]).last = p.last
           /\ CreditsLeft(Stamp(PeriodGrant(p, Grant[s]), s)) = Capped(Grant[s])
           /\ CreditsGranted(Stamp(PeriodGrant(p, Grant[s]), s)) = Capped(Grant[s])
           /\ Stamp(PeriodGrant(p, Grant[s]), s).last = s
<1>1. Grant[s] \in Nat
  BY SessionsAssumption
<1>2. /\ PeriodGrant(p, Grant[s]) \in Profiles
      /\ PeriodGrant(p, Grant[s]).limit = Grant[s] /\ PeriodGrant(p, Grant[s]).used = 0
      /\ PeriodGrant(p, Grant[s]).last = p.last
  BY <1>1 DEF PeriodGrant, SetCredits, Profiles
<1>3. /\ Stamp(PeriodGrant(p, Grant[s]), s) \in Profiles
      /\ Stamp(PeriodGrant(p, Grant[s]), s).limit = Grant[s]
      /\ Stamp(PeriodGrant(p, Grant[s]), s).used = 0
      /\ Stamp(PeriodGrant(p, Grant[s]), s).last = s
  BY <1>2 DEF Stamp, Profiles
<1>4. QED
  BY <1>1, <1>2, <1>3, GrantedLeft

LEMMA PackLeft ==
    ASSUME NEW p \in Profiles, NEW s \in Sessions
    PROVE  /\ CreditsLeft(p) = Unlimited =>
                /\ CreditsLeft(Stamp(StackedPackCredits(p, Grant[s]), s)) = CreditsLeft(p)
                /\ CreditsGranted(Stamp(StackedPackCredits(p, Grant[s]), s)) = CreditsGranted(p)
           /\ CreditsLeft(p) # Unlimited =>
                /\ CreditsLeft(Stamp(StackedPackCredits(p, Grant[s]), s)) =
                     Capped(CreditsLeft(p) + Grant[s])
                /\ CreditsGranted(Stamp(StackedPackCredits(p, Grant[s]), s)) =
                     Capped(CreditsLeft(p) + Grant[s])
           /\ Stamp(StackedPackCredits(p, Grant[s]), s).last = s
<1> DEFINE q == StackedPackCredits(p, Grant[s])
<1>1. Grant[s] \in Nat /\ Remaining(p) \in Nat /\ Unlimited \in Nat
  BY SessionsAssumption, NumbersAssumption, RemainingInNat
<1>2. CASE IsUnlimited(p)
  <2>1. q = p
    BY <1>2 DEF StackedPackCredits
  <2>2. CreditsLeft(p) = Unlimited
    BY <1>2 DEF CreditsLeft
  <2>3. /\ Stamp(p, s).limit = p.limit /\ Stamp(p, s).used = p.used
        /\ Stamp(p, s).last = s
    BY DEF Stamp, Profiles
  <2>4. QED
    BY <2>1, <2>2, <2>3, SameLeft
<1>3. CASE ~IsUnlimited(p)
  <2>1. q = SetCredits(p, Remaining(p) + Grant[s], 0)
    BY <1>3 DEF StackedPackCredits
  <2>2. /\ q \in Profiles /\ q.limit = Remaining(p) + Grant[s] /\ q.used = 0
    BY <1>1, <2>1 DEF SetCredits, Profiles
  <2>3. /\ Stamp(q, s) \in Profiles /\ Stamp(q, s).limit = Remaining(p) + Grant[s]
        /\ Stamp(q, s).used = 0 /\ Stamp(q, s).last = s
    BY <2>2 DEF Stamp, Profiles
  <2>4. /\ CreditsLeft(Stamp(q, s)) = Capped(Remaining(p) + Grant[s])
        /\ CreditsGranted(Stamp(q, s)) = Capped(Remaining(p) + Grant[s])
    BY <1>1, <2>3, GrantedLeft
  <2>5. CreditsLeft(p) = Remaining(p)
    BY <1>3 DEF CreditsLeft
  <2>6. Remaining(p) < Unlimited
    BY <1>1, <1>3 DEF IsUnlimited, Remaining, Positive, Profiles
  <2>7. QED
    BY <1>1, <2>3, <2>4, <2>5, <2>6
<1>4. QED
  BY <1>2, <1>3

\* A guest's row has what no row has.
LEMMA GuestLeft ==
    /\ CreditsLeft(GuestProfile) = CreditsLeft(NoProfile)
    /\ CreditsGranted(GuestProfile) = CreditsGranted(NoProfile)
    /\ GuestProfile.last = NoProfile.last
BY SameLeft DEF GuestProfile, NoProfile

\* The conditional update is a grant of the account.
LEMMA WriteGrants ==
    ASSUME IInv, NEW c \in Calls, WriteLands(c)
    PROVE  [Account!Next]_(Account!vars)
<1> DEFINE s == call[c].session
           seen == call[c].seen
<1>1. /\ s \in Sessions /\ seen \in Profiles /\ seen.last # s
      /\ seen.limit = profile.limit /\ seen.used = profile.used /\ seen.last = profile.last
      /\ profile' = Entitled(seen, s)
  BY CallType DEF WriteLands, UnchangedSince, IInv, CallOK
<1>2. /\ CreditsLeft(seen) = CreditsLeft(profile)
      /\ CreditsGranted(seen) = CreditsGranted(profile)
      /\ profile.last # s
  BY <1>1, SameLeft
<1> HIDE DEF s, seen
<1>3. CASE Kind[s] = "none"
  <2>1. profile' = seen
    BY <1>1, <1>3 DEF Entitled
  <2>2. /\ CreditsLeft(profile') = CreditsLeft(profile)
        /\ CreditsGranted(profile') = CreditsGranted(profile)
        /\ profile'.last = profile.last
    BY <1>1, <1>2, <2>1
  <2>3. QED
    BY <2>2 DEF Account!vars
<1>4. CASE Kind[s] = "pack"
  <2>1. profile' = Stamp(StackedPackCredits(seen, Grant[s]), s)
    BY <1>1, <1>4 DEF Entitled
  <2>2. /\ CreditsLeft(profile) = Unlimited =>
             /\ CreditsLeft(profile') = CreditsLeft(profile)
             /\ CreditsGranted(profile') = CreditsGranted(profile)
        /\ CreditsLeft(profile) # Unlimited =>
             /\ CreditsLeft(profile') = Capped(CreditsLeft(profile) + Grant[s])
             /\ CreditsGranted(profile') = Capped(CreditsLeft(profile) + Grant[s])
        /\ profile'.last = s
    BY <1>1, <1>2, <2>1, PackLeft
  <2>3. Account!AddPack(s)
    BY <1>2, <1>4, <2>2 DEF Account!AddPack, Account!Grants, Account!Sets, Capped
  <2>4. QED
    BY <1>1, <2>3 DEF Account!Next
<1>5. CASE Kind[s] = "subscription"
  <2>1. profile' = Stamp(PeriodGrant(seen, Grant[s]), s)
    BY <1>1, <1>5 DEF Entitled
  <2>2. /\ CreditsLeft(profile') = Capped(Grant[s])
        /\ CreditsGranted(profile') = Capped(Grant[s])
        /\ profile'.last = s
    BY <1>1, <2>1, PeriodLeft
  <2>3. Account!StartPeriod(s)
    BY <1>2, <1>5, <2>2 DEF Account!StartPeriod, Account!Grants, Account!Sets, Capped
  <2>4. QED
    BY <1>1, <2>3 DEF Account!Next
<1>6. QED
  BY <1>1, <1>3, <1>4, <1>5, SessionsAssumption

\* The second receiver overwrites what is left.
LEMMA EdgeOverwrites ==
    ASSUME IInv, EdgeInv, NEW s \in Sessions,
           \/ \E e \in EdgeCalls : EdgeWrite(e) /\ edge[e].session = s
           \/ Refill(s)
    PROVE  Account!Overwrite(s)
<1>1. profile \in Profiles
  BY DEF IInv, TypeOK
<1>2. CASE \E e \in EdgeCalls : EdgeWrite(e) /\ edge[e].session = s
  <2>1. profile' = Stamp(PeriodGrant(profile, Grant[s]), s) /\ s \in EdgeSessions
    BY <1>2 DEF EdgeWrite, EdgeInv
  <2>2. /\ CreditsLeft(profile') = Capped(Grant[s])
        /\ CreditsGranted(profile') = Capped(Grant[s])
        /\ profile'.last = s
    BY <1>1, <2>1, PeriodLeft
  <2>3. QED
    BY <2>1, <2>2 DEF Account!Overwrite, Account!Sets, Capped
<1>3. CASE Refill(s)
  <2>1. /\ profile' = PeriodGrant(profile, Grant[s]) /\ s \in EdgeSessions
        /\ Kind[s] = "subscription"
    BY <1>3 DEF Refill
  <2>2. /\ CreditsLeft(profile') = Capped(Grant[s])
        /\ CreditsGranted(profile') = Capped(Grant[s])
        /\ profile'.last = profile.last
    BY <1>1, <2>1, PeriodLeft
  <2>3. QED
    BY <2>1, <2>2 DEF Account!Overwrite, Account!Sets, Capped
<1>4. QED
  BY <1>2, <1>3

LEMMA DeductSpends ==
    ASSUME IInv, NEW g \in Generations, DeductWrite(g)
    PROVE  [Account!Next]_(Account!vars)
<1>1. profile \in Profiles /\ spend[g].used \in Nat /\ Unlimited \in Nat
  BY NumbersAssumption DEF IInv, TypeOK
<1>2. /\ profile'.limit = profile.limit /\ profile'.used = spend[g].used + 1
      /\ profile'.last = profile.last
  BY <1>1 DEF DeductWrite, Profiles
<1>3. profile.limit \in Nat /\ profile.used \in Nat
  BY <1>1 DEF Profiles
<1>4. CASE IsUnlimited(profile)
  <2>1. /\ CreditsLeft(profile') = CreditsLeft(profile)
        /\ CreditsGranted(profile') = CreditsGranted(profile)
    BY <1>2, <1>4 DEF CreditsLeft, CreditsGranted, IsUnlimited
  <2>2. QED
    BY <1>2, <2>1 DEF Account!vars
<1>5. CASE ~IsUnlimited(profile)
  <2>1. /\ CreditsLeft(profile) < Unlimited
        /\ CreditsGranted(profile') = CreditsGranted(profile)
        /\ CreditsLeft(profile') \in 0..CreditsGranted(profile)
        /\ CreditsLeft(profile') < CreditsGranted(profile) \/ CreditsLeft(profile') = 0
    BY <1>1, <1>2, <1>3, <1>5 DEF CreditsLeft, CreditsGranted, IsUnlimited, Remaining, Positive
  <2>2. QED
    BY <1>2, <2>1 DEF Account!Spend, Account!Next
<1>6. QED
  BY <1>4, <1>5

\* A step of the buyer's calls and requests is a step of the account, or none.
LEMMA AccountStep == IInv /\ ProfileInv /\ EdgeInv /\ [Next]_vars
                       => [Account!Next]_(Account!vars)
<1> SUFFICES ASSUME IInv, ProfileInv, EdgeInv, [Next]_vars
             PROVE  [Account!Next]_(Account!vars)
  OBVIOUS
<1>1. ASSUME profile' = profile \/ (profile = NoProfile /\ profile' = GuestProfile)
      PROVE  UNCHANGED Account!vars
  BY <1>1, GuestLeft DEF Account!vars
<1>2. ASSUME NEW c \in Calls, CallStep(c)
      PROVE  [Account!Next]_(Account!vars)
  <2>1. CASE WriteLands(c)
    BY <2>1, WriteGrants
  <2>2. CASE InsertGuest(c)
    BY <1>1, <2>2 DEF InsertGuest, ProfileInv
  <2>3. CASE ~WriteLands(c) /\ ~InsertGuest(c)
    BY <1>1, <1>2, <2>3 DEF CallStep, Deliver, RequestFails, Lookup, ReadGrant,
       WriteConflicts, WriteWithoutRow
  <2>4. QED
    BY <2>1, <2>2, <2>3
<1>3. ASSUME NEW g \in Generations, SpendStep(g)
      PROVE  [Account!Next]_(Account!vars)
  BY <1>1, <1>3, DeductSpends DEF SpendStep, CheckCredit, GenerateFails, DeductRead,
     DeductFails
<1>4. ASSUME NEW e \in EdgeCalls, EdgeStep(e)
      PROVE  [Account!Next]_(Account!vars)
  <2>1. CASE EdgeWrite(e)
    <3>1. edge[e].session \in Sessions
      BY <2>1 DEF EdgeWrite, IInv, EdgeOK
    <3>2. QED
      BY <2>1, <3>1, EdgeOverwrites DEF Account!Next
  <2>2. CASE ~EdgeWrite(e)
    BY <1>1, <1>4, <2>2 DEF EdgeStep, EdgeDeliver, EdgeFails, EdgeRead, ProfileInv
  <2>3. QED
    BY <2>1, <2>2
<1>5. ASSUME NEW s \in Sessions, Refill(s)
      PROVE  [Account!Next]_(Account!vars)
  BY <1>5, EdgeOverwrites DEF Account!Next
<1>6. CASE UNCHANGED vars
  BY <1>1, <1>6 DEF vars
<1>7. QED
  BY <1>2, <1>3, <1>4, <1>5, <1>6 DEF Next

LEMMA EdgeInvStep == IInv /\ EdgeInv /\ [Next]_vars => EdgeInv'
<1> SUFFICES ASSUME IInv, EdgeInv, [Next]_vars PROVE EdgeInv'
  OBVIOUS
<1>1. edge \in [EdgeCalls -> [pc: {"idle", "read", "write"}, session: Sessions \cup {None}]]
  BY DEF IInv, TypeOK
<1>2. ASSUME NEW e \in EdgeCalls, EdgeStep(e) PROVE EdgeInv'
  BY <1>1, <1>2 DEF EdgeStep, EdgeDeliver, EdgeFails, EdgeRead, EdgeWrite, MoveEdge, EdgeInv
<1>3. CASE edge' = edge
  BY <1>3 DEF EdgeInv
<1>4. QED
  BY <1>2, <1>3 DEF Next, CallStep, SpendStep, Deliver, RequestFails, Lookup, InsertGuest,
     ReadGrant, WriteLands, WriteConflicts, WriteWithoutRow, CheckCredit, GenerateFails,
     DeductRead, DeductWrite, DeductFails, Refill, vars

\* A profile stays, and nothing sets or spends credits before there is one.
LEMMA ProfileInvStep == IInv /\ ProfileInv /\ [Next]_vars => ProfileInv'
<1> SUFFICES ASSUME IInv, ProfileInv, [Next]_vars PROVE ProfileInv'
  OBVIOUS
<1>1. /\ profile \in Profiles
      /\ edge \in [EdgeCalls -> [pc: {"idle", "read", "write"}, session: Sessions \cup {None}]]
      /\ spend \in [Generations -> [pc: {"idle", "generating", "deducting"}, used: Nat]]
  BY DEF IInv, TypeOK
<1>2. ASSUME profile'.id # "none", UNCHANGED <<edge, spend>> PROVE ProfileInv'
  BY <1>2 DEF ProfileInv
<1>3. ASSUME UNCHANGED <<profile, edge, spend>> PROVE ProfileInv'
  BY <1>3 DEF ProfileInv
<1>4. ASSUME NEW c \in Calls, CallStep(c) PROVE ProfileInv'
  <2>1. CASE WriteLands(c)
    <3>1. profile'.id = call[c].seen.id /\ call[c].seen.id # "none"
      BY <2>1, CallType, EntitledType DEF WriteLands, IInv, CallOK
    <3>2. QED
      BY <1>2, <2>1, <3>1 DEF WriteLands
  <2>2. CASE InsertGuest(c)
    BY <1>2, <1>3, <2>2 DEF InsertGuest, GuestProfile
  <2>3. CASE ~WriteLands(c) /\ ~InsertGuest(c)
    BY <1>3, <1>4, <2>3 DEF CallStep, Deliver, RequestFails, Lookup, ReadGrant,
       WriteConflicts, WriteWithoutRow
  <2>4. QED
    BY <2>1, <2>2, <2>3
<1>5. ASSUME NEW g \in Generations, SpendStep(g) PROVE ProfileInv'
  <2>1. CASE CheckCredit(g)
    BY <1>1, <2>1 DEF CheckCredit, HasCredit, MoveSpend, ProfileInv
  <2>2. CASE DeductRead(g)
    BY <1>1, <2>2 DEF DeductRead, HasCredit, MoveSpend, ProfileInv
  <2>3. CASE DeductWrite(g)
    <3>1. profile.id # "none" /\ profile'.id = profile.id
      BY <1>1, <2>3 DEF DeductWrite, ProfileInv, Profiles
    <3>2. QED
      BY <1>1, <2>3, <3>1 DEF DeductWrite, MoveSpend, ProfileInv
  <2>4. CASE GenerateFails(g) \/ DeductFails(g)
    BY <1>1, <2>4 DEF GenerateFails, DeductFails, MoveSpend, ProfileInv
  <2>5. QED
    BY <1>5, <2>1, <2>2, <2>3, <2>4 DEF SpendStep
<1>6. ASSUME NEW e \in EdgeCalls, EdgeStep(e) PROVE ProfileInv'
  <2>1. CASE \E s \in Sessions : EdgeDeliver(e, s)
    <3>1. profile'.id # "none" /\ spend' = spend
      BY <2>1 DEF EdgeDeliver, GuestProfile
    <3>2. QED
      BY <3>1 DEF ProfileInv
  <2>2. CASE EdgeWrite(e)
    <3>1. profile.id # "none" /\ spend' = spend
      BY <2>2 DEF EdgeWrite, ProfileInv
    <3>2. profile'.id = profile.id
      BY <1>1, <2>2 DEF EdgeWrite, Stamp, PeriodGrant, SetCredits, Profiles
    <3>3. QED
      BY <3>1, <3>2 DEF ProfileInv
  <2>3. CASE EdgeFails(e) \/ EdgeRead(e)
    BY <1>1, <2>3 DEF EdgeFails, EdgeRead, MoveEdge, ProfileInv
  <2>4. QED
    BY <1>6, <2>1, <2>2, <2>3 DEF EdgeStep
<1>7. ASSUME NEW s \in Sessions, Refill(s) PROVE ProfileInv'
  <2>1. profile'.id = profile.id /\ profile.id # "none"
    BY <1>7 DEF Refill, PeriodGrant, SetCredits
  <2>2. QED
    BY <1>2, <1>7, <2>1 DEF Refill
<1>8. CASE UNCHANGED vars
  BY <1>3, <1>8 DEF vars
<1>9. QED
  BY <1>4, <1>5, <1>6, <1>7, <1>8 DEF Next

\* To the account, provisionPurchase grants in one step, for any number of
\* calls, receivers and generations at once.
THEOREM GrantsAreAtomic == Spec => ImplementsCreditAccount
<1>1. Init => Account!Init
  <2> SUFFICES ASSUME Init PROVE Account!Init
    OBVIOUS
  <2>1. profile \in Profiles /\ profile.last = None
    BY NumbersAssumption DEF Init, NoProfile, Profiles
  <2>2. /\ CreditsGranted(profile) \in 0..Unlimited
        /\ CreditsLeft(profile) \in 0..CreditsGranted(profile)
        /\ CreditsGranted(profile) = Unlimited => CreditsLeft(profile) = Unlimited
    BY <2>1, NumbersAssumption DEF CreditsLeft, CreditsGranted, IsUnlimited, Remaining, Positive,
       Profiles
  <2>3. QED
    BY <2>1, <2>2 DEF Account!Init
<1>2. Init => ProfileInv /\ EdgeInv
  BY DEF Init, ProfileInv, EdgeInv, IdleEdge, IdleSpend
<1>3. Spec => [](ProfileInv /\ EdgeInv)
  BY <1>2, ProfileInvStep, EdgeInvStep, ProvisioningInvariance, PTL DEF Spec
<1>4. QED
  BY <1>1, <1>3, AccountStep, ProvisioningInvariance, PTL
     DEF Spec, ImplementsCreditAccount, Account!Spec
=============================================================================
