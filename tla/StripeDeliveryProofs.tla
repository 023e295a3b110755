------------------------ MODULE StripeDeliveryProofs ------------------------
(***************************************************************************)
(* Safety of StripeDelivery for any number of concurrent deliveries.  The  *)
(* invariant relates where a handler is to what has been done: a handler   *)
(* about to log a success has the work behind it, and a handler whose      *)
(* answer will stop Stripe has it too when the event is a DPP sale.        *)
(***************************************************************************)
EXTENDS StripeDelivery, TLAPS

\* What is known of handler h.
HandlerOK(h) ==
    /\ handler[h].pc = "log_duplicate" => ~Replayable
    /\ handler[h].pc = "log_hold" => kind = "anonymous"
    /\ handler[h].pc = "log_error" /\ handler[h].code # 500
         => fulfilled \/ ~Replayable
    /\ handler[h].pc = "log_success" /\ kind = "dpp" => fulfilled

DppInv ==
    /\ TypeOK
    /\ \A h \in Handlers : HandlerOK(h)
    /\ DppAcknowledgedIsFulfilled

\* Where the second duplicate check does not know the event, only a duplicate
\* is replayed.
ReplayOK(h) ==
    ~seen => /\ handler[h].pc = "log_success" => fulfilled
             /\ handler[h].pc = "replay" => handler[h].claim = "duplicate"

SuccessInv ==
    /\ TypeOK
    /\ seen => Database
    /\ \A h \in Handlers : ReplayOK(h)
    /\ SuccessMeansFulfilled

\* The handler that holds the event's claim: an outcome it may log as an error
\* is its own, and until it has, the row neither is free nor may be claimed
\* again.
HoldsOK(h) ==
    ( \/ handler[h].pc \in {"receive", "mark", "work", "log_hold"}
      \/ handler[h].pc = "log_error" /\ kind # "dpp" )
    => handler[h].claim = "claimed"

ClaimOK ==
    (kind # "dpp" /\ ~overtaken) =>
        /\ \A g, h \in Handlers :
             handler[g].claim = "claimed" /\ handler[h].claim = "claimed" => g = h
        /\ \A h \in Handlers :
             handler[h].claim = "claimed" => row.status \notin {"absent", "error"}

WorkerInv ==
    /\ TypeOK
    /\ \A h \in Handlers : HoldsOK(h)
    /\ ClaimOK

-----------------------------------------------------------------------------
LEMMA InitType == Init => TypeOK
<1> SUFFICES ASSUME Init PROVE TypeOK
  OBVIOUS
<1>1. row \in [status: Statuses, age: {"new", "stale"}] /\ row.age = "new"
  BY DEF Init, NoRow, Statuses
<1>2. handler \in [Handlers -> [pc: HandlerStates,
                                claim: {"claimed", "duplicate"},
                                code: {200, 400, 500}]]
  BY DEF Init, Idle, HandlerStates
<1>3. QED
  BY <1>1, <1>2 DEF Init, TypeOK

LEMMA LogOutcomesType ==
    ASSUME TypeOK, NEW status \in Statuses, NEW o \in LogOutcomes(status)
    PROVE  /\ o.row \in [status: Statuses, age: {"new", "stale"}]
           /\ o.row.age = "stale" => o.row.status = "received"
           /\ o.row.status \in {status, row.status}
BY DEF TypeOK, LogOutcomes, Fresh

\* A request of the claim, answered or not, changes only a row that may be claimed.
LEMMA ClaimEffectsRow ==
    ASSUME NEW h \in Handlers, row' \in ClaimEffects(h)
    PROVE  \/ row' = row
           \/ /\ row' = Fresh("received")
              /\ row.status \in {"absent", "error", "received"}
BY DEF ClaimEffects, ClaimMatches, Reclaimable

LEMMA ClaimEffectsType ==
    ASSUME TypeOK, NEW h \in Handlers, row' \in ClaimEffects(h)
    PROVE  /\ row' \in [status: Statuses, age: {"new", "stale"}]
           /\ row'.age = "stale" => row'.status = "received"
BY ClaimEffectsRow DEF TypeOK, Fresh, Statuses

\* A step that logs an outcome and answers.
LEMMA LogAndAnswerType ==
    ASSUME TypeOK, NEW h \in Handlers, NEW pc, NEW status \in Statuses,
           NEW code, LogAndAnswer(h, pc, status, code)
    PROVE  TypeOK'
<1>1. PICK o \in LogOutcomes(status) : row' = o.row
  BY DEF LogAndAnswer
<1>2. /\ row' \in [status: Statuses, age: {"new", "stale"}]
      /\ row'.age = "stale" => row'.status = "received"
  BY <1>1, LogOutcomesType
<1>3. handler' \in [Handlers -> [pc: HandlerStates,
                                 claim: {"claimed", "duplicate"},
                                 code: {200, 400, 500}]]
  BY DEF LogAndAnswer, Answer, Told, TypeOK, Idle, HandlerStates
<1>4. stripe' \in {"retrying", "acknowledged", "stopped"}
  BY DEF LogAndAnswer, Answer, Told, TypeOK
<1>5. QED
  BY <1>2, <1>3, <1>4 DEF LogAndAnswer, TypeOK

LEMMA HandlerStepType ==
    ASSUME TypeOK, NEW h \in Handlers, HandlerStep(h)
    PROVE  TypeOK'
<1>1. CASE Claim(h)
  BY <1>1 DEF Claim, Claimed, TypeOK, Fresh, Statuses, Go, HandlerStates
<1>2. CASE ClaimUnavailable(h)
  <2>1. /\ row' \in [status: Statuses, age: {"new", "stale"}]
        /\ row'.age = "stale" => row'.status = "received"
    BY <1>2, ClaimEffectsType DEF ClaimUnavailable
  <2> QED
    BY <1>2, <2>1 DEF ClaimUnavailable, TypeOK, Answer, Told, Idle, HandlerStates
<1>3. CASE Reclaim(h)
  BY <1>3 DEF Reclaim, Claimed, TypeOK, Fresh, Statuses, HandlerStates
<1>4. CASE IsDuplicate(h)
  <2>1. /\ row' \in [status: Statuses, age: {"new", "stale"}]
        /\ row'.age = "stale" => row'.status = "received"
    BY <1>4, ClaimEffectsType DEF IsDuplicate
  <2> QED
    BY <1>4, <2>1 DEF IsDuplicate, Claimed, TypeOK, HandlerStates
<1>5. CASE LogReceived(h)
  <2>1. PICK o \in LogOutcomes("received") : row' = o.row
    BY <1>5 DEF LogReceived
  <2>2. /\ row' \in [status: Statuses, age: {"new", "stale"}]
        /\ row'.age = "stale" => row'.status = "received"
    BY <2>1, LogOutcomesType, "received" \in Statuses DEF Statuses
  <2>3. QED
    BY <1>5, <2>2 DEF LogReceived, TypeOK, Go, HandlerStates
<1>6. CASE LogDuplicate(h)
  BY <1>6, LogAndAnswerType, "duplicate" \in Statuses
     DEF LogDuplicate, Statuses
<1>7. CASE LogSuccess(h)
  BY <1>7, LogAndAnswerType, "success" \in Statuses DEF LogSuccess, Statuses
<1>8. CASE LogError(h)
  BY <1>8, LogAndAnswerType, "error" \in Statuses DEF LogError, Statuses
<1>9. CASE LogHold(h)
  <2>1. PICK o \in LogOutcomes("reconciliation_required") :
          /\ row' = o.row
          /\ IF o.ok
             THEN Answer(h, 200)
             ELSE Fails(h, 500) /\ UNCHANGED stripe
    BY <1>9 DEF LogHold
  <2>2. /\ row' \in [status: Statuses, age: {"new", "stale"}]
        /\ row'.age = "stale" => row'.status = "received"
    BY <2>1, LogOutcomesType, "reconciliation_required" \in Statuses
       DEF Statuses
  <2>3. /\ handler' \in [Handlers -> [pc: HandlerStates,
                                      claim: {"claimed", "duplicate"},
                                      code: {200, 400, 500}]]
        /\ stripe' \in {"retrying", "acknowledged", "stopped"}
    BY <2>1 DEF Answer, Told, Fails, TypeOK, Idle, HandlerStates
  <2>4. QED
    BY <1>9, <2>2, <2>3 DEF LogHold, TypeOK
<1>10. CASE Dispatch(h)
  BY <1>10 DEF Dispatch, TypeOK, Go, HandlerStates
<1>11. CASE MarkInFlight(h)
  BY <1>11, DatabaseAssumption DEF MarkInFlight, TypeOK, Go, HandlerStates
<1>12. CASE WorkSucceeds(h)
  BY <1>12 DEF WorkSucceeds, TypeOK, Go, HandlerStates
<1>13. CASE WorkHolds(h)
  BY <1>13 DEF WorkHolds, TypeOK, Go, HandlerStates
<1>14. CASE WorkFails(h)
  <2>1. PICK code \in {400, 500} : Fails(h, code)
    BY <1>14 DEF WorkFails
  <2>2. handler' \in [Handlers -> [pc: HandlerStates,
                                   claim: {"claimed", "duplicate"},
                                   code: {200, 400, 500}]]
    BY <2>1 DEF Fails, TypeOK, HandlerStates
  <2>3. fulfilled' \in BOOLEAN
    BY <1>14 DEF WorkFails, TypeOK
  <2>4. QED
    BY <1>14, <2>2, <2>3 DEF WorkFails, TypeOK
<1>15. CASE ReplaySucceeds(h)
  <2>1. handler' \in [Handlers -> [pc: HandlerStates,
                                   claim: {"claimed", "duplicate"},
                                   code: {200, 400, 500}]]
    <3>1. CASE LogsOutcome(h)
      BY <1>15, <3>1 DEF ReplaySucceeds, Go, TypeOK, HandlerStates
    <3>2. CASE ~LogsOutcome(h)
      BY <1>15, <3>2 DEF ReplaySucceeds, Answer, Told, Idle, TypeOK, HandlerStates
    <3>3. QED
      BY <3>1, <3>2
  <2>2. stripe' \in {"retrying", "acknowledged", "stopped"}
    BY <1>15 DEF ReplaySucceeds, Answer, Told, TypeOK
  <2>3. fulfilled' \in BOOLEAN
    BY <1>15 DEF ReplaySucceeds, Replayed, TypeOK
  <2>4. QED
    BY <1>15, <2>1, <2>2, <2>3 DEF ReplaySucceeds, TypeOK
<1>16. CASE ReplayFails(h)
  <2>1. fulfilled' \in BOOLEAN
    BY <1>16 DEF ReplayFails, TypeOK
  <2> QED
    BY <1>16, <2>1 DEF ReplayFails, Fails, TypeOK, HandlerStates
<1>17. QED
  BY <1>1, <1>2, <1>3, <1>4, <1>5, <1>6, <1>7, <1>8, <1>9, <1>10, <1>11,
     <1>12, <1>13, <1>14, <1>15, <1>16 DEF HandlerStep

LEMMA NextType ==
    ASSUME TypeOK, [Next]_vars
    PROVE  TypeOK'
<1>1. ASSUME NEW h \in Handlers, Deliver(h) PROVE TypeOK'
  BY <1>1 DEF Deliver, TypeOK, Go, HandlerStates
<1>2. ASSUME NEW h \in Handlers, HandlerStep(h) PROVE TypeOK'
  BY <1>2, HandlerStepType
<1>3. ASSUME NEW h \in Handlers, Crash(h) PROVE TypeOK'
  BY <1>3 DEF Crash, TypeOK, Idle, HandlerStates
<1>4. CASE Ages
  BY <1>4 DEF Ages, TypeOK
<1>5. CASE UNCHANGED vars
  BY <1>5 DEF vars, TypeOK
<1>6. QED
  BY <1>1, <1>2, <1>3, <1>4, <1>5 DEF Next

-----------------------------------------------------------------------------
\* The rest of the invariants: a step of handler h changes no other handler.
LEMMA DppStep ==
    ASSUME DppInv, NEW h \in Handlers, HandlerStep(h)
    PROVE  /\ \A g \in Handlers : HandlerOK(g)'
           /\ DppAcknowledgedIsFulfilled'
<1> USE DEF DppInv, TypeOK, HandlerOK, DppAcknowledgedIsFulfilled, Replayable,
            Checkouts, Kinds
<1>1. CASE Claim(h) \/ ClaimUnavailable(h)
  BY <1>1 DEF Claim, Claimed, ClaimUnavailable, Go, Answer, Told, Idle
<1>2. CASE Reclaim(h) \/ IsDuplicate(h)
  BY <1>2 DEF Reclaim, Claimed, IsDuplicate
<1>3. CASE LogReceived(h)
  BY <1>3 DEF LogReceived, Go
<1>4. CASE LogDuplicate(h) \/ LogSuccess(h) \/ LogError(h)
  BY <1>4 DEF LogDuplicate, LogSuccess, LogError, LogAndAnswer, Answer, Told, Idle
<1>5. CASE LogHold(h)
  BY <1>5 DEF LogHold, Fails, Answer, Told, Idle
<1>6. CASE Dispatch(h)
  BY <1>6 DEF Dispatch, Go
<1>7. CASE MarkInFlight(h)
  BY <1>7 DEF MarkInFlight, Go
<1>8. CASE WorkSucceeds(h) \/ WorkHolds(h)
  BY <1>8 DEF WorkSucceeds, WorkHolds, Go
<1>9. CASE WorkFails(h)
  BY <1>9 DEF WorkFails, Fails
<1>10. CASE ReplaySucceeds(h)
  <2>1. (fulfilled => fulfilled') /\ (kind = "dpp" => fulfilled')
    BY <1>10 DEF ReplaySucceeds, Replayed
  <2>2. CASE LogsOutcome(h)
    BY <1>10, <2>1, <2>2 DEF ReplaySucceeds, Go
  <2>3. CASE ~LogsOutcome(h)
    BY <1>10, <2>1, <2>3 DEF ReplaySucceeds, Answer, Told, Idle
  <2>4. QED
    BY <2>2, <2>3
<1>11. CASE ReplayFails(h)
  <2>1. Fails(h, 500) /\ UNCHANGED <<kind, stripe>>
    BY <1>11 DEF ReplayFails
  <2>2. fulfilled => fulfilled'
    BY <1>11 DEF ReplayFails
  <2> QED
    BY <2>1, <2>2 DEF Fails
<1>12. QED
  BY <1>1, <1>2, <1>3, <1>4, <1>5, <1>6, <1>7, <1>8, <1>9, <1>10, <1>11
     DEF HandlerStep

LEMMA DppInductive == Init => DppInv
BY InitType DEF Init, DppInv, HandlerOK, DppAcknowledgedIsFulfilled, Idle,
                Replayable

LEMMA DppNext ==
    ASSUME DppInv, [Next]_vars
    PROVE  DppInv'
<1>1. TypeOK'
  BY NextType DEF DppInv
<1>2. ASSUME NEW h \in Handlers, HandlerStep(h)
      PROVE  /\ \A g \in Handlers : HandlerOK(g)'
             /\ DppAcknowledgedIsFulfilled'
  BY <1>2, DppStep
<1>3. ASSUME NEW h \in Handlers, Deliver(h) \/ Crash(h)
      PROVE  /\ \A g \in Handlers : HandlerOK(g)'
             /\ DppAcknowledgedIsFulfilled'
  BY <1>3 DEF Deliver, Crash, Go, Idle, DppInv, TypeOK, HandlerOK,
              DppAcknowledgedIsFulfilled, Replayable
<1>4. CASE Ages \/ UNCHANGED vars
  BY <1>1, <1>4 DEF Ages, vars, DppInv, HandlerOK,
                    DppAcknowledgedIsFulfilled, Replayable
<1>5. QED
  BY <1>1, <1>2, <1>3, <1>4 DEF Next, DppInv

\* The variables of any number of deliveries have their types.
THEOREM DeliveryTypeCorrect == Spec => []TypeOK
BY InitType, NextType, PTL DEF Spec

\* A DPP sale is acknowledged, or given up by Stripe, only once it has been
\* fulfilled, however many deliveries run and wherever they stop.
THEOREM DppAcknowledged == Spec => []DppAcknowledgedIsFulfilled
<1>1. DppInv => DppAcknowledgedIsFulfilled
  BY DEF DppInv
<1>2. QED
  BY <1>1, DppInductive, DppNext, PTL DEF Spec

-----------------------------------------------------------------------------
LEMMA SuccessStep ==
    ASSUME SuccessInv, NEW h \in Handlers, HandlerStep(h)
    PROVE  /\ seen' => Database
           /\ \A g \in Handlers : ReplayOK(g)'
           /\ SuccessMeansFulfilled'
<1> USE DEF SuccessInv, TypeOK, SuccessMeansFulfilled, ReplayOK
<1>1. CASE Claim(h) \/ ClaimUnavailable(h)
  <2>1. row'.status = "success" => row.status = "success"
    BY <1>1, ClaimEffectsRow DEF Claim, ClaimUnavailable, Fresh
  <2> QED
    BY <1>1, <2>1 DEF Claim, Claimed, ClaimUnavailable, Go, Answer, Told, Idle
<1>2. CASE Reclaim(h) \/ IsDuplicate(h)
  <2>1. row'.status = "success" => row.status = "success"
    BY <1>2, ClaimEffectsRow DEF Reclaim, IsDuplicate, Fresh
  <2> QED
    BY <1>2, <2>1 DEF Reclaim, Claimed, IsDuplicate
<1>3. CASE LogReceived(h)
  BY <1>3 DEF LogReceived, Go, LogOutcomes, Fresh
<1>4. CASE LogDuplicate(h) \/ LogSuccess(h) \/ LogError(h)
  BY <1>4 DEF LogDuplicate, LogSuccess, LogError, LogAndAnswer, LogOutcomes,
              Fresh, Answer, Told, Idle
<1>5. CASE LogHold(h)
  BY <1>5 DEF LogHold, Fails, Answer, Told, Idle, LogOutcomes, Fresh
<1>6. CASE Dispatch(h)
  <2>1. PICK drizzleSeen \in DrizzleSeen :
          Go(h, IF ~(drizzleSeen \/ handler[h].claim = "duplicate") THEN "mark"
                ELSE IF Replayable THEN "replay" ELSE "log_duplicate")
    BY <1>6 DEF Dispatch
  <2>2. UNCHANGED <<row, seen, fulfilled>>
    BY <1>6 DEF Dispatch
  <2>3. ~seen => ~drizzleSeen
    BY <2>1 DEF DrizzleSeen
  <2>4. CASE ~drizzleSeen /\ handler[h].claim # "duplicate"
    <3>1. Go(h, "mark")
      BY <2>1, <2>4
    <3> QED
      BY <2>2, <3>1 DEF Go
  <2>5. CASE (drizzleSeen \/ handler[h].claim = "duplicate") /\ Replayable
    <3>1. Go(h, "replay")
      BY <2>1, <2>5
    <3> QED
      BY <2>2, <2>3, <2>5, <3>1 DEF Go
  <2>6. CASE (drizzleSeen \/ handler[h].claim = "duplicate") /\ ~Replayable
    <3>1. Go(h, "log_duplicate")
      BY <2>1, <2>6
    <3> QED
      BY <2>2, <3>1 DEF Go
  <2> QED
    BY <2>4, <2>5, <2>6
<1>7. CASE MarkInFlight(h)
  <2>1. (seen => seen') /\ (seen' => Database)
    BY <1>7, DatabaseAssumption DEF MarkInFlight
  <2> QED
    BY <1>7, <2>1 DEF MarkInFlight, Go
<1>8. CASE WorkSucceeds(h) \/ WorkHolds(h)
  BY <1>8 DEF WorkSucceeds, WorkHolds, Go
<1>9. CASE WorkFails(h)
  <2>1. (fulfilled => fulfilled') /\ UNCHANGED <<seen, row>>
    BY <1>9 DEF WorkFails
  <2>2. \E code \in {400, 500} : Fails(h, code)
    BY <1>9 DEF WorkFails
  <2> QED
    BY <2>1, <2>2 DEF Fails
<1>10. CASE ReplaySucceeds(h)
  <2>1. handler[h].pc = "replay" /\ (fulfilled => fulfilled') /\ UNCHANGED <<seen, row>>
    BY <1>10 DEF ReplaySucceeds, Replayed
  <2>2. CASE LogsOutcome(h)
    <3>1. seen
      BY <2>1, <2>2 DEF LogsOutcome
    <3> QED
      BY <2>1, <3>1
  <2>3. CASE ~LogsOutcome(h)
    BY <1>10, <2>1, <2>3 DEF ReplaySucceeds, Answer, Told, Idle
  <2>4. QED
    BY <2>2, <2>3
<1>11. CASE ReplayFails(h)
  <2>1. fulfilled' \in {fulfilled, TRUE} /\ UNCHANGED <<seen, row>>
    BY <1>11 DEF ReplayFails
  <2>2. fulfilled => fulfilled'
    BY <2>1, Zenon
  <2>3. Fails(h, 500)
    BY <1>11 DEF ReplayFails
  <2> QED
    BY <2>1, <2>2, <2>3 DEF Fails
<1>12. QED
  BY <1>1, <1>2, <1>3, <1>4, <1>5, <1>6, <1>7, <1>8, <1>9, <1>10, <1>11
     DEF HandlerStep

LEMMA SuccessNext ==
    ASSUME SuccessInv, [Next]_vars
    PROVE  SuccessInv'
<1>1. TypeOK'
  BY NextType DEF SuccessInv
<1>2. ASSUME NEW h \in Handlers, HandlerStep(h)
      PROVE  SuccessInv'
  BY <1>1, <1>2, SuccessStep DEF SuccessInv
<1>3. ASSUME NEW h \in Handlers, Deliver(h) \/ Crash(h)
      PROVE  SuccessInv'
  BY <1>1, <1>3 DEF Deliver, Crash, Go, Idle, SuccessInv, TypeOK, ReplayOK,
                    SuccessMeansFulfilled
<1>4. CASE Ages \/ UNCHANGED vars
  BY <1>1, <1>4 DEF Ages, vars, SuccessInv, TypeOK, ReplayOK,
                    SuccessMeansFulfilled
<1>5. QED
  BY <1>2, <1>3, <1>4 DEF Next

\* As long as `stripe_events' is the only duplicate check that knows the event,
\* its row never says "success" of an event whose work was not done.
THEOREM SuccessIsEarned == Spec => []SuccessMeansFulfilled
<1>1. Init => SuccessInv
  BY InitType DEF Init, SuccessInv, ReplayOK, SuccessMeansFulfilled, Idle, NoRow
<1>2. SuccessInv => SuccessMeansFulfilled
  BY DEF SuccessInv
<1>3. SuccessInv /\ [Next]_vars => SuccessInv'
  BY SuccessNext
<1>4. QED
  BY <1>1, <1>2, <1>3, PTL DEF Spec

-----------------------------------------------------------------------------
\* A handler answers: its claim is gone, and the row is as the log left it.
LEMMA AnswerKeepsClaims ==
    ASSUME WorkerInv, NEW h \in Handlers, NEW code, Answer(h, code),
           UNCHANGED <<kind, overtaken>>,
           (kind # "dpp" /\ ~overtaken /\ row'.status \in {"absent", "error"}) =>
               \/ row'.status = row.status
               \/ handler[h].claim = "claimed"
    PROVE  /\ \A g \in Handlers : HoldsOK(g)'
           /\ ClaimOK'
<1> USE DEF WorkerInv, TypeOK, HoldsOK, ClaimOK
<1>1. /\ handler'[h] = Idle
      /\ \A g \in Handlers : g # h => handler'[g] = handler[g]
  BY DEF Answer, Told
<1>2. Idle.pc = "idle" /\ Idle.claim = "duplicate"
  BY DEF Idle
<1>3. QED
  BY <1>1, <1>2

LEMMA WorkerStep ==
    ASSUME WorkerInv, NEW h \in Handlers, HandlerStep(h)
    PROVE  /\ \A g \in Handlers : HoldsOK(g)'
           /\ ClaimOK'
<1> USE DEF WorkerInv, TypeOK, HoldsOK, ClaimOK
<1>1. CASE Claim(h)
  BY <1>1 DEF Claim, Claimed, Go, Fresh
<1>2. CASE ClaimUnavailable(h)
  <2>1. row'.status \in {"absent", "error"} => row'.status = row.status
    BY <1>2, ClaimEffectsRow DEF ClaimUnavailable, Fresh
  <2> QED
    BY <1>2, <2>1, AnswerKeepsClaims DEF ClaimUnavailable
<1>3. CASE Reclaim(h)
  <2>1. /\ row'.status = "received"
        /\ ~overtaken' => ~overtaken /\ row.status = "error"
    BY <1>3 DEF Reclaim, Reclaimable, Fresh
  <2> QED
    BY <1>3, <2>1 DEF Reclaim, Claimed
<1>4. CASE IsDuplicate(h)
  <2>1. row'.status \in {"absent", "error"} => row'.status = row.status
    BY <1>4, ClaimEffectsRow DEF IsDuplicate, Fresh
  <2> QED
    BY <1>4, <2>1 DEF IsDuplicate, Claimed
<1>5. CASE LogReceived(h)
  <2>1. PICK o \in LogOutcomes("received") : row' = o.row
    BY <1>5 DEF LogReceived
  <2>2. row'.status \in {"received", row.status}
    BY <2>1, LogOutcomesType, "received" \in Statuses DEF Statuses
  <2> QED
    BY <1>5, <2>2 DEF LogReceived, Go
<1>6. CASE LogDuplicate(h) \/ LogSuccess(h)
  <2>1. PICK status \in {"duplicate", "success"} :
          /\ \E o \in LogOutcomes(status) : row' = o.row
          /\ Answer(h, 200)
          /\ UNCHANGED <<kind, overtaken>>
    BY <1>6 DEF LogDuplicate, LogSuccess, LogAndAnswer
  <2>2. row'.status \in {"duplicate", "success", row.status}
    BY <2>1, LogOutcomesType, "duplicate" \in Statuses, "success" \in Statuses DEF Statuses
  <2> QED
    BY <2>1, <2>2, AnswerKeepsClaims
<1>7. CASE LogError(h)
  <2>1. /\ Answer(h, handler[h].code)
        /\ UNCHANGED <<kind, overtaken>>
        /\ handler[h].pc = "log_error"
    BY <1>7 DEF LogError, LogAndAnswer
  <2> QED
    BY <2>1, AnswerKeepsClaims
<1>8. CASE LogHold(h)
  <2>1. PICK o \in LogOutcomes("reconciliation_required") :
          /\ row' = o.row
          /\ IF o.ok
             THEN Answer(h, 200)
             ELSE Fails(h, 500) /\ UNCHANGED stripe
    BY <1>8 DEF LogHold
  <2>2. /\ row'.status \in {"reconciliation_required", row.status}
        /\ UNCHANGED <<kind, overtaken>>
        /\ handler[h].pc = "log_hold"
    BY <1>8, <2>1, LogOutcomesType, "reconciliation_required" \in Statuses DEF LogHold, Statuses
  <2>3. CASE o.ok
    BY <2>1, <2>2, <2>3, AnswerKeepsClaims
  <2>4. CASE ~o.ok
    BY <2>1, <2>2, <2>4 DEF Fails
  <2> QED
    BY <2>3, <2>4
<1>9. CASE Dispatch(h)
  <2>1. PICK drizzleSeen \in DrizzleSeen :
          Go(h, IF ~(drizzleSeen \/ handler[h].claim = "duplicate") THEN "mark"
                ELSE IF Replayable THEN "replay" ELSE "log_duplicate")
    BY <1>9 DEF Dispatch
  <2>2. UNCHANGED <<row, kind, overtaken>>
    BY <1>9 DEF Dispatch
  <2>3. CASE handler[h].claim = "claimed"
    BY <2>1, <2>2, <2>3 DEF Go
  <2>4. CASE handler[h].claim # "claimed"
    <3>1. handler[h].claim = "duplicate"
      BY <2>4
    <3>2. PICK pc \in {"replay", "log_duplicate"} : Go(h, pc)
      BY <2>1, <3>1
    <3> QED
      BY <2>2, <3>2 DEF Go
  <2> QED
    BY <2>3, <2>4
<1>10. CASE MarkInFlight(h)
  BY <1>10 DEF MarkInFlight, Go
<1>11. CASE WorkSucceeds(h) \/ WorkHolds(h)
  BY <1>11 DEF WorkSucceeds, WorkHolds, Go
<1>12. CASE WorkFails(h)
  BY <1>12 DEF WorkFails, Fails
<1>13. CASE ReplaySucceeds(h)
  <2>1. UNCHANGED <<row, kind, overtaken>>
    BY <1>13 DEF ReplaySucceeds
  <2>2. CASE LogsOutcome(h)
    BY <1>13, <2>1, <2>2 DEF ReplaySucceeds, Go
  <2>3. CASE ~LogsOutcome(h)
    BY <1>13, <2>1, <2>3, AnswerKeepsClaims DEF ReplaySucceeds
  <2> QED
    BY <2>2, <2>3
<1>14. CASE ReplayFails(h)
  BY <1>14 DEF ReplayFails, Fails
<1>15. QED
  BY <1>1, <1>2, <1>3, <1>4, <1>5, <1>6, <1>7, <1>8, <1>9, <1>10, <1>11, <1>12, <1>13,
     <1>14 DEF HandlerStep

LEMMA WorkerNext ==
    ASSUME WorkerInv, [Next]_vars
    PROVE  WorkerInv'
<1>1. TypeOK'
  BY NextType DEF WorkerInv
<1>2. ASSUME NEW h \in Handlers, HandlerStep(h)
      PROVE  WorkerInv'
  BY <1>1, <1>2, WorkerStep DEF WorkerInv
<1>3. ASSUME NEW h \in Handlers, Deliver(h) \/ Crash(h)
      PROVE  WorkerInv'
  BY <1>1, <1>3 DEF Deliver, Crash, Go, Idle, WorkerInv, TypeOK, HoldsOK, ClaimOK
<1>4. CASE Ages \/ UNCHANGED vars
  BY <1>1, <1>4 DEF Ages, vars, WorkerInv, TypeOK, HoldsOK, ClaimOK
<1>5. QED
  BY <1>2, <1>3, <1>4 DEF Next

\* Any number of deliveries share the event's row: only one of them does its
\* work, as long as none was overtaken and no failed replay reopens the claim.
THEOREM AtMostOneWorker == Spec => []OneWorker
<1>1. Init => WorkerInv
  BY InitType DEF Init, WorkerInv, HoldsOK, ClaimOK, Idle
<1>2. WorkerInv => OneWorker
  BY DEF WorkerInv, ClaimOK, OneWorker, Working
<1>3. WorkerInv /\ [Next]_vars => WorkerInv'
  BY WorkerNext
<1>4. QED
  BY <1>1, <1>2, <1>3, PTL DEF Spec

-----------------------------------------------------------------------------
\* Once the hold is written nobody has the claim but the handler that wrote it
\* and was not told so; and who logs an outcome that would write over it has the
\* claim or handles an event that is not held.
HoldInv ==
    /\ \A h \in Handlers :
         handler[h].pc = "log_success" => handler[h].claim = "claimed"
    /\ row.status = "reconciliation_required" =>
         /\ kind = "anonymous"
         /\ ~overtaken =>
              \A h \in Handlers : handler[h].claim = "claimed" => GivesUpHold(h)

\* What HoldStays allows of a step.
KeepsHold ==
    row.status = "reconciliation_required" /\ ~overtaken'
      => \/ row'.status = row.status
         \/ /\ row'.status = "error"
            /\ \E h \in Handlers : GivesUpHold(h) /\ handler'[h] = Idle

\* The two steps that write a claim do it over another status, no step takes
\* overtaken back, and a handler moves alone.
LEMMA ClaimsAreNotOfHolds ==
    ASSUME TypeOK, NEW h \in Handlers, HandlerStep(h),
           row.status = "reconciliation_required"
    PROVE  /\ \A g \in Handlers :
                handler'[g].claim = "claimed" => handler[g].claim = "claimed"
           /\ \A g \in Handlers : g # h => handler'[g] = handler[g]
           /\ UNCHANGED <<kind, overtaken>>
<1> USE DEF TypeOK
<1>1. CASE Claim(h) \/ ClaimUnavailable(h)
  BY <1>1 DEF Claim, ClaimUnavailable, Go, Answer, Idle
<1>2. CASE Reclaim(h) \/ IsDuplicate(h)
  BY <1>2 DEF Reclaim, Reclaimable, IsDuplicate, Claimed
<1>3. CASE LogReceived(h) \/ LogHold(h)
  BY <1>3 DEF LogReceived, LogHold, Go, Answer, Fails, Idle
<1>4. CASE LogDuplicate(h) \/ LogSuccess(h) \/ LogError(h)
  BY <1>4 DEF LogDuplicate, LogSuccess, LogError, LogAndAnswer, Answer, Idle
<1>5. CASE Dispatch(h) \/ MarkInFlight(h)
  BY <1>5 DEF Dispatch, MarkInFlight, Go
<1>6. CASE WorkSucceeds(h) \/ WorkHolds(h) \/ WorkFails(h)
  BY <1>6 DEF WorkSucceeds, WorkHolds, WorkFails, Go, Fails
<1>7. CASE ReplaySucceeds(h)
  BY <1>7 DEF ReplaySucceeds, Go, Answer, Idle
<1>8. CASE ReplayFails(h)
  <2>1. Fails(h, 500) /\ UNCHANGED <<kind, overtaken>>
    BY <1>8 DEF ReplayFails
  <2> QED
    BY <2>1 DEF Fails
<1>9. QED
  BY <1>1, <1>2, <1>3, <1>4, <1>5, <1>6, <1>7, <1>8 DEF HandlerStep

\* A step of a handler writes the hold only as the one that has the claim, which
\* it then gives up, now or after it has logged the error; and none but that one
\* writes over a hold.
LEMMA HoldStep ==
    ASSUME WorkerInv, DppInv, HoldInv, NEW h \in Handlers, HandlerStep(h)
    PROVE  HoldInv' /\ KeepsHold
<1> USE DEF TypeOK
<1> TypeOK
  BY DEF WorkerInv
<1>1. \A g \in Handlers :
        handler'[g].pc = "log_success" => handler'[g].claim = "claimed"
  <2> USE DEF WorkerInv, HoldInv, HoldsOK
  <2>1. CASE Claim(h) \/ ClaimUnavailable(h)
    BY <2>1 DEF Claim, ClaimUnavailable, Claimed, Go, Answer, Told, Idle
  <2>2. CASE Reclaim(h) \/ IsDuplicate(h)
    BY <2>2 DEF Reclaim, IsDuplicate, Claimed
  <2>3. CASE LogReceived(h) \/ LogHold(h)
    BY <2>3 DEF LogReceived, LogHold, Go, Answer, Told, Fails, Idle
  <2>4. CASE LogDuplicate(h) \/ LogSuccess(h) \/ LogError(h)
    BY <2>4 DEF LogDuplicate, LogSuccess, LogError, LogAndAnswer, Answer, Told, Idle
  <2>5. CASE Dispatch(h) \/ MarkInFlight(h)
    BY <2>5 DEF Dispatch, MarkInFlight, Go
  <2>6. CASE WorkSucceeds(h) \/ WorkHolds(h) \/ WorkFails(h)
    BY <2>6 DEF WorkSucceeds, WorkHolds, WorkFails, Go, Fails
  <2>7. CASE ReplaySucceeds(h)
    BY <2>7 DEF ReplaySucceeds, LogsOutcome, Go, Answer, Idle
  <2>8. CASE ReplayFails(h)
    <3>1. Fails(h, 500)
      BY <2>8 DEF ReplayFails
    <3> QED
      BY <3>1 DEF Fails
  <2>9. QED
    BY <2>1, <2>2, <2>3, <2>4, <2>5, <2>6, <2>7, <2>8 DEF HandlerStep
<1>2. CASE row.status = "reconciliation_required"
  <2>1. /\ \A g \in Handlers :
              handler'[g].claim = "claimed" => handler[g].claim = "claimed"
        /\ \A g \in Handlers : g # h => handler'[g] = handler[g]
        /\ UNCHANGED <<kind, overtaken>>
    BY <1>2, ClaimsAreNotOfHolds
  <2>2. /\ kind = "anonymous"
        /\ ~overtaken =>
             \A g \in Handlers : handler[g].claim = "claimed" => GivesUpHold(g)
    BY <1>2 DEF HoldInv
  <2>3. CASE overtaken
    BY <1>1, <2>1, <2>2, <2>3 DEF HoldInv, KeepsHold
  <2>4. CASE ~overtaken /\ handler[h].claim # "claimed"
    <3>1. /\ handler[h].pc \notin {"receive", "mark", "work", "log_hold", "log_success"}
          /\ handler[h].pc # "log_error"
          /\ handler[h].pc # "log_duplicate"
      BY <2>2, <2>4 DEF WorkerInv, DppInv, HoldInv, HoldsOK, HandlerOK,
                        Replayable, Checkouts
    <3>2. row'.status = row.status
      BY <1>2, <3>1, ClaimEffectsRow
         DEF HandlerStep, Claim, ClaimUnavailable, Reclaim, Reclaimable,
             IsDuplicate, LogReceived, LogDuplicate, LogSuccess, LogError,
             LogAndAnswer, LogHold, Dispatch, MarkInFlight, WorkSucceeds,
             WorkHolds, WorkFails, ReplaySucceeds, ReplayFails
    <3>3. \A g \in Handlers :
            handler'[g].claim = "claimed" => GivesUpHold(g)'
      BY <2>1, <2>2, <2>4 DEF GivesUpHold
    <3>4. QED
      BY <1>1, <2>1, <2>2, <3>2, <3>3 DEF HoldInv, KeepsHold
  <2>5. CASE ~overtaken /\ handler[h].claim = "claimed"
    <3>1. GivesUpHold(h) /\ handler[h].pc = "log_error"
      BY <2>2, <2>5 DEF GivesUpHold
    <3>2. LogError(h)
      BY <3>1
         DEF HandlerStep, Claim, ClaimUnavailable, Reclaim, IsDuplicate,
             LogReceived, LogDuplicate, LogSuccess, LogAndAnswer, LogHold,
             Dispatch, MarkInFlight, WorkSucceeds, WorkHolds, WorkFails,
             ReplaySucceeds, Replayed, ReplayFails
    <3>3. row'.status \in {"error", row.status}
      <4>1. PICK o \in LogOutcomes("error") : row' = o.row
        BY <3>2 DEF LogError, LogAndAnswer
      <4>2. QED
        BY <4>1, LogOutcomesType, "error" \in Statuses DEF Statuses
    <3>4. handler'[h] = Idle /\ Idle.claim = "duplicate"
      BY <3>2 DEF LogError, LogAndAnswer, Answer, Idle
    <3>5. \A g \in Handlers :
            handler'[g].claim = "claimed" => GivesUpHold(g)'
      BY <2>1, <2>2, <2>5, <3>4 DEF GivesUpHold
    <3>6. KeepsHold
      BY <3>1, <3>3, <3>4 DEF KeepsHold
    <3>7. QED
      BY <1>1, <2>1, <2>2, <3>5, <3>6 DEF HoldInv
  <2>6. QED
    BY <2>3, <2>4, <2>5
<1>3. CASE row.status # "reconciliation_required"
  <2>1. CASE LogHold(h)
    <3>1. PICK o \in LogOutcomes("reconciliation_required") :
            /\ row' = o.row
            /\ IF o.ok
               THEN Answer(h, 200)
               ELSE Fails(h, 500) /\ UNCHANGED stripe
      BY <2>1 DEF LogHold
    <3>2. /\ kind = "anonymous"
          /\ handler[h].claim = "claimed"
          /\ UNCHANGED <<kind, overtaken>>
      BY <2>1 DEF LogHold, DppInv, HandlerOK, WorkerInv, HoldsOK
    <3>3. ~overtaken => \A g \in Handlers : g # h => handler[g].claim # "claimed"
      BY <3>2 DEF WorkerInv, ClaimOK
    <3>4. CASE o.ok
      <4>1. /\ handler'[h].claim = "duplicate"
            /\ \A g \in Handlers : g # h => handler'[g] = handler[g]
        BY <3>1, <3>4 DEF Answer, Idle
      <4>2. QED
        BY <1>1, <1>3, <3>2, <3>3, <4>1 DEF HoldInv, KeepsHold
    <3>5. CASE ~o.ok
      <4>1. /\ GivesUpHold(h)'
            /\ \A g \in Handlers : g # h => handler'[g] = handler[g]
        BY <3>1, <3>2, <3>5 DEF Fails, GivesUpHold
      <4>2. QED
        BY <1>1, <1>3, <3>2, <3>3, <4>1 DEF HoldInv, KeepsHold
    <3>6. QED
      BY <3>4, <3>5
  <2>2. CASE ~LogHold(h)
    <3>1. row'.status # "reconciliation_required"
      <4>1. CASE LogReceived(h) \/ LogDuplicate(h) \/ LogSuccess(h) \/ LogError(h)
        <5>1. PICK status \in {"received", "duplicate", "success", "error"} :
                \E o \in LogOutcomes(status) : row' = o.row
          BY <4>1 DEF LogReceived, LogDuplicate, LogSuccess, LogError, LogAndAnswer
        <5>2. row'.status \in {status, row.status}
          BY <5>1, LogOutcomesType DEF Statuses
        <5>3. QED
          BY <1>3, <5>2
      <4>2. CASE Claim(h) \/ ClaimUnavailable(h) \/ Reclaim(h)
        BY <1>3, <4>2, ClaimEffectsRow DEF Claim, ClaimUnavailable, Reclaim, Fresh
      <4>3. CASE IsDuplicate(h)
        BY <1>3, <4>3, ClaimEffectsRow DEF IsDuplicate, Fresh
      <4>4. CASE row' = row
        BY <1>3, <4>4
      <4>5. QED
        BY <2>2, <4>1, <4>2, <4>3, <4>4
           DEF HandlerStep, Dispatch, MarkInFlight, WorkSucceeds,
               WorkHolds, WorkFails, ReplaySucceeds, ReplayFails
    <3>2. QED
      BY <1>1, <1>3, <3>1 DEF HoldInv, KeepsHold
  <2>3. QED
    BY <2>1, <2>2
<1>4. QED
  BY <1>2, <1>3

LEMMA HoldNext ==
    ASSUME WorkerInv, DppInv, HoldInv, [Next]_vars
    PROVE  HoldInv' /\ KeepsHold
<1>1. ASSUME NEW h \in Handlers, Deliver(h) \/ Crash(h)
      PROVE  HoldInv' /\ row' = row
  BY <1>1 DEF Deliver, Crash, Go, Idle, WorkerInv, TypeOK, HoldInv, GivesUpHold,
              HoldsOK
<1>2. CASE Ages
  <2>1. row.status = "received" /\ row'.status = "received"
    BY <1>2 DEF Ages, WorkerInv, TypeOK
  <2>2. QED
    BY <1>2, <2>1 DEF Ages, HoldInv, KeepsHold
<1>3. CASE UNCHANGED vars
  BY <1>3 DEF vars, HoldInv, KeepsHold, GivesUpHold
<1>4. QED
  BY <1>1, <1>2, <1>3, HoldStep DEF Next, KeepsHold

\* A held checkout stays held, however many deliveries follow, are under way or
\* fail, as long as none is overtaken: only the error of the handler that could
\* not tell its hold was persisted replaces it.
THEOREM HoldIsKept == Spec => HoldStays
<1>1. Init => WorkerInv /\ DppInv /\ HoldInv
  BY InitType, DppInductive
     DEF Init, WorkerInv, HoldsOK, ClaimOK, HoldInv, Idle, NoRow
<1>2. WorkerInv /\ DppInv /\ HoldInv /\ [Next]_vars
        => WorkerInv' /\ DppInv' /\ HoldInv'
  BY WorkerNext, DppNext, HoldNext
<1>3. WorkerInv /\ DppInv /\ HoldInv /\ [Next]_vars
        => [row.status = "reconciliation_required" /\ ~overtaken'
              => \/ row'.status = row.status
                 \/ /\ row'.status = "error"
                    /\ \E h \in Handlers :
                         GivesUpHold(h) /\ handler'[h] = Idle]_vars
  BY HoldNext DEF KeepsHold
<1>4. QED
  BY <1>1, <1>2, <1>3, PTL DEF Spec, HoldStays

=============================================================================
