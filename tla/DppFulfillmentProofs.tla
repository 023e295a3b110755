----------------------- MODULE DppFulfillmentProofs -----------------------
(* Proofs about DppFulfillment for any number of deliveries and recovery   *)
(* processes, any retry budget and any number of other purchases.          *)
EXTENDS DppFulfillment, FiniteSetTheorems, TLAPS

\* The row a delivery works with is the stored one, or one that has moved since.
LoadedInv ==
    \A d \in Deliveries : at[d] \in Holding =>
        /\ seen[d] <= moves
        /\ seen[d] = moves => found[d] = state
        /\ found[d] = "succeeded" => state = "succeeded"

\* What a recovery process has in memory is the stored row, moves of it that are
\* pending, or computed from a row that has moved since.
CacheInv ==
    \A r \in Recoverers :
        /\ base[r] <= moves
        /\ IsCurrent(r) => held[r] = state /\ counted[r] = retries
        /\ ahead[r] > 0 => held[r] \in {"retryable_failure", "authorized", "permanent_failure"}
        /\ base[r] = moves /\ ahead[r] > 0 =>
              state \in {"running", "retryable_failure"} /\ counted[r] = begun
        /\ held[r] # "permanent_failure" => counted[r] <= MaxRetries
        /\ held[r] = "permanent_failure" => counted[r] = MaxRetries + 1

\* The count of retries is the count of interruptions.
RowInv ==
    /\ state = "absent" => retries = 0 /\ begun = 0
    /\ state \in {"running", "succeeded"} => begun = retries + 1
    /\ state \in {"retryable_failure", "authorized", "permanent_failure"} => begun = retries
    /\ state # "permanent_failure" => retries <= MaxRetries
    /\ state = "permanent_failure" => retries = MaxRetries + 1

\* What the next step of a delivery says of the sale.
StepInv ==
    \A d \in Deliveries :
        /\ at[d] \notin {"idle", "load", "insert"} => state # "absent"
        /\ at[d] = "resume" => found[d] = "authorized"
        /\ at[d] \in {"reload", "record", "complete", "mail", "answer"} => grants > 0
        /\ at[d] = "complete" => found[d] = "running" /\ effect
        /\ at[d] \in {"mail", "answer"} => state = "succeeded"

\* The sale's own stages.
SaleInv ==
    /\ grants > 0 => state # "absent" /\ buyer # "nobody"
    /\ last => grants > 0
    /\ effect => grants > 0
    /\ state = "succeeded" => effect
    /\ acked => state = "succeeded"

IInv == TypeOK /\ LoadedInv /\ CacheInv /\ RowInv /\ StepInv /\ SaleInv

USE DppAssumption

LEMMA InitInv == Init => IInv
  <1> SUFFICES ASSUME Init PROVE IInv
    OBVIOUS
  <1>1. TypeOK
    <2>1. retries \in 0..(MaxRetries + 1) /\ others \in 0..MaxOthers /\ 0 \in 0..(MaxRetries + 1)
      BY DEF Init
    <2> QED
      BY <2>1 DEF Init, TypeOK, States, Steps
  <1>2. LoadedInv /\ CacheInv /\ RowInv /\ StepInv /\ SaleInv
    BY DEF Init, LoadedInv, CacheInv, IsCurrent, RowInv, StepInv, SaleInv, Holding
  <1> QED
    BY <1>1, <1>2 DEF IInv

\* A step of delivery d leaves the others alone; d works on with the row it
\* had loaded, or with the row as it is.
Others(d) ==
    /\ at' \in [Deliveries -> Steps] /\ seen' \in [Deliveries -> Nat]
    /\ found' \in [Deliveries -> States] /\ skipped' \in [Deliveries -> BOOLEAN]
    /\ \A e \in Deliveries : e # d =>
              at'[e] = at[e] /\ seen'[e] = seen[e] /\ found'[e] = found[e]
Kept(d) == at'[d] \in Holding => seen'[d] = seen[d] /\ found'[d] = found[d]
Taken(d) == at'[d] \in Holding => seen'[d] = moves /\ found'[d] = state

LEMMA GotoDoes ==
  ASSUME TypeOK, NEW d \in Deliveries, NEW s \in Steps, Goto(d, s)
  PROVE  Others(d) /\ Kept(d) /\ at'[d] = s
  <1>1. at' \in [Deliveries -> Steps] /\ seen' \in [Deliveries -> Nat]
    BY DEF Goto, TypeOK
  <1>2. found' \in [Deliveries -> States]
    BY DEF Goto, TypeOK, States
  <1>3. skipped' \in [Deliveries -> BOOLEAN]
    BY Zenon DEF Goto, TypeOK
  <1>4. /\ at'[d] = s
        /\ \A e \in Deliveries : e # d =>
              at'[e] = at[e] /\ seen'[e] = seen[e] /\ found'[e] = found[e]
    BY DEF Goto, TypeOK
  <1>5. Kept(d)
    BY <1>4 DEF Goto, TypeOK, Kept
  <1> QED
    BY <1>1, <1>2, <1>3, <1>4, <1>5 DEF Others

LEMMA GotoWithRowDoes ==
  ASSUME TypeOK, NEW d \in Deliveries, NEW s \in Steps, GotoWithRow(d, s)
  PROVE  /\ Others(d) /\ Taken(d) /\ at'[d] = s
         /\ UNCHANGED <<buyer, row, effect, cache, profile, acked, calm>>
  <1>1. at' \in [Deliveries -> Steps] /\ seen' \in [Deliveries -> Nat]
    BY DEF GotoWithRow, TypeOK
  <1>2. found' \in [Deliveries -> States]
    BY DEF GotoWithRow, TypeOK, States
  <1>3. skipped' \in [Deliveries -> BOOLEAN]
    BY Zenon DEF GotoWithRow, TypeOK
  <1>4. /\ at'[d] = s
        /\ \A e \in Deliveries : e # d =>
              at'[e] = at[e] /\ seen'[e] = seen[e] /\ found'[e] = found[e]
    BY DEF GotoWithRow, TypeOK
  <1>5. Taken(d)
    BY <1>4 DEF GotoWithRow, TypeOK, Taken
  <1>6. UNCHANGED <<buyer, row, effect, cache, profile, acked, calm>>
    BY DEF GotoWithRow
  <1> QED
    BY <1>1, <1>2, <1>3, <1>4, <1>5, <1>6 DEF Others

\* What each step of a delivery does, without the bookkeeping.  An insert, a
\* resumption or a completion moves the row or leaves it.
Stays == UNCHANGED <<state, leased, due, moves, begun>>
RestStays == UNCHANGED <<buyer, retries, effect, cache, profile, acked, calm>>

LoadEffects(d) ==
    /\ Others(d) /\ Taken(d)
    /\ at'[d] \in {"provision", "insert", "resume", "idle"}
    /\ at'[d] = "provision" => state # "absent"
    /\ at'[d] = "resume" => state = "authorized"
    /\ UNCHANGED <<buyer, row, effect, cache, profile, acked, calm>>

ReloadEffects(d) ==
    /\ Others(d) /\ Taken(d)
    /\ at'[d] \in {"idle", "record"}
    /\ at'[d] = "record" => state # "absent"
    /\ at[d] = "reload"
    /\ UNCHANGED <<buyer, row, effect, cache, profile, acked, calm>>

InsertEffects(d) ==
    /\ Others(d) /\ Kept(d) /\ RestStays
    /\ at'[d] \in {"provision", "idle"}
    /\ at'[d] = "provision" => state' # "absent"
    /\ (state = "absent" /\ Move("running", TRUE)) \/ Stays

ResumeEffects(d) ==
    /\ Others(d) /\ Kept(d) /\ RestStays
    /\ at'[d] \in {"provision", "idle"}
    /\ (state = "authorized" /\ Move("running", TRUE)) \/ Stays
    /\ state # "absent"

CompleteEffects(d) ==
    /\ Others(d) /\ Kept(d) /\ RestStays
    /\ at'[d] \in {"mail", "idle"}
    /\ at'[d] = "mail" => state' = "succeeded"
    /\ (state = "running" /\ Move("succeeded", FALSE)) \/ Stays
    /\ grants > 0 /\ effect /\ state # "absent"

ProvisionEffects(d) ==
    /\ Others(d) /\ Kept(d)
    /\ at'[d] \in {"reload", "idle"}
    /\ at[d] = "provision" /\ buyer # "nobody"
    /\ grants' = IF last THEN grants ELSE grants + 1
    /\ last' = TRUE
    /\ UNCHANGED <<buyer, row, effect, cache, others, mails, acked, calm>>

RecordEffects(d) ==
    /\ Others(d) /\ Kept(d)
    /\ at'[d] \in {"mail", "complete", "idle"}
    /\ at'[d] = "mail" => state = "succeeded"
    /\ at'[d] = "complete" => found[d] = "running"
    /\ at[d] = "record" /\ effect' = TRUE
    /\ grants > 0 /\ state # "absent"
    /\ UNCHANGED <<buyer, row, cache, profile, acked, calm>>

PlainEffects(d) ==
    /\ Others(d) /\ Kept(d)
    /\ at'[d] \in {"load", "idle"}
    /\ UNCHANGED <<buyer, row, effect, cache, profile, acked, calm>>

MailEffects(d) ==
    /\ Others(d) /\ Kept(d)
    /\ at[d] = "mail" /\ at'[d] = "answer" /\ mails' \in Nat
    /\ UNCHANGED <<buyer, row, effect, cache, grants, last, others, acked, calm>>

AnswerEffects(d) ==
    /\ Others(d) /\ Kept(d)
    /\ at[d] = "answer" /\ at'[d] = "idle" /\ acked' = TRUE
    /\ UNCHANGED <<buyer, row, effect, cache, profile, calm>>

LEMMA LoadDoes ==
  ASSUME TypeOK, NEW d \in Deliveries, Load(d)
  PROVE  LoadEffects(d)
  <1> USE DEF LoadEffects
  <1> DEFINE s == CASE state \in {"running", "succeeded"} -> "provision"
                    [] state = "absent" -> "insert"
                    [] state = "authorized" -> "resume"
                    [] OTHER -> "idle"
  <1>1. /\ s \in Steps
        /\ s \in {"provision", "insert", "resume", "idle"}
        /\ s = "provision" => state # "absent"
        /\ s = "resume" => state = "authorized"
    BY DEF Steps
  <1>2. GotoWithRow(d, s)
    BY DEF Load
  <1> HIDE DEF s
  <1> QED
    BY <1>1, <1>2, GotoWithRowDoes

LEMMA ReloadDoes ==
  ASSUME TypeOK, NEW d \in Deliveries, Reload(d)
  PROVE  ReloadEffects(d)
  <1> USE DEF ReloadEffects
  <1>1. CASE state = "absent"
    <2>1. GotoWithRow(d, "idle") /\ at[d] = "reload" /\ "idle" \in Steps
      BY <1>1 DEF Reload, Steps
    <2> QED
      BY <1>1, <2>1, GotoWithRowDoes
  <1>2. CASE state # "absent"
    <2>1. GotoWithRow(d, "record") /\ at[d] = "reload" /\ "record" \in Steps
      BY <1>2 DEF Reload, Steps
    <2> QED
      BY <1>2, <2>1, GotoWithRowDoes
  <1> QED
    BY <1>1, <1>2

LEMMA InsertDoes ==
  ASSUME TypeOK, NEW d \in Deliveries, NEW answered \in BOOLEAN, InsertRow(d, answered)
  PROVE  InsertEffects(d)
  <1> USE DEF InsertEffects
  <1>1. CASE state = "absent" /\ answered
    <2>1. Goto(d, "provision") /\ Move("running", TRUE) /\ RestStays /\ "provision" \in Steps
      BY <1>1 DEF InsertRow, RestStays, Steps
    <2> QED
      BY <1>1, <2>1, GotoDoes DEF Move
  <1>2. CASE ~(state = "absent" /\ answered)
    <2>1. /\ Goto(d, "idle") /\ RestStays /\ "idle" \in Steps
          /\ (state = "absent" /\ Move("running", TRUE)) \/ Stays
      BY <1>2 DEF InsertRow, RestStays, Stays, Steps
    <2> QED
      BY <2>1, GotoDoes
  <1> QED
    BY <1>1, <1>2

LEMMA ResumeDoes ==
  ASSUME IInv, NEW d \in Deliveries, NEW answered \in BOOLEAN, ResumeRow(d, answered)
  PROVE  ResumeEffects(d)
  <1> USE DEF ResumeEffects
  <1>1. at[d] = "resume" /\ (Extends(d) => state = "authorized") /\ state # "absent"
    BY DEF ResumeRow, Extends, IInv, LoadedInv, StepInv, Holding
  <1>2. CASE Extends(d) /\ answered
    <2>1. Goto(d, "provision") /\ Move("running", TRUE) /\ RestStays /\ "provision" \in Steps
      BY <1>2 DEF ResumeRow, RestStays, Steps
    <2> QED
      BY <1>1, <1>2, <2>1, GotoDoes DEF IInv
  <1>3. CASE ~(Extends(d) /\ answered)
    <2>1. /\ Goto(d, "idle") /\ RestStays /\ "idle" \in Steps
          /\ (state = "authorized" /\ Move("running", TRUE)) \/ Stays
      BY <1>1, <1>3 DEF ResumeRow, RestStays, Stays, Steps
    <2> QED
      BY <1>1, <2>1, GotoDoes DEF IInv
  <1> QED
    BY <1>2, <1>3

LEMMA CompleteDoes ==
  ASSUME IInv, NEW d \in Deliveries, NEW answered \in BOOLEAN, Complete(d, answered)
  PROVE  CompleteEffects(d)
  <1> USE DEF CompleteEffects
  <1>1. /\ at[d] = "complete" /\ (Extends(d) => state = "running")
        /\ grants > 0 /\ effect /\ state # "absent"
    BY DEF Complete, Extends, IInv, LoadedInv, StepInv, Holding
  <1>2. CASE Extends(d) /\ answered
    <2>1. Goto(d, "mail") /\ Move("succeeded", FALSE) /\ RestStays /\ "mail" \in Steps
      BY <1>2 DEF Complete, RestStays, Steps
    <2>2. state' = "succeeded"
      BY <2>1 DEF Move
    <2> QED
      BY <1>1, <1>2, <2>1, <2>2, GotoDoes DEF IInv
  <1>3. CASE ~(Extends(d) /\ answered)
    <2>1. /\ Goto(d, "idle") /\ RestStays /\ "idle" \in Steps
          /\ (state = "running" /\ Move("succeeded", FALSE)) \/ Stays
      BY <1>1, <1>3 DEF Complete, RestStays, Stays, Steps
    <2> QED
      BY <1>1, <2>1, GotoDoes DEF IInv
  <1> QED
    BY <1>2, <1>3

LEMMA ProvisionDoes ==
  ASSUME TypeOK, NEW d \in Deliveries, NEW answered \in BOOLEAN, Provision(d, answered)
  PROVE  ProvisionEffects(d)
  <1> USE DEF ProvisionEffects
  <1>1. /\ at[d] = "provision" /\ buyer # "nobody"
        /\ grants' = IF last THEN grants ELSE grants + 1
        /\ last' = TRUE
        /\ UNCHANGED <<buyer, row, effect, cache, others, mails, acked, calm>>
    BY DEF Provision
  <1>2. CASE answered
    <2>1. /\ at' \in [Deliveries -> Steps] /\ seen' \in [Deliveries -> Nat]
          /\ found' \in [Deliveries -> States]
      BY <1>2 DEF Provision, TypeOK, Steps
    <2>2. skipped' \in [Deliveries -> BOOLEAN]
      BY <1>2, Zenon DEF Provision, TypeOK
    <2>3. /\ at'[d] = "reload" /\ seen' = seen /\ found' = found
          /\ \A e \in Deliveries : e # d => at'[e] = at[e]
      BY <1>2 DEF Provision, TypeOK
    <2> QED
      BY <1>1, <2>1, <2>2, <2>3 DEF Others, Kept
  <1>3. CASE ~answered
    <2>1. Goto(d, "idle") /\ "idle" \in Steps
      BY <1>3 DEF Provision, Steps
    <2> QED
      BY <1>1, <2>1, GotoDoes
  <1> QED
    BY <1>2, <1>3

LEMMA RecordDoes ==
  ASSUME IInv, NEW d \in Deliveries, NEW answered \in BOOLEAN, RecordEffect(d, answered)
  PROVE  RecordEffects(d)
  <1> USE DEF RecordEffects
  <1>1. /\ at[d] = "record" /\ grants > 0 /\ state # "absent"
        /\ found[d] = "succeeded" => state = "succeeded"
        /\ effect' = TRUE
        /\ UNCHANGED <<buyer, row, cache, profile, acked, calm>>
    BY DEF RecordEffect, IInv, LoadedInv, StepInv, Holding
  <1> DEFINE s == CASE answered /\ found[d] = "succeeded" -> "mail"
                    [] answered /\ found[d] = "running" -> "complete"
                    [] OTHER -> "idle"
  <1>2. /\ s \in Steps /\ s \in {"mail", "complete", "idle"}
        /\ s = "mail" => state = "succeeded"
        /\ s = "complete" => found[d] = "running"
    BY <1>1 DEF Steps
  <1>3. Goto(d, s)
    BY DEF RecordEffect
  <1> HIDE DEF s
  <1> QED
    BY <1>1, <1>2, <1>3, GotoDoes DEF IInv

LEMMA PlainDoes ==
  ASSUME TypeOK, NEW d \in Deliveries, Deliver(d) \/ NoIdentity(d) \/ Fail(d)
  PROVE  PlainEffects(d)
  <1> USE DEF PlainEffects
  <1>1. CASE Deliver(d)
    <2>1. Goto(d, "load") /\ "load" \in Steps
      BY <1>1 DEF Deliver, Steps
    <2> QED
      BY <1>1, <2>1, GotoDoes DEF Deliver
  <1>2. CASE NoIdentity(d) \/ Fail(d)
    <2>1. Goto(d, "idle") /\ "idle" \in Steps
      BY <1>2 DEF NoIdentity, Fail, Steps
    <2> QED
      BY <1>2, <2>1, GotoDoes DEF NoIdentity, Fail
  <1> QED
    BY <1>1, <1>2

LEMMA MailDoes ==
  ASSUME TypeOK, NEW d \in Deliveries, Mail(d)
  PROVE  MailEffects(d)
  <1> USE DEF MailEffects
  <1>1. Goto(d, "answer") /\ "answer" \in Steps
    BY DEF Mail, Steps
  <1>2. /\ at[d] = "mail" /\ mails' \in Nat
        /\ UNCHANGED <<buyer, row, effect, cache, grants, last, others, acked, calm>>
    BY DEF Mail, TypeOK
  <1> QED
    BY <1>1, <1>2, GotoDoes

LEMMA AnswerDoes ==
  ASSUME TypeOK, NEW d \in Deliveries, Answer(d)
  PROVE  AnswerEffects(d)
  <1> USE DEF AnswerEffects
  <1>1. Goto(d, "idle") /\ "idle" \in Steps
    BY DEF Answer, Steps
  <1> QED
    BY <1>1, GotoDoes DEF Answer

LEMMA DeliveryDoes ==
  ASSUME IInv, NEW d \in Deliveries, DeliveryStep(d) \/ Fail(d)
  PROVE  \/ PlainEffects(d) \/ LoadEffects(d) \/ InsertEffects(d) \/ ResumeEffects(d)
         \/ ProvisionEffects(d) \/ ReloadEffects(d) \/ RecordEffects(d)
         \/ CompleteEffects(d) \/ MailEffects(d) \/ AnswerEffects(d)
  <1>1. TypeOK
    BY DEF IInv
  <1>2. ASSUME NEW answered \in BOOLEAN, InsertRow(d, answered) PROVE InsertEffects(d)
    BY <1>1, <1>2, InsertDoes, Zenon
  <1>3. ASSUME NEW answered \in BOOLEAN, ResumeRow(d, answered) PROVE ResumeEffects(d)
    BY <1>3, ResumeDoes, Zenon
  <1>4. ASSUME NEW answered \in BOOLEAN, Provision(d, answered) PROVE ProvisionEffects(d)
    BY <1>1, <1>4, ProvisionDoes, Zenon
  <1>5. ASSUME NEW answered \in BOOLEAN, RecordEffect(d, answered) PROVE RecordEffects(d)
    BY <1>5, RecordDoes, Zenon
  <1>6. ASSUME NEW answered \in BOOLEAN, Complete(d, answered) PROVE CompleteEffects(d)
    BY <1>6, CompleteDoes, Zenon
  <1> QED
    BY <1>1, <1>2, <1>3, <1>4, <1>5, <1>6, LoadDoes, ReloadDoes, PlainDoes, MailDoes, AnswerDoes,
       Zenon
    DEF DeliveryStep

LEMMA TypeStep == IInv /\ [Next]_vars => TypeOK'
  <1> SUFFICES ASSUME IInv, [Next]_vars PROVE TypeOK'
    OBVIOUS
  <1> USE DEF Others, Kept, Taken, IInv, TypeOK, row, cache, profile, handlers,
         Steps, States, CacheInv
  <1>1. ASSUME NEW d \in Deliveries, PlainEffects(d)
        PROVE  TypeOK'
    BY <1>1 DEF PlainEffects
  <1>2. ASSUME NEW d \in Deliveries, LoadEffects(d)
        PROVE  TypeOK'
    BY <1>2 DEF LoadEffects
  <1>3. ASSUME NEW d \in Deliveries, InsertEffects(d)
        PROVE  TypeOK'
    <2>1. state' \in States /\ moves' \in Nat /\ begun' \in Nat
      BY <1>3 DEF InsertEffects, Move, Stays
    <2>2. leased' \in BOOLEAN /\ due' \in BOOLEAN
      BY <1>3 DEF InsertEffects, Move, Stays
    <2> QED
      BY <1>3, <2>1, <2>2 DEF InsertEffects, RestStays
  <1>4. ASSUME NEW d \in Deliveries, ResumeEffects(d)
        PROVE  TypeOK'
    <2>1. state' \in States /\ moves' \in Nat /\ begun' \in Nat
      BY <1>4 DEF ResumeEffects, Move, Stays
    <2>2. leased' \in BOOLEAN /\ due' \in BOOLEAN
      BY <1>4 DEF ResumeEffects, Move, Stays
    <2> QED
      BY <1>4, <2>1, <2>2 DEF ResumeEffects, RestStays
  <1>5. ASSUME NEW d \in Deliveries, ProvisionEffects(d)
        PROVE  TypeOK'
    BY <1>5 DEF ProvisionEffects
  <1>6. ASSUME NEW d \in Deliveries, ReloadEffects(d)
        PROVE  TypeOK'
    BY <1>6 DEF ReloadEffects
  <1>7. ASSUME NEW d \in Deliveries, RecordEffects(d)
        PROVE  TypeOK'
    BY <1>7 DEF RecordEffects
  <1>8. ASSUME NEW d \in Deliveries, CompleteEffects(d)
        PROVE  TypeOK'
    <2>1. state' \in States /\ moves' \in Nat /\ begun' \in Nat
      BY <1>8 DEF CompleteEffects, Move, Stays
    <2>2. leased' \in BOOLEAN /\ due' \in BOOLEAN
      BY <1>8 DEF CompleteEffects, Move, Stays
    <2> QED
      BY <1>8, <2>1, <2>2 DEF CompleteEffects, RestStays
  <1>9. ASSUME NEW d \in Deliveries, MailEffects(d)
        PROVE  TypeOK'
    BY <1>9 DEF MailEffects
  <1>10. ASSUME NEW d \in Deliveries, AnswerEffects(d)
        PROVE  TypeOK'
    BY <1>10 DEF AnswerEffects
  <1>11. ASSUME NEW r \in Recoverers, ReloadCache(r)
        PROVE  TypeOK'
    BY <1>11 DEF ReloadCache, Refresh
  <1>12. ASSUME NEW r \in Recoverers, RecoverRunning(r)
        PROVE  TypeOK'
    BY <1>12 DEF RecoverRunning, MoveCopy, IsCurrent
  <1>13. ASSUME NEW r \in Recoverers, RecoverRetryable(r)
        PROVE  TypeOK'
    BY <1>13 DEF RecoverRetryable, MoveCopy, IsCurrent
  <1>14. ASSUME NEW r \in Recoverers, Flush(r)
        PROVE  TypeOK'
    <2>1. CASE base[r] = moves
      <3>1. state' \in States /\ retries' \in 0..(MaxRetries + 1) /\ moves' \in Nat
        BY <1>14, <2>1 DEF Flush
      <3>2. base' \in [Recoverers -> Nat] /\ ahead' \in [Recoverers -> Nat]
        BY <1>14, <2>1 DEF Flush
      <3> QED
        BY <1>14, <2>1, <3>1, <3>2 DEF Flush
    <2>2. CASE base[r] # moves
      BY <1>14, <2>2 DEF Flush, Refresh
    <2> QED
      BY <2>1, <2>2
  <1>15. CASE Clock
    BY <1>15 DEF Clock
  <1>16. CASE OtherPurchase
    <2>1. others' \in 0..MaxOthers
      BY <1>16 DEF OtherPurchase
    <2> QED
      BY <1>16, <2>1 DEF OtherPurchase
  <1>17. CASE EndOfTrouble
    BY <1>17 DEF EndOfTrouble
  <1>18. CASE UNCHANGED vars
    BY <1>18 DEF vars
  <1> QED
    BY DeliveryDoes, <1>1, <1>2, <1>3, <1>4, <1>5, <1>6, <1>7, <1>8, <1>9,
       <1>10, <1>11, <1>12, <1>13, <1>14, <1>15, <1>16, <1>17, <1>18
    DEF Next, RecoveryStep

LEMMA LoadedStep == IInv /\ [Next]_vars => LoadedInv'
  <1> SUFFICES ASSUME IInv, [Next]_vars PROVE LoadedInv'
    OBVIOUS
  <1> USE DEF Others, Kept, Taken, IInv, TypeOK, row, cache, profile, handlers,
         Steps, States, LoadedInv, Holding
  <1>1. ASSUME NEW d \in Deliveries, PlainEffects(d)
        PROVE  LoadedInv'
    BY <1>1 DEF PlainEffects
  <1>2. ASSUME NEW d \in Deliveries, LoadEffects(d)
        PROVE  LoadedInv'
    BY <1>2 DEF LoadEffects
  <1>3. ASSUME NEW d \in Deliveries, InsertEffects(d)
        PROVE  LoadedInv'
    BY <1>3 DEF InsertEffects, Move, Stays, RestStays
  <1>4. ASSUME NEW d \in Deliveries, ResumeEffects(d)
        PROVE  LoadedInv'
    BY <1>4 DEF ResumeEffects, Move, Stays, RestStays
  <1>5. ASSUME NEW d \in Deliveries, ProvisionEffects(d)
        PROVE  LoadedInv'
    BY <1>5 DEF ProvisionEffects
  <1>6. ASSUME NEW d \in Deliveries, ReloadEffects(d)
        PROVE  LoadedInv'
    BY <1>6 DEF ReloadEffects
  <1>7. ASSUME NEW d \in Deliveries, RecordEffects(d)
        PROVE  LoadedInv'
    BY <1>7 DEF RecordEffects
  <1>8. ASSUME NEW d \in Deliveries, CompleteEffects(d)
        PROVE  LoadedInv'
    BY <1>8 DEF CompleteEffects, Move, Stays, RestStays
  <1>9. ASSUME NEW d \in Deliveries, MailEffects(d)
        PROVE  LoadedInv'
    BY <1>9 DEF MailEffects
  <1>10. ASSUME NEW d \in Deliveries, AnswerEffects(d)
        PROVE  LoadedInv'
    BY <1>10 DEF AnswerEffects
  <1>11. ASSUME NEW r \in Recoverers, ReloadCache(r)
        PROVE  LoadedInv'
    BY <1>11 DEF ReloadCache, Refresh
  <1>12. ASSUME NEW r \in Recoverers, RecoverRunning(r)
        PROVE  LoadedInv'
    BY <1>12 DEF RecoverRunning, MoveCopy, IsCurrent
  <1>13. ASSUME NEW r \in Recoverers, RecoverRetryable(r)
        PROVE  LoadedInv'
    BY <1>13 DEF RecoverRetryable, MoveCopy, IsCurrent
  <1>14. ASSUME NEW r \in Recoverers, Flush(r)
        PROVE  LoadedInv'
    BY <1>14 DEF Flush, Refresh, IsCurrent, CacheInv
  <1>15. CASE Clock
    BY <1>15 DEF Clock
  <1>16. CASE OtherPurchase
    BY <1>16 DEF OtherPurchase
  <1>17. CASE EndOfTrouble
    BY <1>17 DEF EndOfTrouble
  <1>18. CASE UNCHANGED vars
    BY <1>18 DEF vars
  <1> QED
    BY DeliveryDoes, <1>1, <1>2, <1>3, <1>4, <1>5, <1>6, <1>7, <1>8, <1>9,
       <1>10, <1>11, <1>12, <1>13, <1>14, <1>15, <1>16, <1>17, <1>18
    DEF Next, RecoveryStep

LEMMA CacheStep == IInv /\ [Next]_vars => CacheInv'
  <1> SUFFICES ASSUME IInv, [Next]_vars PROVE CacheInv'
    OBVIOUS
  <1> USE DEF Others, Kept, Taken, IInv, TypeOK, row, cache, profile, handlers,
         Steps, States, CacheInv, RowInv, IsCurrent
  <1>1. ASSUME NEW d \in Deliveries, PlainEffects(d)
        PROVE  CacheInv'
    BY <1>1 DEF PlainEffects
  <1>2. ASSUME NEW d \in Deliveries, LoadEffects(d)
        PROVE  CacheInv'
    BY <1>2 DEF LoadEffects
  <1>3. ASSUME NEW d \in Deliveries, InsertEffects(d)
        PROVE  CacheInv'
    BY <1>3 DEF InsertEffects, Move, Stays, RestStays
  <1>4. ASSUME NEW d \in Deliveries, ResumeEffects(d)
        PROVE  CacheInv'
    BY <1>4 DEF ResumeEffects, Move, Stays, RestStays
  <1>5. ASSUME NEW d \in Deliveries, ProvisionEffects(d)
        PROVE  CacheInv'
    BY <1>5 DEF ProvisionEffects
  <1>6. ASSUME NEW d \in Deliveries, ReloadEffects(d)
        PROVE  CacheInv'
    BY <1>6 DEF ReloadEffects
  <1>7. ASSUME NEW d \in Deliveries, RecordEffects(d)
        PROVE  CacheInv'
    BY <1>7 DEF RecordEffects
  <1>8. ASSUME NEW d \in Deliveries, CompleteEffects(d)
        PROVE  CacheInv'
    BY <1>8 DEF CompleteEffects, Move, Stays, RestStays
  <1>9. ASSUME NEW d \in Deliveries, MailEffects(d)
        PROVE  CacheInv'
    BY <1>9 DEF MailEffects
  <1>10. ASSUME NEW d \in Deliveries, AnswerEffects(d)
        PROVE  CacheInv'
    BY <1>10 DEF AnswerEffects
  <1>11. ASSUME NEW r \in Recoverers, ReloadCache(r)
        PROVE  CacheInv'
    BY <1>11 DEF ReloadCache, Refresh
  <1>12. ASSUME NEW r \in Recoverers, RecoverRunning(r)
        PROVE  CacheInv'
    BY <1>12 DEF RecoverRunning, MoveCopy, IsCurrent
  <1>13. ASSUME NEW r \in Recoverers, RecoverRetryable(r)
        PROVE  CacheInv'
    BY <1>13 DEF RecoverRetryable, MoveCopy, IsCurrent
  <1>14. ASSUME NEW r \in Recoverers, Flush(r)
        PROVE  CacheInv'
    BY <1>14 DEF Flush, Refresh, IsCurrent
  <1>15. CASE Clock
    BY <1>15 DEF Clock
  <1>16. CASE OtherPurchase
    BY <1>16 DEF OtherPurchase
  <1>17. CASE EndOfTrouble
    BY <1>17 DEF EndOfTrouble
  <1>18. CASE UNCHANGED vars
    BY <1>18 DEF vars
  <1> QED
    BY DeliveryDoes, <1>1, <1>2, <1>3, <1>4, <1>5, <1>6, <1>7, <1>8, <1>9,
       <1>10, <1>11, <1>12, <1>13, <1>14, <1>15, <1>16, <1>17, <1>18
    DEF Next, RecoveryStep

LEMMA RowStep == IInv /\ [Next]_vars => RowInv'
  <1> SUFFICES ASSUME IInv, [Next]_vars PROVE RowInv'
    OBVIOUS
  <1> USE DEF Others, Kept, Taken, IInv, TypeOK, row, cache, profile, handlers,
         Steps, States, CacheInv, RowInv
  <1>1. ASSUME NEW d \in Deliveries, PlainEffects(d)
        PROVE  RowInv'
    BY <1>1 DEF PlainEffects
  <1>2. ASSUME NEW d \in Deliveries, LoadEffects(d)
        PROVE  RowInv'
    BY <1>2 DEF LoadEffects
  <1>3. ASSUME NEW d \in Deliveries, InsertEffects(d)
        PROVE  RowInv'
    BY <1>3 DEF InsertEffects, Move, Stays, RestStays
  <1>4. ASSUME NEW d \in Deliveries, ResumeEffects(d)
        PROVE  RowInv'
    BY <1>4 DEF ResumeEffects, Move, Stays, RestStays
  <1>5. ASSUME NEW d \in Deliveries, ProvisionEffects(d)
        PROVE  RowInv'
    BY <1>5 DEF ProvisionEffects
  <1>6. ASSUME NEW d \in Deliveries, ReloadEffects(d)
        PROVE  RowInv'
    BY <1>6 DEF ReloadEffects
  <1>7. ASSUME NEW d \in Deliveries, RecordEffects(d)
        PROVE  RowInv'
    BY <1>7 DEF RecordEffects
  <1>8. ASSUME NEW d \in Deliveries, CompleteEffects(d)
        PROVE  RowInv'
    BY <1>8 DEF CompleteEffects, Move, Stays, RestStays
  <1>9. ASSUME NEW d \in Deliveries, MailEffects(d)
        PROVE  RowInv'
    BY <1>9 DEF MailEffects
  <1>10. ASSUME NEW d \in Deliveries, AnswerEffects(d)
        PROVE  RowInv'
    BY <1>10 DEF AnswerEffects
  <1>11. ASSUME NEW r \in Recoverers, ReloadCache(r)
        PROVE  RowInv'
    BY <1>11 DEF ReloadCache, Refresh
  <1>12. ASSUME NEW r \in Recoverers, RecoverRunning(r)
        PROVE  RowInv'
    BY <1>12 DEF RecoverRunning, MoveCopy, IsCurrent
  <1>13. ASSUME NEW r \in Recoverers, RecoverRetryable(r)
        PROVE  RowInv'
    BY <1>13 DEF RecoverRetryable, MoveCopy, IsCurrent
  <1>14. ASSUME NEW r \in Recoverers, Flush(r)
        PROVE  RowInv'
    BY <1>14 DEF Flush, Refresh, IsCurrent
  <1>15. CASE Clock
    BY <1>15 DEF Clock
  <1>16. CASE OtherPurchase
    BY <1>16 DEF OtherPurchase
  <1>17. CASE EndOfTrouble
    BY <1>17 DEF EndOfTrouble
  <1>18. CASE UNCHANGED vars
    BY <1>18 DEF vars
  <1> QED
    BY DeliveryDoes, <1>1, <1>2, <1>3, <1>4, <1>5, <1>6, <1>7, <1>8, <1>9,
       <1>10, <1>11, <1>12, <1>13, <1>14, <1>15, <1>16, <1>17, <1>18
    DEF Next, RecoveryStep

LEMMA StepStep == IInv /\ [Next]_vars => StepInv'
  <1> SUFFICES ASSUME IInv, [Next]_vars PROVE StepInv'
    OBVIOUS
  <1> USE DEF Others, Kept, Taken, IInv, TypeOK, row, cache, profile, handlers,
         Steps, States, LoadedInv, CacheInv, StepInv, SaleInv, Holding
  <1>1. ASSUME NEW d \in Deliveries, PlainEffects(d)
        PROVE  StepInv'
    BY <1>1 DEF PlainEffects
  <1>2. ASSUME NEW d \in Deliveries, LoadEffects(d)
        PROVE  StepInv'
    BY <1>2 DEF LoadEffects
  <1>3. ASSUME NEW d \in Deliveries, InsertEffects(d)
        PROVE  StepInv'
    BY <1>3 DEF InsertEffects, Move, Stays, RestStays
  <1>4. ASSUME NEW d \in Deliveries, ResumeEffects(d)
        PROVE  StepInv'
    BY <1>4 DEF ResumeEffects, Move, Stays, RestStays
  <1>5. ASSUME NEW d \in Deliveries, ProvisionEffects(d)
        PROVE  StepInv'
    BY <1>5 DEF ProvisionEffects
  <1>6. ASSUME NEW d \in Deliveries, ReloadEffects(d)
        PROVE  StepInv'
    BY <1>6 DEF ReloadEffects
  <1>7. ASSUME NEW d \in Deliveries, RecordEffects(d)
        PROVE  StepInv'
    BY <1>7 DEF RecordEffects
  <1>8. ASSUME NEW d \in Deliveries, CompleteEffects(d)
        PROVE  StepInv'
    BY <1>8 DEF CompleteEffects, Move, Stays, RestStays
  <1>9. ASSUME NEW d \in Deliveries, MailEffects(d)
        PROVE  StepInv'
    BY <1>9 DEF MailEffects
  <1>10. ASSUME NEW d \in Deliveries, AnswerEffects(d)
        PROVE  StepInv'
    BY <1>10 DEF AnswerEffects
  <1>11. ASSUME NEW r \in Recoverers, ReloadCache(r)
        PROVE  StepInv'
    BY <1>11 DEF ReloadCache, Refresh
  <1>12. ASSUME NEW r \in Recoverers, RecoverRunning(r)
        PROVE  StepInv'
    BY <1>12 DEF RecoverRunning, MoveCopy, IsCurrent
  <1>13. ASSUME NEW r \in Recoverers, RecoverRetryable(r)
        PROVE  StepInv'
    BY <1>13 DEF RecoverRetryable, MoveCopy, IsCurrent
  <1>14. ASSUME NEW r \in Recoverers, Flush(r)
        PROVE  StepInv'
    BY <1>14 DEF Flush, Refresh, IsCurrent
  <1>15. CASE Clock
    BY <1>15 DEF Clock
  <1>16. CASE OtherPurchase
    BY <1>16 DEF OtherPurchase
  <1>17. CASE EndOfTrouble
    BY <1>17 DEF EndOfTrouble
  <1>18. CASE UNCHANGED vars
    BY <1>18 DEF vars
  <1> QED
    BY DeliveryDoes, <1>1, <1>2, <1>3, <1>4, <1>5, <1>6, <1>7, <1>8, <1>9,
       <1>10, <1>11, <1>12, <1>13, <1>14, <1>15, <1>16, <1>17, <1>18
    DEF Next, RecoveryStep

LEMMA SaleStep == IInv /\ [Next]_vars => SaleInv'
  <1> SUFFICES ASSUME IInv, [Next]_vars PROVE SaleInv'
    OBVIOUS
  <1> USE DEF Others, Kept, Taken, IInv, TypeOK, row, cache, profile, handlers,
         Steps, States, CacheInv, StepInv, SaleInv
  <1>1. ASSUME NEW d \in Deliveries, PlainEffects(d)
        PROVE  SaleInv'
    BY <1>1 DEF PlainEffects
  <1>2. ASSUME NEW d \in Deliveries, LoadEffects(d)
        PROVE  SaleInv'
    BY <1>2 DEF LoadEffects
  <1>3. ASSUME NEW d \in Deliveries, InsertEffects(d)
        PROVE  SaleInv'
    BY <1>3 DEF InsertEffects, Move, Stays, RestStays
  <1>4. ASSUME NEW d \in Deliveries, ResumeEffects(d)
        PROVE  SaleInv'
    BY <1>4 DEF ResumeEffects, Move, Stays, RestStays
  <1>5. ASSUME NEW d \in Deliveries, ProvisionEffects(d)
        PROVE  SaleInv'
    BY <1>5 DEF ProvisionEffects
  <1>6. ASSUME NEW d \in Deliveries, ReloadEffects(d)
        PROVE  SaleInv'
    BY <1>6 DEF ReloadEffects
  <1>7. ASSUME NEW d \in Deliveries, RecordEffects(d)
        PROVE  SaleInv'
    BY <1>7 DEF RecordEffects
  <1>8. ASSUME NEW d \in Deliveries, CompleteEffects(d)
        PROVE  SaleInv'
    BY <1>8 DEF CompleteEffects, Move, Stays, RestStays
  <1>9. ASSUME NEW d \in Deliveries, MailEffects(d)
        PROVE  SaleInv'
    BY <1>9 DEF MailEffects
  <1>10. ASSUME NEW d \in Deliveries, AnswerEffects(d)
        PROVE  SaleInv'
    BY <1>10 DEF AnswerEffects
  <1>11. ASSUME NEW r \in Recoverers, ReloadCache(r)
        PROVE  SaleInv'
    BY <1>11 DEF ReloadCache, Refresh
  <1>12. ASSUME NEW r \in Recoverers, RecoverRunning(r)
        PROVE  SaleInv'
    BY <1>12 DEF RecoverRunning, MoveCopy, IsCurrent
  <1>13. ASSUME NEW r \in Recoverers, RecoverRetryable(r)
        PROVE  SaleInv'
    BY <1>13 DEF RecoverRetryable, MoveCopy, IsCurrent
  <1>14. ASSUME NEW r \in Recoverers, Flush(r)
        PROVE  SaleInv'
    BY <1>14 DEF Flush, Refresh, IsCurrent
  <1>15. CASE Clock
    BY <1>15 DEF Clock
  <1>16. CASE OtherPurchase
    BY <1>16 DEF OtherPurchase
  <1>17. CASE EndOfTrouble
    BY <1>17 DEF EndOfTrouble
  <1>18. CASE UNCHANGED vars
    BY <1>18 DEF vars
  <1> QED
    BY DeliveryDoes, <1>1, <1>2, <1>3, <1>4, <1>5, <1>6, <1>7, <1>8, <1>9,
       <1>10, <1>11, <1>12, <1>13, <1>14, <1>15, <1>16, <1>17, <1>18
    DEF Next, RecoveryStep

\* The inductive invariant holds in every reachable state.
THEOREM Invariance == Spec => []IInv
  <1>1. IInv /\ [Next]_vars => IInv'
    BY TypeStep, LoadedStep, CacheStep, RowStep, StepStep, SaleStep DEF IInv
  <1> QED
    BY InitInv, <1>1, PTL DEF Spec

\* Every variable keeps its type and recovery its budget.
THEOREM DppTypeCorrect == Spec => []TypeOK
  BY Invariance, PTL DEF IInv

\* No delivery grants a sale that has no continuity row.
THEOREM GrantedHasRow == Spec => []GrantHasRow
  <1>1. IInv => GrantHasRow
    BY DEF IInv, SaleInv, GrantHasRow
  <1> QED
    BY <1>1, Invariance, PTL

\* However many recovery processes hold copies of the row, and whichever of their
\* writes and reloads fail, the row counts the interruptions that happened.
THEOREM RetriesCount == Spec => []RetriesAreReal
  <1>1. IInv => RetriesAreReal
    BY DEF IInv, TypeOK, States, RowInv, RetriesAreReal
  <1> QED
    BY <1>1, Invariance, PTL

\* The table's trigger keeps a late completion from undoing recovery's move, and
\* a late flush from undoing a completion.
THEOREM SuccessFromRunning == Spec => OnlyRunningSucceeds
  <1>1. ASSUME IInv, [Next]_vars, state' = "succeeded"
        PROVE  state \in {"running", "succeeded"}
    <2> USE <1>1 DEF row, profile, handlers, cache
    <2>1. ASSUME NEW d \in Deliveries, DeliveryStep(d) \/ Fail(d)
          PROVE  state \in {"running", "succeeded"}
      BY <2>1, DeliveryDoes DEF PlainEffects, LoadEffects, InsertEffects, ResumeEffects,
         ProvisionEffects, ReloadEffects, RecordEffects, CompleteEffects, MailEffects,
         AnswerEffects, Move, Stays
    <2>2. ASSUME NEW r \in Recoverers, RecoveryStep(r)
          PROVE  state \in {"running", "succeeded"}
      BY <2>2 DEF RecoveryStep, ReloadCache, RecoverRunning, RecoverRetryable, MoveCopy, Flush,
         Refresh, IInv, CacheInv
    <2> QED
      BY <2>1, <2>2 DEF Next, Clock, OtherPurchase, EndOfTrouble, vars
  <1>2. IInv /\ [Next]_vars => [state' = "succeeded" => state \in {"running", "succeeded"}]_vars
    BY <1>1
  <1> QED
    BY Invariance, <1>2, PTL DEF Spec, OnlyRunningSucceeds

\* The deliveries that have granted and have not mailed yet.
AfterGrant == {"reload", "record", "complete", "mail"}
Owing == {d \in Deliveries : at[d] \in AfterGrant /\ ~skipped[d]}

\* Each mail sent or owed has its grant, and the first comes after completion.
MailInv ==
    /\ mails + Cardinality(Owing) <= grants
    /\ mails > 0 => state = "succeeded"

LEMMA GotoOwes ==
  ASSUME TypeOK, NEW d \in Deliveries, NEW s \in Steps,
         Goto(d, s) \/ GotoWithRow(d, s),
         s \in AfterGrant => at[d] \in AfterGrant
  PROVE  Owing' \subseteq Owing /\ (s \notin AfterGrant => d \notin Owing')
  <1>1. at' = [at EXCEPT ![d] = s] /\ at \in [Deliveries -> Steps]
    BY DEF Goto, GotoWithRow, TypeOK
  <1>2. at'[d] = s /\ \A e \in Deliveries : e # d => at'[e] = at[e]
    BY <1>1
  <1>3. \A e \in Deliveries : e # d => skipped'[e] = skipped[e]
    BY Zenon DEF Goto, GotoWithRow, TypeOK
  <1>4. s \in AfterGrant => s \notin {"idle", "answer"}
    BY DEF AfterGrant
  <1>5. s \in AfterGrant /\ ~skipped'[d] => ~skipped[d]
    <2>1. skipped \in [Deliveries -> BOOLEAN] /\ (s \in AfterGrant => s # "idle")
      BY <1>4 DEF TypeOK
    <2>2. CASE Goto(d, s)
      BY <1>4, <2>1, <2>2, Zenon DEF Goto
    <2>3. CASE GotoWithRow(d, s)
      BY <2>1, <2>3, Zenon DEF GotoWithRow
    <2> QED
      BY <2>2, <2>3
  <1>6. ASSUME NEW e \in Owing' PROVE e \in Owing /\ (s \notin AfterGrant => e # d)
    <2>1. e \in Deliveries /\ at'[e] \in AfterGrant /\ ~skipped'[e]
      BY <1>6 DEF Owing
    <2>2. CASE e = d
      BY <1>2, <1>5, <2>1, <2>2, Zenon DEF Owing
    <2>3. CASE e # d
      BY <1>2, <1>3, <2>1, <2>3, Zenon DEF Owing
    <2> QED
      BY <2>2, <2>3
  <1> QED
    BY <1>6

\* A step sends a mail that was owed, grants and may owe one, or does neither.
OwesMore(d) == grants' = grants + 1 /\ mails' = mails /\ Owing' \subseteq Owing \cup {d}
OwesLess(d) == grants' = grants /\ mails' = mails + 1 /\ d \in Owing /\ Owing' \subseteq Owing \ {d}
OwesNoMore == grants' = grants /\ mails' = mails /\ Owing' \subseteq Owing

LEMMA GrantOwes ==
  ASSUME TypeOK, NEW d \in Deliveries, NEW answered \in BOOLEAN, Provision(d, answered)
  PROVE  OwesMore(d) \/ OwesNoMore
  <1>1. mails' = mails
    BY DEF Provision, profile
  <1>2. CASE ~answered
    <2>1. Goto(d, "idle") /\ "idle" \in Steps /\ "idle" \notin AfterGrant
      BY <1>2 DEF Provision, Steps, AfterGrant
    <2>2. Owing' \subseteq Owing
      BY <2>1, GotoOwes
    <2>3. grants' = grants \/ grants' = grants + 1
      BY DEF Provision
    <2> QED
      BY <1>1, <2>2, <2>3 DEF OwesMore, OwesNoMore
  <1>3. CASE answered
    <2>1. \A e \in Deliveries : e # d => at'[e] = at[e]
      BY <1>3 DEF Provision, TypeOK
    <2>2. skipped' = [skipped EXCEPT ![d] = last] /\ skipped \in [Deliveries -> BOOLEAN]
      BY <1>3, Zenon DEF Provision, TypeOK
    <2>3. skipped'[d] = last /\ \A e \in Deliveries : e # d => skipped'[e] = skipped[e]
      BY <2>2, Zenon
    <2>4. ASSUME NEW e \in Owing' PROVE e \in Owing \/ (e = d /\ ~last)
      <3>1. e \in Deliveries /\ at'[e] \in AfterGrant /\ ~skipped'[e]
        BY <2>4 DEF Owing
      <3>2. CASE e = d
        BY <2>3, <3>1, <3>2, Zenon
      <3>3. CASE e # d
        BY <2>1, <2>3, <3>1, <3>3, Zenon DEF Owing
      <3> QED
        BY <3>2, <3>3
    <2>5. CASE last
      <3>1. grants' = grants
        BY <2>5 DEF Provision
      <3>2. Owing' \subseteq Owing
        BY <2>4, <2>5
      <3> QED
        BY <1>1, <3>1, <3>2 DEF OwesNoMore
    <2>6. CASE ~last
      <3>1. grants' = grants + 1
        BY <2>6 DEF Provision
      <3>2. Owing' \subseteq Owing \cup {d}
        BY <2>4
      <3> QED
        BY <1>1, <3>1, <3>2 DEF OwesMore
    <2> QED
      BY <2>5, <2>6
  <1> QED
    BY <1>2, <1>3

LEMMA MailOwes ==
  ASSUME TypeOK, NEW d \in Deliveries, Mail(d)
  PROVE  OwesLess(d) \/ OwesNoMore
  <1>1. Goto(d, "answer") /\ "answer" \in Steps /\ "answer" \notin AfterGrant
    BY DEF Mail, Steps, AfterGrant
  <1>2. Owing' \subseteq Owing \ {d}
    BY <1>1, GotoOwes
  <1>3. at[d] = "mail" /\ grants' = grants
    BY DEF Mail
  <1>4. (mails' = mails + 1 /\ ~skipped[d]) \/ mails' = mails
    BY Zenon DEF Mail
  <1>5. ~skipped[d] => d \in Owing
    BY <1>3 DEF Owing, AfterGrant
  <1> QED
    BY <1>2, <1>3, <1>4, <1>5, Zenon DEF OwesLess, OwesNoMore

\* The other steps of a delivery.
LEMMA OtherOwes ==
  ASSUME TypeOK, NEW d \in Deliveries,
         \/ Deliver(d) \/ NoIdentity(d) \/ Fail(d) \/ Load(d) \/ Reload(d) \/ Answer(d)
         \/ \E answered \in BOOLEAN :
               InsertRow(d, answered) \/ ResumeRow(d, answered) \/ RecordEffect(d, answered)
               \/ Complete(d, answered)
  PROVE  OwesNoMore
  <1>1. grants' = grants /\ mails' = mails
    BY DEF profile, Deliver, NoIdentity, Fail, Load, GotoWithRow, Reload, Answer, InsertRow,
       ResumeRow, RecordEffect, Complete
  <1>2. PICK s \in Steps : (Goto(d, s) \/ GotoWithRow(d, s)) /\ (s \in AfterGrant => at[d] \in AfterGrant)
    <2> USE DEF Steps, AfterGrant
    <2>1. CASE Deliver(d)
      BY <2>1 DEF Deliver
    <2>2. CASE NoIdentity(d) \/ Fail(d) \/ Answer(d)
      BY <2>2 DEF NoIdentity, Fail, Answer
    <2>3. CASE Load(d)
      <3> DEFINE s == CASE state \in {"running", "succeeded"} -> "provision"
                        [] state = "absent" -> "insert"
                        [] state = "authorized" -> "resume"
                        [] OTHER -> "idle"
      <3>1. s \in Steps /\ s \notin AfterGrant
        OBVIOUS
      <3>2. GotoWithRow(d, s)
        BY <2>3 DEF Load
      <3> HIDE DEF s
      <3> QED
        BY <3>1, <3>2
    <2>4. CASE Reload(d)
      <3>1. at[d] = "reload" /\ (GotoWithRow(d, "idle") \/ GotoWithRow(d, "record"))
        BY <2>4 DEF Reload
      <3> QED
        BY <3>1
    <2>5. ASSUME NEW answered \in BOOLEAN, InsertRow(d, answered) \/ ResumeRow(d, answered)
          PROVE  Goto(d, "provision") \/ Goto(d, "idle")
      <3>1. CASE answered
        BY <2>5, <3>1 DEF InsertRow, ResumeRow
      <3>2. CASE ~answered
        BY <2>5, <3>2 DEF InsertRow, ResumeRow
      <3> QED
        BY <3>1, <3>2
    <2>6. ASSUME NEW answered \in BOOLEAN, RecordEffect(d, answered)
          PROVE  at[d] = "record" /\ \E s \in {"mail", "complete", "idle"} : Goto(d, s)
      <3> DEFINE s == CASE answered /\ found[d] = "succeeded" -> "mail"
                        [] answered /\ found[d] = "running" -> "complete"
                        [] OTHER -> "idle"
      <3>1. s \in {"mail", "complete", "idle"}
        OBVIOUS
      <3>2. at[d] = "record" /\ Goto(d, s)
        BY <2>6 DEF RecordEffect
      <3> HIDE DEF s
      <3> QED
        BY <3>1, <3>2
    <2>7. ASSUME NEW answered \in BOOLEAN, Complete(d, answered)
          PROVE  at[d] = "complete" /\ (Goto(d, "mail") \/ Goto(d, "idle"))
      <3>1. CASE answered
        BY <2>7, <3>1 DEF Complete
      <3>2. CASE ~answered
        BY <2>7, <3>2 DEF Complete
      <3> QED
        BY <3>1, <3>2
    <2>8. CASE \E answered \in BOOLEAN : InsertRow(d, answered) \/ ResumeRow(d, answered)
      BY <2>5, <2>8
    <2>9. CASE \E answered \in BOOLEAN : RecordEffect(d, answered)
      <3>1. at[d] = "record" /\ \E s \in {"mail", "complete", "idle"} : Goto(d, s)
        BY <2>6, <2>9, Zenon
      <3> QED
        BY <3>1
    <2>10. CASE \E answered \in BOOLEAN : Complete(d, answered)
      <3>1. at[d] = "complete" /\ (Goto(d, "mail") \/ Goto(d, "idle"))
        BY <2>7, <2>10, Zenon
      <3> QED
        BY <3>1
    <2> QED
      BY <2>1, <2>2, <2>3, <2>4, <2>8, <2>9, <2>10
  <1>3. Owing' \subseteq Owing
    BY <1>2, GotoOwes
  <1> QED
    BY <1>1, <1>3 DEF OwesNoMore

LEMMA NextOwes ==
  ASSUME TypeOK, [Next]_vars
  PROVE  OwesNoMore \/ \E d \in Deliveries : OwesMore(d) \/ OwesLess(d)
  <1>1. ASSUME NEW d \in Deliveries, DeliveryStep(d) \/ Fail(d)
        PROVE  OwesMore(d) \/ OwesLess(d) \/ OwesNoMore
    BY <1>1, GrantOwes, MailOwes, OtherOwes, Zenon DEF DeliveryStep
  <1>2. ASSUME UNCHANGED <<at, skipped, grants, mails>> PROVE OwesNoMore
    BY <1>2 DEF OwesNoMore, Owing
  <1>3. CASE (\E r \in Recoverers : RecoveryStep(r)) \/ Clock \/ OtherPurchase \/ EndOfTrouble
             \/ UNCHANGED vars
    <2>1. UNCHANGED <<at, skipped, grants, mails>>
      BY <1>3 DEF RecoveryStep, ReloadCache, Refresh, RecoverRunning, RecoverRetryable, MoveCopy,
         Flush, Clock, OtherPurchase, EndOfTrouble, vars, handlers, profile
    <2> QED
      BY <1>2, <2>1
  <1> QED
    BY <1>1, <1>3 DEF Next

\* A completed row stays so, and the first mail is sent of a completed one.
LEMMA CompletedStays ==
  ASSUME IInv, [Next]_vars
  PROVE  /\ state = "succeeded" => state' = "succeeded"
         /\ mails' = mails \/ state = "succeeded"
  <1> USE DEF row, profile, handlers, cache
  <1>1. ASSUME NEW d \in Deliveries, DeliveryStep(d) \/ Fail(d)
        PROVE  /\ state = "succeeded" => state' = "succeeded"
               /\ mails' = mails \/ state = "succeeded"
    BY <1>1, DeliveryDoes DEF PlainEffects, LoadEffects, InsertEffects, ResumeEffects,
       ProvisionEffects, ReloadEffects, RecordEffects, CompleteEffects, MailEffects,
       AnswerEffects, Move, Stays, RestStays, IInv, StepInv
  <1>2. ASSUME NEW r \in Recoverers, RecoveryStep(r)
        PROVE  (state = "succeeded" => state' = "succeeded") /\ mails' = mails
    BY <1>2 DEF RecoveryStep, ReloadCache, RecoverRunning, RecoverRetryable, MoveCopy, Flush,
       Refresh, IInv, CacheInv
  <1> QED
    BY <1>1, <1>2 DEF Next, Clock, OtherPurchase, EndOfTrouble, vars

\* One element more is at most one more.
LEMMA AddOne ==
  ASSUME NEW S, NEW x, IsFiniteSet(S)
  PROVE  IsFiniteSet(S \cup {x}) /\ Cardinality(S \cup {x}) <= Cardinality(S) + 1
  <1>1. Cardinality(S) \in Nat
    BY FS_CardinalityType
  <1>2. IsFiniteSet(S \cup {x})
    BY FS_AddElement
  <1>3. Cardinality(S \cup {x}) = Cardinality(S) \/ Cardinality(S \cup {x}) = Cardinality(S) + 1
    BY FS_AddElement
  <1> QED
    BY <1>1, <1>2, <1>3

LEMMA MailStep == IInv /\ MailInv /\ [Next]_vars => MailInv'
  <1> SUFFICES ASSUME IInv, MailInv, [Next]_vars PROVE MailInv'
    OBVIOUS
  <1>1. IsFiniteSet(Owing) /\ IsFiniteSet(Owing') /\ Owing \subseteq Deliveries
    BY DeliveriesAssumption, FS_Subset DEF Owing
  <1>2. Cardinality(Owing) \in Nat /\ Cardinality(Owing') \in Nat
    BY <1>1, FS_CardinalityType
  <1>3. grants \in Nat /\ mails \in Nat /\ mails + Cardinality(Owing) <= grants
    BY DEF IInv, TypeOK, MailInv
  <1>4. mails' + Cardinality(Owing') <= grants'
    <2>1. CASE OwesNoMore
      <3>1. Cardinality(Owing') <= Cardinality(Owing)
        BY <1>1, <2>1, FS_Subset DEF OwesNoMore
      <3> QED
        BY <1>2, <1>3, <2>1, <3>1 DEF OwesNoMore
    <2>2. ASSUME NEW d \in Deliveries, OwesMore(d)
          PROVE  mails' + Cardinality(Owing') <= grants'
      <3>1. /\ IsFiniteSet(Owing \cup {d})
            /\ Cardinality(Owing \cup {d}) <= Cardinality(Owing) + 1
        BY <1>1, AddOne
      <3>2. Cardinality(Owing') <= Cardinality(Owing \cup {d}) /\ Cardinality(Owing \cup {d}) \in Nat
        BY <2>2, <3>1, FS_Subset, FS_CardinalityType DEF OwesMore
      <3> QED
        BY <1>2, <1>3, <2>2, <3>1, <3>2 DEF OwesMore
    <2>3. ASSUME NEW d \in Deliveries, OwesLess(d)
          PROVE  mails' + Cardinality(Owing') <= grants'
      <3>1. /\ IsFiniteSet(Owing \ {d})
            /\ Cardinality(Owing \ {d}) = Cardinality(Owing) - 1
        BY <1>1, <2>3, FS_RemoveElement DEF OwesLess
      <3>2. Cardinality(Owing') <= Cardinality(Owing \ {d})
        BY <2>3, <3>1, FS_Subset DEF OwesLess
      <3> QED
        BY <1>2, <1>3, <2>3, <3>1, <3>2 DEF OwesLess
    <2> QED
      BY <2>1, <2>2, <2>3, NextOwes DEF IInv
  <1>5. mails' > 0 => state' = "succeeded"
    <2>1. mails' = mails => (mails' > 0 => state = "succeeded")
      BY DEF MailInv
    <2> QED
      BY <2>1, CompletedStays
  <1> QED
    BY <1>4, <1>5 DEF MailInv

\* Every activation mail has a grant of its own, made by the delivery that sends
\* it, and goes out once the row is completed; whatever runs at the same time.
THEOREM MailsAreEarned == Spec => []MailIsEarned
  <1>1. Init => MailInv
    <2> SUFFICES ASSUME Init PROVE MailInv
      OBVIOUS
    <2>1. Owing = {} /\ mails = 0 /\ grants = 0
      BY DEF Init, Owing, AfterGrant
    <2> QED
      BY <2>1, FS_EmptySet DEF MailInv
  <1>2. IInv /\ MailInv => MailIsEarned
    <2> SUFFICES ASSUME IInv, MailInv PROVE MailIsEarned
      OBVIOUS
    <2>1. Cardinality(Owing) \in Nat
      BY DeliveriesAssumption, FS_Subset, FS_CardinalityType DEF Owing
    <2> QED
      BY <2>1 DEF IInv, TypeOK, MailInv, MailIsEarned
  <1> QED
    BY <1>1, <1>2, MailStep, Invariance, PTL DEF Spec

\* The stage of a sale depends on four things.
LEMMA StageStutters ==
  ASSUME acked' = acked, effect' = effect, grants' = grants, buyer' = buyer,
         state' = state \/ {state, state'} \subseteq {"absent", "running", "retryable_failure", "authorized"}
  PROVE  UNCHANGED Sale!vars
  BY DEF Stage, Sale!vars

LEMMA StageAdvances ==
  ASSUME buyer' = buyer, buyer # "nobody",
         \/ Stage = "paid" /\ Stage' = "granted"
         \/ Stage = "granted" /\ Stage' = "recorded"
         \/ Stage = "recorded" /\ Stage' = "completed"
         \/ Stage = "completed" /\ Stage' = "acknowledged"
  PROVE  Sale!Next
  BY DEF Sale!Next, Sale!Advance, Sale!Following

\* Every step of the fulfilment is a step of the sale or leaves its stage alone.
LEMMA RefinementStep == IInv /\ [Next]_vars => [Sale!Next]_(Sale!vars)
  <1> SUFFICES ASSUME IInv, [Next]_vars PROVE Sale!Next \/ UNCHANGED Sale!vars
    OBVIOUS
  <1> USE DEF row, cache, profile, handlers
  <1>1. ASSUME NEW d \in Deliveries, ProvisionEffects(d)
        PROVE  Sale!Next \/ UNCHANGED Sale!vars
    <2>1. /\ UNCHANGED <<acked, effect, state, buyer>>
          /\ buyer # "nobody"
          /\ grants' > 0 /\ grants \in Nat
          /\ grants' = grants \/ grants = 0 \/ grants > 0
      BY <1>1 DEF ProvisionEffects, IInv, TypeOK, SaleInv
    <2>2. CASE Stage = "paid"
      <3>1. Stage' \in {"paid", "granted"}
        BY <2>1, <2>2 DEF Stage
      <3> QED
        BY <2>1, <2>2, <3>1, StageAdvances DEF Sale!vars
    <2>3. CASE Stage # "paid"
      <3>1. Stage' = Stage
        BY <2>1, <2>3 DEF Stage
      <3> QED
        BY <2>1, <3>1 DEF Sale!vars
    <2> QED
      BY <2>2, <2>3
  <1>2. ASSUME NEW d \in Deliveries, RecordEffects(d)
        PROVE  Sale!Next \/ UNCHANGED Sale!vars
    <2>1. /\ UNCHANGED <<acked, grants, state, buyer>>
          /\ effect' = TRUE
          /\ grants > 0 /\ buyer # "nobody"
          /\ state = "succeeded" => effect
          /\ acked => state = "succeeded"
      BY <1>2 DEF RecordEffects, IInv, SaleInv
    <2>2. CASE Stage = "granted"
      <3>1. Stage' = "recorded"
        BY <2>1, <2>2 DEF Stage
      <3> QED
        BY <2>1, <2>2, <3>1, StageAdvances
    <2>3. CASE Stage # "granted"
      <3>1. Stage' = Stage
        BY <2>1, <2>3 DEF Stage
      <3> QED
        BY <2>1, <3>1 DEF Sale!vars
    <2> QED
      BY <2>2, <2>3
  <1>3. ASSUME NEW d \in Deliveries, CompleteEffects(d)
        PROVE  Sale!Next \/ UNCHANGED Sale!vars
    <2>1. UNCHANGED <<acked, effect, grants, buyer>> /\ effect /\ grants > 0
      BY <1>3 DEF CompleteEffects, RestStays
    <2>2. CASE state = "running" /\ Move("succeeded", FALSE)
      <3>1. state = "running" /\ state' = "succeeded" /\ buyer # "nobody" /\ ~acked
        BY <2>1, <2>2 DEF Move, IInv, TypeOK, SaleInv
      <3>2. Stage = "recorded" /\ Stage' = "completed"
        BY <2>1, <3>1 DEF Stage
      <3> QED
        BY <2>1, <3>1, <3>2, StageAdvances
    <2>3. CASE Stays
      BY <2>1, <2>3, StageStutters DEF Stays
    <2> QED
      BY <1>3, <2>2, <2>3 DEF CompleteEffects
  <1>4. ASSUME NEW d \in Deliveries, AnswerEffects(d) PROVE Sale!Next \/ UNCHANGED Sale!vars
    <2>1. /\ UNCHANGED <<effect, grants, state, buyer>>
          /\ acked' = TRUE
          /\ state = "succeeded" /\ buyer # "nobody"
      BY <1>4 DEF AnswerEffects, IInv, StepInv, SaleInv
    <2>2. CASE acked
      BY <2>1, <2>2 DEF Stage, Sale!vars
    <2>3. CASE ~acked
      <3>1. Stage = "completed" /\ Stage' = "acknowledged"
        BY <2>1, <2>3 DEF Stage
      <3> QED
        BY <2>1, <3>1, StageAdvances
    <2> QED
      BY <2>2, <2>3
  <1>5. ASSUME NEW d \in Deliveries, InsertEffects(d) \/ ResumeEffects(d)
        PROVE  UNCHANGED Sale!vars
    <2>1. /\ UNCHANGED <<acked, effect, grants, buyer>>
          /\ state' = state \/ (state \in {"absent", "authorized"} /\ state' = "running")
      BY <1>5 DEF InsertEffects, ResumeEffects, RestStays, Stays, Move
    <2> QED
      BY <2>1, StageStutters
  <1>6. ASSUME NEW d \in Deliveries,
               PlainEffects(d) \/ LoadEffects(d) \/ ReloadEffects(d) \/ MailEffects(d)
        PROVE  UNCHANGED Sale!vars
    BY <1>6, StageStutters DEF PlainEffects, LoadEffects, ReloadEffects, MailEffects
  <1>7. ASSUME NEW r \in Recoverers, Flush(r) PROVE Sale!Next \/ UNCHANGED Sale!vars
    <2>1. UNCHANGED <<acked, effect, grants, buyer>>
      BY <1>7 DEF Flush, Refresh
    <2>2. CASE base[r] # moves
      BY <1>7, <2>1, <2>2, StageStutters DEF Flush, Refresh
    <2>3. CASE base[r] = moves
      <3>1. /\ state \in {"running", "retryable_failure"}
            /\ state' \in {"retryable_failure", "authorized", "permanent_failure"}
            /\ ~acked
        BY <1>7, <2>3 DEF Flush, IInv, CacheInv, SaleInv
      <3>2. CASE state' # "permanent_failure"
        BY <2>1, <3>1, <3>2, StageStutters
      <3>3. CASE state' = "permanent_failure"
        <4>1. Stage \in {"paid", "granted", "recorded"} /\ Stage' = "exhausted"
          BY <2>1, <3>1, <3>3 DEF Stage
        <4> QED
          BY <2>1, <4>1 DEF Sale!Next, Sale!Exhaust
      <3> QED
        BY <3>2, <3>3
    <2> QED
      BY <2>2, <2>3
  <1>8. ASSUME NEW r \in Recoverers,
               ReloadCache(r) \/ RecoverRunning(r) \/ RecoverRetryable(r)
        PROVE  UNCHANGED Sale!vars
    BY <1>8, StageStutters DEF ReloadCache, Refresh, RecoverRunning, RecoverRetryable, MoveCopy
  <1>9. CASE Clock \/ OtherPurchase \/ EndOfTrouble \/ UNCHANGED vars
    BY <1>9, StageStutters DEF Clock, OtherPurchase, EndOfTrouble, vars
  <1> QED
    BY <1>1, <1>2, <1>3, <1>4, <1>5, <1>6, <1>7, <1>8, <1>9, DeliveryDoes
    DEF Next, RecoveryStep

LEMMA RefinementInit == Init => Sale!Init
  BY DEF Init, Sale!Init, Stage

\* The deliveries, with the recovery processes and every failure among them,
\* implement the stages of a paid sale.
THEOREM Refinement == Spec => Sale!Spec
  BY RefinementInit, RefinementStep, Invariance, PTL DEF Spec, Sale!Spec
=============================================================================
