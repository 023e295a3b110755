------------------------- MODULE LedgerAnchorProofs -------------------------
(***************************************************************************)
(* Safety of LedgerAnchor for any number of runs.  The invariant follows a *)
(* write from the run that sends it to the row that reports it: while the  *)
(* recorder has never been revoked, a run about to settle a row, or to     *)
(* give up waiting for a reversal, has what it will write on the chain.    *)
(***************************************************************************)
EXTENDS LedgerAnchor, TLAPS

\* What the chain holds before run r reports it.
RunInv(r) ==
    /\ at[r] = "lookup" => kind[r] = "sale"
    /\ at[r] = "settle" => Written(r)
    /\ at[r] = "await" /\ sent[r] = "mined" => Written(r)
    /\ kind[r] = "reversal" /\ at[r] \in {"send", "await", "unconfirmed"} => chain # "none"
    /\ sent[r] = "reversal" => chain # "none"
    /\ at[r] = "await" => sent[r] \in {kind[r], "mined", "none"}

ChainInv ==
    revocations = 0 =>
        /\ recorder
        /\ \A r \in Runs : RunInv(r)

IInv ==
    /\ TypeOK
    /\ RecordedOnce
    /\ ChainInv
    /\ ReceiptIsOnChain

-----------------------------------------------------------------------------
LEMMA InitInv == Init => IInv
<1> SUFFICES ASSUME Init PROVE IInv
  OBVIOUS
<1> USE DEF Init
<1>1. TypeOK
  <2>1. revocations \in 0..MaxRevocations
    BY AnchorAssumption
  <2>2. /\ kind \in [Runs -> Kinds]
        /\ at \in [Runs -> Steps]
        /\ sent \in [Runs -> Kinds \cup {"none", "mined"}]
    BY DEF Kinds, Steps
  <2> QED
    BY <2>1, <2>2 DEF TypeOK
<1>2. RecordedOnce /\ ReceiptIsOnChain
  BY DEF RecordedOnce, ReceiptIsOnChain
<1>3. ChainInv
  BY DEF ChainInv, RunInv
<1> QED
  BY <1>1, <1>2, <1>3 DEF IInv

\* Counting, away from the Booleans.
LEMMA CountUp ==
    ASSUME NEW limit \in Nat, NEW n \in 0..limit, n < limit
    PROVE  n + 1 \in 0..limit /\ n + 1 # 0
  OBVIOUS

LEMMA CountOne ==
    ASSUME NEW n \in Nat
    PROVE  n + 1 \in Nat /\ (n = 0 => n + 1 = 1)
  OBVIOUS

LEMMA RecordSaleDoes ==
    ASSUME RecordSale, sales \in Nat
    PROVE  /\ sales' \in Nat
           /\ \/ chain = "none" /\ chain' = "recorded" /\ (sales = 0 => sales' = 1)
              \/ UNCHANGED <<chain, sales>>
<1>1. \/ chain = "none" /\ chain' = "recorded" /\ sales' = sales + 1
      \/ UNCHANGED <<chain, sales>>
  BY Zenon DEF RecordSale
<1>2. sales + 1 \in Nat /\ (sales = 0 => sales + 1 = 1)
  BY CountOne, Zenon
<1> QED
  BY <1>1, <1>2, Zenon

LEMMA RevokeDoes ==
    ASSUME Revoke, revocations \in 0..MaxRevocations
    PROVE  /\ revocations' \in 0..MaxRevocations
           /\ revocations' # 0
           /\ UNCHANGED chain
<1>1. /\ revocations < MaxRevocations /\ revocations' = revocations + 1
      /\ UNCHANGED chain
  BY Zenon DEF Revoke
<1>2. revocations + 1 \in 0..MaxRevocations /\ revocations + 1 # 0
  BY <1>1, CountUp, AnchorAssumption, Zenon
<1> QED
  BY <1>1, <1>2, Zenon

\* Every step of a run keeps the types.
LEMMA TypeStep ==
    ASSUME TypeOK, [Next]_vars
    PROVE  TypeOK'
<1> USE DEF TypeOK, Kinds, Steps, contract, runs
<1>1. ASSUME NEW r \in Runs, StartAnchor(r) \/ StartReversal(r) \/ StartRetry(r)
      PROVE  TypeOK'
  BY <1>1 DEF StartAnchor, StartReversal, StartRetry, Start, Goto
<1>2. ASSUME NEW r \in Runs, NEW ok \in BOOLEAN, Lookup(r, ok) \/ Upsert(r, ok) \/ Send(r, ok)
      PROVE  TypeOK'
  BY <1>2 DEF Lookup, Upsert, Send, Goto
<1>3. ASSUME NEW r \in Runs, NEW ok \in BOOLEAN, Check(r, ok)
      PROVE  TypeOK'
  <2>1. PICK step \in {"idle", "upsert", "preflight"} : Goto(r, step)
    BY <1>3 DEF Check
  <2> QED
    BY <1>3, <2>1 DEF Check, Goto
<1>4. ASSUME NEW r \in Runs, NEW ok \in BOOLEAN, Write(r, ok)
      PROVE  TypeOK'
  <2>1. at[r] \in {"settle", "unconfirmed", "fail"}
    BY <1>4 DEF Write
  <2>2. Outcome(r) \in [status: {"none", "pending", "anchored", "reversed", "failed"},
                        error: {"none", "confirmation timeout", "other"}]
    BY <2>1 DEF Outcome
  <2>3. Outcome(r).status = "failed" => Outcome(r).error = "other"
    BY <2>1 DEF Outcome
  <2> QED
    BY <1>4, <2>2, <2>3 DEF Write, Goto
<1>5. ASSUME NEW r \in Runs, Preflight(r)
      PROVE  TypeOK'
  <2>1. PICK step \in {"idle", "settle", "send"} : Goto(r, step)
    BY <1>5 DEF Preflight
  <2> QED
    BY <1>5, <2>1 DEF Preflight, Goto
<1>6. ASSUME NEW r \in Runs, Confirmed(r) \/ TimesOut(r) \/ RpcFails(r) \/ Crash(r)
      PROVE  TypeOK'
  <2>1. /\ UNCHANGED <<refunded, receipt, contract, kind, calm>>
        /\ at' \in [Runs -> Steps]
    BY <1>6 DEF Confirmed, TimesOut, RpcFails, Crash, Goto
  <2>2. sent' \in [Runs -> Kinds \cup {"none", "mined"}]
    BY <1>6 DEF Confirmed, TimesOut, RpcFails, Crash, StopWaiting
  <2> QED
    BY <2>1, <2>2
<1>7. ASSUME NEW r \in Runs, Mine(r) \/ Drop(r)
      PROVE  TypeOK'
  <2>1. \E to \in {"none", "mined"} : sent' = [sent EXCEPT ![r] = to]
    BY <1>7 DEF Mine, Drop
  <2>2. chain' \in {"none", "recorded", "reversed"} /\ sales' \in Nat
    <3>1. CASE Mine(r)
      <4>1. CASE RecordSale
        <5>1. chain \in {"none", "recorded", "reversed"} /\ sales \in Nat
          BY Zenon
        <5> QED
          BY <4>1, <5>1, RecordSaleDoes, Zenon
      <4>2. CASE RecordReversal
        BY <4>2 DEF RecordReversal
      <4> QED
        BY <3>1, <4>1, <4>2 DEF Mine
    <3>2. CASE Drop(r)
      BY <3>2 DEF Drop
    <3> QED
      BY <1>7, <3>1, <3>2
  <2> QED
    BY <1>7, <2>1, <2>2 DEF Mine, Drop
<1>8. CASE Refund \/ Restore \/ EndOfTrouble
  BY <1>8 DEF Refund, Restore, EndOfTrouble
<1>9. CASE Revoke
  <2>1. revocations \in 0..MaxRevocations
    BY Zenon
  <2>2. revocations' \in 0..MaxRevocations
    BY <1>9, <2>1, RevokeDoes, Zenon
  <2>3. recorder' \in BOOLEAN
    BY <1>9 DEF Revoke
  <2> QED
    BY <1>9, <2>2, <2>3 DEF Revoke
<1>10. CASE UNCHANGED vars
  BY <1>10 DEF vars
<1> QED
  BY <1>1, <1>2, <1>3, <1>4, <1>5, <1>6, <1>7, <1>8, <1>9, <1>10 DEF Next, RunStep

-----------------------------------------------------------------------------
LEMMA OnceStep ==
    ASSUME TypeOK, RecordedOnce, [Next]_vars
    PROVE  RecordedOnce'
<1> USE DEF RecordedOnce
<1>1. ASSUME NEW r \in Runs, Mine(r)
      PROVE  RecordedOnce'
  <2>1. CASE RecordSale
    <3>1. sales \in Nat
      BY Zenon DEF TypeOK
    <3>2. \/ chain = "none" /\ chain' = "recorded" /\ (sales = 0 => sales' = 1)
          \/ UNCHANGED <<chain, sales>>
      BY <2>1, <3>1, RecordSaleDoes, Zenon
    <3> QED
      BY <3>2
  <2>2. CASE RecordReversal
    BY <2>2 DEF RecordReversal, TypeOK
  <2> QED
    BY <1>1, <2>1, <2>2 DEF Mine
<1>2. ASSUME UNCHANGED <<chain, sales>>
      PROVE  RecordedOnce'
  BY <1>2
<1>3. (\E r \in Runs : Mine(r)) \/ UNCHANGED <<chain, sales>>
  BY DEF Next, RunStep, StartAnchor, StartReversal, StartRetry, Start, Lookup, Check, Upsert,
         Send, Write, Preflight, Confirmed, TimesOut, RpcFails, Crash, Drop, Refund, Revoke,
         Restore, EndOfTrouble, vars, contract
<1> QED
  BY <1>1, <1>2, <1>3

\* A step that leaves the contract and every run but r alone.
LEMMA OthersKeep ==
    ASSUME ChainInv, NEW r \in Runs,
           UNCHANGED <<chain, recorder, revocations>>,
           \A q \in Runs : q # r => /\ kind'[q] = kind[q]
                                   /\ at'[q] = at[q]
                                   /\ sent'[q] = sent[q],
           revocations = 0 => RunInv(r)'
    PROVE  ChainInv'
  BY DEF ChainInv, RunInv, Written

LEMMA ChainStep ==
    ASSUME IInv, [Next]_vars
    PROVE  ChainInv'
<1> USE DEF IInv, contract, runs
<1>1. ASSUME NEW r \in Runs, StartAnchor(r) \/ StartReversal(r) \/ StartRetry(r)
      PROVE  ChainInv'
  <2>1. RunInv(r)'
    BY <1>1 DEF StartAnchor, StartReversal, StartRetry, Start, Goto, TypeOK, RunInv
  <2> QED
    BY <1>1, <2>1, OthersKeep DEF StartAnchor, StartReversal, StartRetry, Start, Goto, TypeOK
<1>2. ASSUME NEW r \in Runs, NEW ok \in BOOLEAN, Lookup(r, ok)
      PROVE  ChainInv'
  <2>1. /\ UNCHANGED <<chain, sales, recorder, revocations, kind, sent>>
        /\ at[r] = "lookup"
        /\ \/ at' = [at EXCEPT ![r] = "settle"] /\ chain # "none"
           \/ at' = [at EXCEPT ![r] = "check"]
    BY <1>2 DEF Lookup, Goto
  <2>2. revocations = 0 => RunInv(r)'
    BY <2>1 DEF ChainInv, RunInv, TypeOK, Written
  <2> QED
    BY <2>1, <2>2, OthersKeep DEF TypeOK
<1>3. ASSUME NEW r \in Runs, NEW ok \in BOOLEAN, NEW step \in {"idle", "upsert", "preflight", "fail"},
             UNCHANGED <<chain, sales, recorder, revocations, kind, sent>>,
             Goto(r, step)
      PROVE  ChainInv'
  <2>1. revocations = 0 => RunInv(r)'
    BY <1>3 DEF Goto, ChainInv, RunInv, TypeOK, Written
  <2> QED
    BY <1>3, <2>1, OthersKeep DEF Goto, TypeOK
<1>4. ASSUME NEW r \in Runs, NEW ok \in BOOLEAN,
             Check(r, ok) \/ Upsert(r, ok) \/ Write(r, ok) \/ RpcFails(r)
      PROVE  ChainInv'
  <2>1. /\ UNCHANGED <<chain, sales, recorder, revocations, kind, sent>>
        /\ \E step \in {"idle", "upsert", "preflight", "fail"} : Goto(r, step)
    BY <1>4 DEF Check, Upsert, Write, RpcFails
  <2> QED
    BY <1>3, <2>1
<1>5. ASSUME NEW r \in Runs, Preflight(r)
      PROVE  ChainInv'
  <2>1. /\ UNCHANGED <<chain, sales, recorder, revocations, kind, sent>>
        /\ \/ Goto(r, "idle")
           \/ Goto(r, "settle") /\ Written(r)
           \/ Goto(r, "send") /\ (kind[r] = "reversal" => chain # "none")
    BY <1>5 DEF Preflight
  <2>2. revocations = 0 => RunInv(r)'
    BY <2>1 DEF Goto, ChainInv, RunInv, TypeOK, Written
  <2> QED
    BY <2>1, <2>2, OthersKeep DEF Goto, TypeOK
<1>6. ASSUME NEW r \in Runs, NEW ok \in BOOLEAN, Send(r, ok)
      PROVE  ChainInv'
  <2>1. /\ UNCHANGED <<chain, sales, recorder, revocations, kind>>
        /\ at[r] = "send"
        /\ recorder => sent' = [sent EXCEPT ![r] = kind[r]]
        /\ \E to \in Kinds \cup {"none"} : sent' = [sent EXCEPT ![r] = to]
        /\ \E step \in {"await", "fail"} : at' = [at EXCEPT ![r] = step]
    BY <1>6 DEF Send, Goto, TypeOK
  <2>2. revocations = 0 => RunInv(r)'
    BY <2>1 DEF ChainInv, RunInv, TypeOK, Written, Kinds
  <2> QED
    BY <2>1, <2>2, OthersKeep DEF TypeOK
<1>7. ASSUME NEW r \in Runs, Confirmed(r) \/ TimesOut(r) \/ Crash(r) \/ Drop(r)
      PROVE  ChainInv'
  <2>1. /\ UNCHANGED <<chain, sales, recorder, revocations, kind>>
        /\ \E to \in {"none", sent[r]} : to # "mined" \/ at[r] # "await"
        /\ sent' = [sent EXCEPT ![r] = "none"] \/ sent' = sent
        /\ \/ at' = [at EXCEPT ![r] = "settle"] /\ at[r] = "await" /\ sent[r] = "mined"
           \/ at' = [at EXCEPT ![r] = "unconfirmed"] /\ at[r] = "await"
           \/ \E step \in {"fail", "idle"} : at' = [at EXCEPT ![r] = step]
           \/ at' = at
    BY <1>7 DEF Confirmed, TimesOut, Crash, Drop, StopWaiting, Goto, TypeOK
  <2>2. revocations = 0 => RunInv(r)'
    BY <2>1 DEF ChainInv, RunInv, TypeOK, Written
  <2> QED
    BY <2>1, <2>2, OthersKeep DEF TypeOK
<1>8. ASSUME NEW r \in Runs, Mine(r)
      PROVE  ChainInv'
  <2>1. /\ UNCHANGED <<recorder, revocations, kind, at>>
        /\ sent[r] = "sale" \/ sent[r] = "reversal"
        /\ at[r] = "await" => sent' = [sent EXCEPT ![r] = "mined"]
        /\ at[r] # "await" => sent' = [sent EXCEPT ![r] = "none"]
    BY <1>8 DEF Mine
  <2>2. SUFFICES ASSUME revocations = 0
                 PROVE  recorder /\ \A q \in Runs : RunInv(q)'
    BY <2>1 DEF ChainInv
  <2>3. recorder /\ \A q \in Runs : RunInv(q)
    BY <2>2 DEF ChainInv
  <2>4. /\ chain # "none" => chain' # "none"
        /\ chain = "reversed" => chain' = "reversed"
        /\ sent[r] = "sale" => chain' # "none"
        /\ sent[r] = "reversal" => chain' = "reversed"
    BY <1>8, <2>3 DEF Mine, RecordSale, RecordReversal, RunInv
  <2>5. ASSUME NEW q \in Runs, q # r
        PROVE  RunInv(q)'
    BY <2>1, <2>3, <2>4, <2>5 DEF RunInv, Written, TypeOK
  <2>6. RunInv(r)'
    BY <2>1, <2>3, <2>4 DEF RunInv, Written, TypeOK
  <2> QED
    BY <2>3, <2>5, <2>6
<1>9. CASE Refund \/ EndOfTrouble \/ UNCHANGED vars
  BY <1>9 DEF Refund, EndOfTrouble, vars, ChainInv, RunInv, Written
<1>10. CASE Revoke
  <2>1. revocations' # 0
    <3>1. revocations \in 0..MaxRevocations
      BY Zenon DEF TypeOK
    <3> QED
      BY <1>10, <3>1, RevokeDoes, Zenon
  <2> QED
    BY <2>1 DEF ChainInv
<1>11. CASE Restore
  BY <1>11 DEF Restore, ChainInv, RunInv, Written
<1> QED
  BY <1>1, <1>2, <1>4, <1>5, <1>6, <1>7, <1>8, <1>9, <1>10, <1>11 DEF Next, RunStep

\* What is on the chain stays there, and a revocation is not forgotten.
LEMMA ChainGrows ==
    ASSUME TypeOK, [Next]_vars
    PROVE  /\ revocations' = 0 => revocations = 0
           /\ chain # "none" => chain' # "none"
           /\ chain = "reversed" => chain' = "reversed"
<1>1. ASSUME NEW r \in Runs, Mine(r)
      PROVE  /\ UNCHANGED revocations
             /\ chain # "none" => chain' # "none"
             /\ chain = "reversed" => chain' = "reversed"
  <2>1. UNCHANGED revocations /\ (RecordSale \/ RecordReversal)
    BY <1>1 DEF Mine
  <2> QED
    BY <2>1 DEF RecordSale, RecordReversal
<1>2. CASE Revoke
  <2>1. revocations \in 0..MaxRevocations
    BY Zenon DEF TypeOK
  <2>2. revocations' # 0 /\ UNCHANGED chain
    BY <1>2, <2>1, RevokeDoes, Zenon
  <2> QED
    BY <2>2
<1>3. (\E r \in Runs : Mine(r)) \/ Revoke \/ UNCHANGED <<chain, revocations>>
  BY DEF Next, RunStep, StartAnchor, StartReversal, StartRetry, Start, Lookup, Check, Upsert,
         Send, Write, Preflight, Confirmed, TimesOut, RpcFails, Crash, Drop, Refund,
         Restore, EndOfTrouble, vars, contract
<1> QED
  BY <1>1, <1>2, <1>3

LEMMA ReceiptStep ==
    ASSUME IInv, [Next]_vars
    PROVE  ReceiptIsOnChain'
<1>1. SUFFICES ASSUME revocations' = 0
               PROVE  /\ receipt'.status \in {"anchored", "reversed"} => chain' # "none"
                      /\ receipt'.status = "reversed" /\ receipt'.error = "none"
                            => chain' = "reversed"
  BY DEF ReceiptIsOnChain
<1>2. /\ revocations = 0
      /\ chain # "none" => chain' # "none"
      /\ chain = "reversed" => chain' = "reversed"
  BY <1>1, ChainGrows DEF IInv
<1>3. /\ receipt.status \in {"anchored", "reversed"} => chain # "none"
      /\ receipt.status = "reversed" /\ receipt.error = "none" => chain = "reversed"
      /\ \A r \in Runs : RunInv(r)
      /\ TypeOK
  BY <1>2 DEF IInv, ReceiptIsOnChain, ChainInv
<1>4. ASSUME NEW r \in Runs, NEW ok \in BOOLEAN, Write(r, ok), receipt' # receipt
      PROVE  /\ receipt'.status \in {"anchored", "reversed"} => chain # "none"
             /\ receipt'.status = "reversed" /\ receipt'.error = "none" => chain = "reversed"
  <2>1. receipt' = Outcome(r) /\ at[r] \in {"settle", "unconfirmed", "fail"}
    BY <1>4 DEF Write
  <2>2. RunInv(r) /\ kind[r] \in {"sale", "reversal"}
    BY <1>3 DEF TypeOK, Kinds
  <2>3. CASE at[r] = "settle"
    BY <2>1, <2>2, <2>3 DEF Outcome, RunInv, Written
  <2>4. CASE at[r] = "unconfirmed"
    BY <2>1, <2>2, <2>4 DEF Outcome, RunInv
  <2>5. CASE at[r] = "fail"
    BY <2>1, <2>2, <2>5, <1>3 DEF Outcome
  <2> QED
    BY <2>1, <2>3, <2>4, <2>5
<1>5. ASSUME NEW r \in Runs, NEW ok \in BOOLEAN, Upsert(r, ok), receipt' # receipt
      PROVE  receipt'.status = "pending"
  BY <1>3, <1>5 DEF Upsert, TypeOK
<1>6. \/ UNCHANGED receipt
      \/ \E r \in Runs, ok \in BOOLEAN : Write(r, ok) \/ Upsert(r, ok)
  BY DEF Next, RunStep, StartAnchor, StartReversal, StartRetry, Start, Lookup, Check,
         Send, Preflight, Confirmed, TimesOut, RpcFails, Crash, Mine, Drop, Refund, Revoke,
         Restore, EndOfTrouble, vars
<1> QED
  BY <1>2, <1>3, <1>4, <1>5, <1>6

THEOREM Invariance == Spec => []IInv
<1>1. IInv /\ [Next]_vars => IInv'
  BY TypeStep, OnceStep, ChainStep, ReceiptStep DEF IInv
<1> QED
  BY <1>1, InitInv, PTL DEF Spec

\* The receipt, the contract and the runs keep their types, for any number of
\* runs; a failed receipt says why.
THEOREM AnchorTypeCorrect == Spec => []TypeOK
  BY Invariance, PTL DEF IInv

\* However many runs send it, a sale gets one id.
THEOREM OneId == Spec => []RecordedOnce
  BY Invariance, PTL DEF IInv

\* While the recorder has never been revoked, the receipt says no more than the
\* chain does.
THEOREM ReceiptsAreTrue == Spec => []ReceiptIsOnChain
  BY Invariance, PTL DEF IInv
=============================================================================
