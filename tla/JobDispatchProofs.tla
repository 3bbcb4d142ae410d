--------------------------- MODULE JobDispatchProofs ---------------------------
(***************************************************************************)
(* The safety of JobDispatch for any callers, commands, payloads and       *)
(* bounds.  The inductive invariant says who holds the uncommitted row and *)
(* the row lock, what each call has learnt by the place it stands at, and  *)
(* that every emission beyond the settled one is paid for by a fault.      *)
(***************************************************************************)
EXTENDS JobDispatch, TLAPS

\* A call in progress names a command and a payload; only a call about to close its
\* transaction has an outcome.
CallInv ==
    \A c \in Caller :
        /\ pc[c] # "idle" => target[c] \in Command /\ request[c] \in Payload
        /\ outcome[c] # "none" => pc[c] = "close"
        /\ reply[c] \in {"dispatched", "undelivered"} => target[c] \in Command

\* The uncommitted row of an identity belongs to one call about to commit it, and
\* no committed row stands beside it.
InsertInv ==
    \A i \in Command : inserting[i] # None =>
        /\ recorded[i] = None
        /\ pc[inserting[i]] = "commit"
        /\ target[inserting[i]] = i

\* The row lock is held by exactly the call inside the emission of that row.
LockInv ==
    /\ \A c \in Caller : InEmission(c) => rowLock[target[c]] = c
    /\ \A i \in Command : rowLock[i] # None =>
           target[rowLock[i]] = i /\ InEmission(rowLock[i])

\* What a call knows of its row from where it stands.
RecordInv ==
    \A c \in Caller :
        /\ pc[c] = "commit" => recorded[target[c]] # None \/ inserting[target[c]] = c
        /\ pc[c] \in {"lock", "emit", "close"} => recorded[target[c]] # None
        /\ pc[c] = "emit" => target[c] \notin dispatched
        /\ outcome[c] # "none" => target[c] \notin dispatched
        /\ outcome[c] \in {"delivered", "uncertain"} => published[target[c]] # <<>>

DispatchInv == \A i \in dispatched : recorded[i] # None /\ published[i] # <<>>

\* 1 when the latest emission of a command is confirmed or about to be.
Settled(i) ==
    IF i \in dispatched \/ (rowLock[i] # None /\ outcome[rowLock[i]] = "delivered")
    THEN 1 ELSE 0

CountInv == \A i \in Command : Len(published[i]) <= crashes[i] + uncertain[i] + Settled(i)

IInv ==
    /\ TypeOK
    /\ CallInv
    /\ InsertInv
    /\ LockInv
    /\ RecordInv
    /\ DispatchInv
    /\ RecordedBeforeEmitted
    /\ CountInv
    /\ EvidenceTruthful

USE NoneAssumption, DeclaredAssumption, BoundAssumption

-------------------------------------------------------------------------------
LEMMA AppendFacts ==
  ASSUME NEW S, NEW s \in Seq(S), NEW e \in S
  PROVE  /\ Append(s, e) \in Seq(S)
         /\ Len(Append(s, e)) = Len(s) + 1
         /\ Append(s, e) # <<>>
  <1>1. Append(s, e) \in Seq(S) /\ Len(Append(s, e)) = Len(s) + 1
    OBVIOUS
  <1>2. Len(s) \in Nat /\ Len(<<>>) = 0
    OBVIOUS
  <1> QED
    BY <1>1, <1>2

LEMMA InitIInv == Init => IInv
  BY DEF Init, IInv, TypeOK, CallInv, InsertInv, LockInv, RecordInv, DispatchInv,
         RecordedBeforeEmitted, CountInv, EvidenceTruthful, Settled, InEmission,
         PC, Outcome, Reply

LEMMA RefuseIInv ==
  ASSUME IInv, NEW c \in Caller, NEW i \in Command, NEW p \in Payload, Refuse(c, i, p)
  PROVE  IInv'
  <1>1. TypeOK'
    BY DEF IInv, TypeOK, PC, Outcome, Reply, CallInv, RecordInv, InsertInv,
           Refuse, Return, Goto, ledger, locks, call, faults
  <1>2. CallInv'
    BY DEF IInv, TypeOK, CallInv, EvidenceTruthful,
           Refuse, Return, Goto, ledger, locks, call, faults
  <1>3. InsertInv'
    BY DEF IInv, TypeOK, CallInv, InsertInv, RecordInv,
           Refuse, Return, Goto, ledger, locks, call, faults
  <1>4. LockInv'
    BY DEF IInv, TypeOK, CallInv, LockInv, InEmission,
           Refuse, Return, Goto, ledger, locks, call, faults
  <1>5. RecordInv'
    BY DEF IInv, TypeOK, CallInv, InsertInv, LockInv, RecordInv, InEmission,
           Refuse, Return, Goto, ledger, locks, call, faults
  <1>6. DispatchInv'
    BY DEF IInv, TypeOK, CallInv, InsertInv, RecordInv, DispatchInv,
           Refuse, Return, Goto, ledger, locks, call, faults
  <1>7. RecordedBeforeEmitted'
    BY DEF IInv, TypeOK, CallInv, InsertInv, RecordInv, RecordedBeforeEmitted,
           Refuse, Return, Goto, ledger, locks, call, faults
  <1>8. CountInv'
    <2>1. outcome[c] # "delivered" /\ outcome'[c] # "delivered"
      BY DEF IInv, TypeOK, CallInv, Refuse, Return, Goto
    <2>2. ASSUME NEW d \in Caller PROVE outcome'[d] = "delivered" <=> outcome[d] = "delivered"
      BY <2>1 DEF IInv, TypeOK, Refuse, Return, Goto
    <2>3. ASSUME NEW j \in Command PROVE Settled(j)' = Settled(j)
      BY <2>2 DEF IInv, TypeOK, Settled, Refuse, Return, Goto, ledger, locks
    <2> QED
      BY <2>3 DEF IInv, CountInv, Refuse, faults
  <1>9. EvidenceTruthful'
    BY DEF IInv, TypeOK, CallInv, RecordInv, DispatchInv, EvidenceTruthful,
           Refuse, Return, Goto, ledger, locks, call, faults
  <1> QED
    BY <1>1, <1>2, <1>3, <1>4, <1>5, <1>6, <1>7, <1>8, <1>9 DEF IInv

LEMMA FireIInv ==
  ASSUME IInv, NEW c \in Caller, NEW i \in Command, NEW p \in Payload, Fire(c, i, p)
  PROVE  IInv'
  <1>1. TypeOK'
    BY DEF IInv, TypeOK, PC, Outcome, Reply, CallInv, RecordInv, InsertInv,
           Fire, Goto, ledger, locks, call, faults
  <1>2. CallInv'
    BY DEF IInv, TypeOK, CallInv, EvidenceTruthful,
           Fire, Goto, ledger, locks, call, faults
  <1>3. InsertInv'
    BY DEF IInv, TypeOK, CallInv, InsertInv, RecordInv,
           Fire, Goto, ledger, locks, call, faults
  <1>4. LockInv'
    BY DEF IInv, TypeOK, CallInv, LockInv, InEmission,
           Fire, Goto, ledger, locks, call, faults
  <1>5. RecordInv'
    BY DEF IInv, TypeOK, CallInv, InsertInv, LockInv, RecordInv, InEmission,
           Fire, Goto, ledger, locks, call, faults
  <1>6. DispatchInv'
    BY DEF IInv, TypeOK, CallInv, InsertInv, RecordInv, DispatchInv,
           Fire, Goto, ledger, locks, call, faults
  <1>7. RecordedBeforeEmitted'
    BY DEF IInv, TypeOK, CallInv, InsertInv, RecordInv, RecordedBeforeEmitted,
           Fire, Goto, ledger, locks, call, faults
  <1>8. CountInv'
    BY DEF IInv, TypeOK, CallInv, LockInv, RecordInv, CountInv, Settled, InEmission,
           Fire, Goto, ledger, locks, call, faults
  <1>9. EvidenceTruthful'
    BY DEF IInv, TypeOK, CallInv, RecordInv, DispatchInv, EvidenceTruthful,
           Fire, Goto, ledger, locks, call, faults
  <1> QED
    BY <1>1, <1>2, <1>3, <1>4, <1>5, <1>6, <1>7, <1>8, <1>9 DEF IInv

LEMMA GetIInv ==
  ASSUME IInv, NEW c \in Caller, Get(c)
  PROVE  IInv'
  <1>1. TypeOK'
    BY DEF IInv, TypeOK, PC, Outcome, Reply, CallInv, RecordInv, InsertInv,
           Get, Goto, ledger, locks, call, faults
  <1>2. CallInv'
    BY DEF IInv, TypeOK, CallInv, EvidenceTruthful,
           Get, Goto, ledger, locks, call, faults
  <1>3. InsertInv'
    BY DEF IInv, TypeOK, CallInv, InsertInv, RecordInv,
           Get, Goto, ledger, locks, call, faults
  <1>4. LockInv'
    BY DEF IInv, TypeOK, CallInv, LockInv, InEmission,
           Get, Goto, ledger, locks, call, faults
  <1>5. RecordInv'
    BY DEF IInv, TypeOK, CallInv, InsertInv, LockInv, RecordInv, InEmission,
           Get, Goto, ledger, locks, call, faults
  <1>6. DispatchInv'
    BY DEF IInv, TypeOK, CallInv, InsertInv, RecordInv, DispatchInv,
           Get, Goto, ledger, locks, call, faults
  <1>7. RecordedBeforeEmitted'
    BY DEF IInv, TypeOK, CallInv, InsertInv, RecordInv, RecordedBeforeEmitted,
           Get, Goto, ledger, locks, call, faults
  <1>8. CountInv'
    BY DEF IInv, TypeOK, CallInv, LockInv, RecordInv, CountInv, Settled, InEmission,
           Get, Goto, ledger, locks, call, faults
  <1>9. EvidenceTruthful'
    BY DEF IInv, TypeOK, CallInv, RecordInv, DispatchInv, EvidenceTruthful,
           Get, Goto, ledger, locks, call, faults
  <1> QED
    BY <1>1, <1>2, <1>3, <1>4, <1>5, <1>6, <1>7, <1>8, <1>9 DEF IInv

LEMMA InsertIInv ==
  ASSUME IInv, NEW c \in Caller, Insert(c)
  PROVE  IInv'
  <1>1. TypeOK'
    BY DEF IInv, TypeOK, PC, Outcome, Reply, CallInv, RecordInv, InsertInv,
           Insert, Goto, ledger, locks, call, faults
  <1>2. CallInv'
    BY DEF IInv, TypeOK, CallInv, EvidenceTruthful,
           Insert, Goto, ledger, locks, call, faults
  <1>3. InsertInv'
    BY DEF IInv, TypeOK, CallInv, InsertInv, RecordInv,
           Insert, Goto, ledger, locks, call, faults
  <1>4. LockInv'
    BY DEF IInv, TypeOK, CallInv, LockInv, InEmission,
           Insert, Goto, ledger, locks, call, faults
  <1>5. RecordInv'
    BY DEF IInv, TypeOK, CallInv, InsertInv, LockInv, RecordInv, InEmission,
           Insert, Goto, ledger, locks, call, faults
  <1>6. DispatchInv'
    BY DEF IInv, TypeOK, CallInv, InsertInv, RecordInv, DispatchInv,
           Insert, Goto, ledger, locks, call, faults
  <1>7. RecordedBeforeEmitted'
    BY DEF IInv, TypeOK, CallInv, InsertInv, RecordInv, RecordedBeforeEmitted,
           Insert, Goto, ledger, locks, call, faults
  <1>8. CountInv'
    BY DEF IInv, TypeOK, CallInv, LockInv, RecordInv, CountInv, Settled, InEmission,
           Insert, Goto, ledger, locks, call, faults
  <1>9. EvidenceTruthful'
    BY DEF IInv, TypeOK, CallInv, RecordInv, DispatchInv, EvidenceTruthful,
           Insert, Goto, ledger, locks, call, faults
  <1> QED
    BY <1>1, <1>2, <1>3, <1>4, <1>5, <1>6, <1>7, <1>8, <1>9 DEF IInv

LEMMA CommitRecordIInv ==
  ASSUME IInv, NEW c \in Caller, CommitRecord(c)
  PROVE  IInv'
  <1>1. TypeOK'
    BY DEF IInv, TypeOK, PC, Outcome, Reply, CallInv, RecordInv, InsertInv,
           CommitRecord, Commit, EndTransaction, Goto, ledger, locks, call, faults
  <1>2. CallInv'
    BY DEF IInv, TypeOK, CallInv, EvidenceTruthful,
           CommitRecord, Commit, EndTransaction, Goto, ledger, locks, call, faults
  <1>3. InsertInv'
    BY DEF IInv, TypeOK, CallInv, InsertInv, RecordInv,
           CommitRecord, Commit, EndTransaction, Goto, ledger, locks, call, faults
  <1>4. LockInv'
    BY DEF IInv, TypeOK, CallInv, LockInv, InEmission,
           CommitRecord, Commit, EndTransaction, Goto, ledger, locks, call, faults
  <1>5. RecordInv'
    BY DEF IInv, TypeOK, CallInv, InsertInv, LockInv, RecordInv, InEmission,
           CommitRecord, Commit, EndTransaction, Goto, ledger, locks, call, faults
  <1>6. DispatchInv'
    BY DEF IInv, TypeOK, CallInv, InsertInv, RecordInv, DispatchInv,
           CommitRecord, Commit, EndTransaction, Goto, ledger, locks, call, faults
  <1>7. RecordedBeforeEmitted'
    <2>1. ASSUME NEW j \in Command, NEW k \in DOMAIN published[j]
          PROVE  recorded[j] = published[j][k] /\ recorded[j] # None
      BY DEF IInv, TypeOK, RecordedBeforeEmitted
    <2>2. ASSUME NEW j \in Command, recorded[j] # None
          PROVE  recorded'[j] = recorded[j]
      BY <2>2 DEF IInv, TypeOK, InsertInv, CommitRecord, Commit, ledger
    <2> QED
      BY <2>1, <2>2 DEF RecordedBeforeEmitted, CommitRecord
  <1>8. CountInv'
    BY DEF IInv, TypeOK, CallInv, LockInv, RecordInv, CountInv, Settled, InEmission,
           CommitRecord, Commit, EndTransaction, Goto, ledger, locks, call, faults
  <1>9. EvidenceTruthful'
    BY DEF IInv, TypeOK, CallInv, RecordInv, DispatchInv, EvidenceTruthful,
           CommitRecord, Commit, EndTransaction, Goto, ledger, locks, call, faults
  <1> QED
    BY <1>1, <1>2, <1>3, <1>4, <1>5, <1>6, <1>7, <1>8, <1>9 DEF IInv

LEMMA LockIInv ==
  ASSUME IInv, NEW c \in Caller, Lock(c)
  PROVE  IInv'
  <1>1. TypeOK'
    BY DEF IInv, TypeOK, PC, Outcome, Reply, CallInv, RecordInv, InsertInv,
           Lock, Goto, ledger, locks, call, faults
  <1>2. CallInv'
    BY DEF IInv, TypeOK, CallInv, EvidenceTruthful,
           Lock, Goto, ledger, locks, call, faults
  <1>3. InsertInv'
    BY DEF IInv, TypeOK, CallInv, InsertInv, RecordInv,
           Lock, Goto, ledger, locks, call, faults
  <1>4. LockInv'
    BY DEF IInv, TypeOK, CallInv, LockInv, InEmission,
           Lock, Goto, ledger, locks, call, faults
  <1>5. RecordInv'
    BY DEF IInv, TypeOK, CallInv, InsertInv, LockInv, RecordInv, InEmission,
           Lock, Goto, ledger, locks, call, faults
  <1>6. DispatchInv'
    BY DEF IInv, TypeOK, CallInv, InsertInv, RecordInv, DispatchInv,
           Lock, Goto, ledger, locks, call, faults
  <1>7. RecordedBeforeEmitted'
    BY DEF IInv, TypeOK, CallInv, InsertInv, RecordInv, RecordedBeforeEmitted,
           Lock, Goto, ledger, locks, call, faults
  <1>8. CountInv'
    BY DEF IInv, TypeOK, CallInv, LockInv, RecordInv, CountInv, Settled, InEmission,
           Lock, Goto, ledger, locks, call, faults
  <1>9. EvidenceTruthful'
    BY DEF IInv, TypeOK, CallInv, RecordInv, DispatchInv, EvidenceTruthful,
           Lock, Goto, ledger, locks, call, faults
  <1> QED
    BY <1>1, <1>2, <1>3, <1>4, <1>5, <1>6, <1>7, <1>8, <1>9 DEF IInv

LEMMA EmitDeliveredIInv ==
  ASSUME IInv, NEW c \in Caller, EmitDelivered(c)
  PROVE  IInv'
  <1>1. TypeOK'
    BY DEF IInv, TypeOK, PC, Outcome, Reply, CallInv, RecordInv, InsertInv,
           EmitDelivered, Publish, Goto, ledger, locks, call, faults
  <1>2. CallInv'
    BY DEF IInv, TypeOK, CallInv, EvidenceTruthful,
           EmitDelivered, Publish, Goto, ledger, locks, call, faults
  <1>3. InsertInv'
    BY DEF IInv, TypeOK, CallInv, InsertInv, RecordInv,
           EmitDelivered, Publish, Goto, ledger, locks, call, faults
  <1>4. LockInv'
    BY DEF IInv, TypeOK, CallInv, LockInv, InEmission,
           EmitDelivered, Publish, Goto, ledger, locks, call, faults
  <1>5. RecordInv'
    <2>1. target[c] \in Command /\ recorded[target[c]] \in Payload
      BY DEF IInv, TypeOK, CallInv, RecordInv, EmitDelivered
    <2>2. published' = [published EXCEPT ![target[c]] = Append(@, recorded[target[c]])]
      BY DEF EmitDelivered, Publish
    <2>3. \A j \in Command : published[j] # <<>> => published'[j] # <<>>
      BY <2>1, <2>2, AppendFacts DEF IInv, TypeOK
    <2>4. published'[target[c]] # <<>>
      BY <2>1, <2>2, AppendFacts DEF IInv, TypeOK
    <2>5. \A d \in Caller : d # c => outcome'[d] = outcome[d] /\ pc'[d] = pc[d]
      BY DEF IInv, TypeOK, EmitDelivered, Goto
    <2>6. /\ pc[c] = "emit" /\ pc'[c] = "close"
          /\ dispatched' = dispatched /\ recorded' = recorded /\ inserting' = inserting
          /\ target' = target
      BY DEF IInv, TypeOK, EmitDelivered, Goto, ledger, locks, call
    <2>7. \A d \in Caller : /\ pc[d] # "idle" => target[d] \in Command
                            /\ outcome[d] # "none" => pc[d] = "close"
      BY DEF IInv, CallInv
    <2>8. SUFFICES ASSUME NEW d \in Caller
                   PROVE  /\ pc'[d] = "commit" => recorded[target[d]] # None \/ inserting[target[d]] = d
                          /\ pc'[d] \in {"lock", "emit", "close"} => recorded[target[d]] # None
                          /\ pc'[d] = "emit" => target[d] \notin dispatched
                          /\ outcome'[d] # "none" => target[d] \notin dispatched
                          /\ outcome'[d] \in {"delivered", "uncertain"} => published'[target[d]] # <<>>
      BY <2>6 DEF RecordInv
    <2>9. CASE d = c
      BY <2>1, <2>4, <2>6, <2>9 DEF IInv, RecordInv
    <2>10. CASE d # c
      BY <2>3, <2>5, <2>7, <2>10 DEF IInv, RecordInv
    <2> QED
      BY <2>9, <2>10
  <1>6. DispatchInv'
    BY DEF IInv, TypeOK, CallInv, InsertInv, RecordInv, DispatchInv,
           EmitDelivered, Publish, Goto, ledger, locks, call, faults
  <1>7. RecordedBeforeEmitted'
    BY DEF IInv, TypeOK, CallInv, InsertInv, RecordInv, RecordedBeforeEmitted,
           EmitDelivered, Publish, Goto, ledger, locks, call, faults
  <1>8. CountInv'
    BY DEF IInv, TypeOK, CallInv, LockInv, RecordInv, CountInv, Settled, InEmission,
           EmitDelivered, Publish, Goto, ledger, locks, call, faults
  <1>9. EvidenceTruthful'
    BY DEF IInv, TypeOK, CallInv, RecordInv, DispatchInv, EvidenceTruthful,
           EmitDelivered, Publish, Goto, ledger, locks, call, faults
  <1> QED
    BY <1>1, <1>2, <1>3, <1>4, <1>5, <1>6, <1>7, <1>8, <1>9 DEF IInv

LEMMA EmitLostIInv ==
  ASSUME IInv, NEW c \in Caller, EmitLost(c)
  PROVE  IInv'
  <1>1. TypeOK'
    BY DEF IInv, TypeOK, PC, Outcome, Reply, CallInv, RecordInv, InsertInv,
           EmitLost, Goto, ledger, locks, call, faults
  <1>2. CallInv'
    BY DEF IInv, TypeOK, CallInv, EvidenceTruthful,
           EmitLost, Goto, ledger, locks, call, faults
  <1>3. InsertInv'
    BY DEF IInv, TypeOK, CallInv, InsertInv, RecordInv,
           EmitLost, Goto, ledger, locks, call, faults
  <1>4. LockInv'
    BY DEF IInv, TypeOK, CallInv, LockInv, InEmission,
           EmitLost, Goto, ledger, locks, call, faults
  <1>5. RecordInv'
    BY DEF IInv, TypeOK, CallInv, InsertInv, LockInv, RecordInv, InEmission,
           EmitLost, Goto, ledger, locks, call, faults
  <1>6. DispatchInv'
    BY DEF IInv, TypeOK, CallInv, InsertInv, RecordInv, DispatchInv,
           EmitLost, Goto, ledger, locks, call, faults
  <1>7. RecordedBeforeEmitted'
    BY DEF IInv, TypeOK, CallInv, InsertInv, RecordInv, RecordedBeforeEmitted,
           EmitLost, Goto, ledger, locks, call, faults
  <1>8. CountInv'
    <2>1. outcome[c] # "delivered" /\ outcome'[c] # "delivered"
      BY DEF IInv, TypeOK, CallInv, EmitLost, Goto
    <2>2. ASSUME NEW d \in Caller PROVE outcome'[d] = "delivered" <=> outcome[d] = "delivered"
      BY <2>1 DEF IInv, TypeOK, EmitLost, Goto
    <2>3. ASSUME NEW j \in Command PROVE Settled(j)' = Settled(j)
      BY <2>2 DEF IInv, TypeOK, Settled, EmitLost, Goto, ledger, locks
    <2> QED
      BY <2>3 DEF IInv, CountInv, EmitLost, faults
  <1>9. EvidenceTruthful'
    BY DEF IInv, TypeOK, CallInv, RecordInv, DispatchInv, EvidenceTruthful,
           EmitLost, Goto, ledger, locks, call, faults
  <1> QED
    BY <1>1, <1>2, <1>3, <1>4, <1>5, <1>6, <1>7, <1>8, <1>9 DEF IInv

LEMMA EmitUncertainIInv ==
  ASSUME IInv, NEW c \in Caller, EmitUncertain(c)
  PROVE  IInv'
  <1>1. TypeOK'
    BY DEF IInv, TypeOK, PC, Outcome, Reply, CallInv, RecordInv, InsertInv,
           EmitUncertain, Publish, Goto, ledger, locks, call, faults
  <1>2. CallInv'
    BY DEF IInv, TypeOK, CallInv, EvidenceTruthful,
           EmitUncertain, Publish, Goto, ledger, locks, call, faults
  <1>3. InsertInv'
    BY DEF IInv, TypeOK, CallInv, InsertInv, RecordInv,
           EmitUncertain, Publish, Goto, ledger, locks, call, faults
  <1>4. LockInv'
    BY DEF IInv, TypeOK, CallInv, LockInv, InEmission,
           EmitUncertain, Publish, Goto, ledger, locks, call, faults
  <1>5. RecordInv'
    <2>1. target[c] \in Command /\ recorded[target[c]] \in Payload
      BY DEF IInv, TypeOK, CallInv, RecordInv, EmitUncertain
    <2>2. published' = [published EXCEPT ![target[c]] = Append(@, recorded[target[c]])]
      BY DEF EmitUncertain, Publish
    <2>3. \A j \in Command : published[j] # <<>> => published'[j] # <<>>
      BY <2>1, <2>2, AppendFacts DEF IInv, TypeOK
    <2>4. published'[target[c]] # <<>>
      BY <2>1, <2>2, AppendFacts DEF IInv, TypeOK
    <2>5. \A d \in Caller : d # c => outcome'[d] = outcome[d] /\ pc'[d] = pc[d]
      BY DEF IInv, TypeOK, EmitUncertain, Goto
    <2>6. /\ pc[c] = "emit" /\ pc'[c] = "close"
          /\ dispatched' = dispatched /\ recorded' = recorded /\ inserting' = inserting
          /\ target' = target
      BY DEF IInv, TypeOK, EmitUncertain, Goto, ledger, locks, call
    <2>7. \A d \in Caller : /\ pc[d] # "idle" => target[d] \in Command
                            /\ outcome[d] # "none" => pc[d] = "close"
      BY DEF IInv, CallInv
    <2>8. SUFFICES ASSUME NEW d \in Caller
                   PROVE  /\ pc'[d] = "commit" => recorded[target[d]] # None \/ inserting[target[d]] = d
                          /\ pc'[d] \in {"lock", "emit", "close"} => recorded[target[d]] # None
                          /\ pc'[d] = "emit" => target[d] \notin dispatched
                          /\ outcome'[d] # "none" => target[d] \notin dispatched
                          /\ outcome'[d] \in {"delivered", "uncertain"} => published'[target[d]] # <<>>
      BY <2>6 DEF RecordInv
    <2>9. CASE d = c
      BY <2>1, <2>4, <2>6, <2>9 DEF IInv, RecordInv
    <2>10. CASE d # c
      BY <2>3, <2>5, <2>7, <2>10 DEF IInv, RecordInv
    <2> QED
      BY <2>9, <2>10
  <1>6. DispatchInv'
    BY DEF IInv, TypeOK, CallInv, InsertInv, RecordInv, DispatchInv,
           EmitUncertain, Publish, Goto, ledger, locks, call, faults
  <1>7. RecordedBeforeEmitted'
    BY DEF IInv, TypeOK, CallInv, InsertInv, RecordInv, RecordedBeforeEmitted,
           EmitUncertain, Publish, Goto, ledger, locks, call, faults
  <1>8. CountInv'
    <2>1. PICK i \in Command : i = target[c] /\ recorded[i] \in Payload
      BY DEF IInv, TypeOK, CallInv, RecordInv, EmitUncertain
    <2>2. /\ published' = [published EXCEPT ![i] = Append(@, recorded[i])]
          /\ uncertain' = [uncertain EXCEPT ![i] = @ + 1]
          /\ crashes' = crashes
      BY <2>1 DEF EmitUncertain, Publish
    <2>3. ASSUME NEW j \in Command PROVE Settled(j)' = Settled(j)
      <3>1. ASSUME NEW d \in Caller PROVE outcome'[d] = "delivered" <=> outcome[d] = "delivered"
        BY DEF IInv, TypeOK, CallInv, EmitUncertain
      <3> QED
        BY <3>1 DEF IInv, TypeOK, Settled, EmitUncertain, ledger, locks
    <2>4. Len(published'[i]) = Len(published[i]) + 1 /\ uncertain'[i] = uncertain[i] + 1
      BY <2>1, <2>2, AppendFacts DEF IInv, TypeOK
    <2>5. ASSUME NEW j \in Command, j # i
          PROVE  published'[j] = published[j] /\ uncertain'[j] = uncertain[j]
      BY <2>2, <2>5 DEF IInv, TypeOK
    <2>6. \A j \in Command : /\ crashes[j] \in Nat /\ uncertain[j] \in Nat
                             /\ Settled(j) \in Nat /\ Len(published[j]) \in Nat
      BY DEF IInv, TypeOK, Settled
    <2>7. ASSUME NEW j \in Command
          PROVE  Len(published'[j]) <= crashes'[j] + uncertain'[j] + Settled(j)'
      BY <2>2, <2>3, <2>4, <2>5, <2>6 DEF IInv, CountInv
    <2> QED
      BY <2>7 DEF CountInv
  <1>9. EvidenceTruthful'
    BY DEF IInv, TypeOK, CallInv, RecordInv, DispatchInv, EvidenceTruthful,
           EmitUncertain, Publish, Goto, ledger, locks, call, faults
  <1> QED
    BY <1>1, <1>2, <1>3, <1>4, <1>5, <1>6, <1>7, <1>8, <1>9 DEF IInv

LEMMA CloseIInv ==
  ASSUME IInv, NEW c \in Caller, Close(c)
  PROVE  IInv'
  <1>1. TypeOK'
    BY DEF IInv, TypeOK, PC, Outcome, Reply, CallInv, RecordInv, InsertInv,
           Close, Commit, EndTransaction, Return, Goto, ledger, locks, call, faults
  <1>2. CallInv'
    BY DEF IInv, TypeOK, CallInv, EvidenceTruthful,
           Close, Commit, EndTransaction, Return, Goto, ledger, locks, call, faults
  <1>3. InsertInv'
    BY DEF IInv, TypeOK, CallInv, InsertInv, RecordInv,
           Close, Commit, EndTransaction, Return, Goto, ledger, locks, call, faults
  <1>4. LockInv'
    BY DEF IInv, TypeOK, CallInv, LockInv, InEmission,
           Close, Commit, EndTransaction, Return, Goto, ledger, locks, call, faults
  <1>5. RecordInv'
    BY DEF IInv, TypeOK, CallInv, InsertInv, LockInv, RecordInv, InEmission,
           Close, Commit, EndTransaction, Return, Goto, ledger, locks, call, faults
  <1>6. DispatchInv'
    BY DEF IInv, TypeOK, CallInv, InsertInv, RecordInv, DispatchInv,
           Close, Commit, EndTransaction, Return, Goto, ledger, locks, call, faults
  <1>7. RecordedBeforeEmitted'
    BY DEF IInv, TypeOK, CallInv, InsertInv, RecordInv, RecordedBeforeEmitted,
           Close, Commit, EndTransaction, Return, Goto, ledger, locks, call, faults
  <1>8. CountInv'
    BY DEF IInv, TypeOK, CallInv, LockInv, RecordInv, CountInv, Settled, InEmission,
           Close, Commit, EndTransaction, Return, Goto, ledger, locks, call, faults
  <1>9. EvidenceTruthful'
    BY DEF IInv, TypeOK, CallInv, RecordInv, DispatchInv, EvidenceTruthful,
           Close, Commit, EndTransaction, Return, Goto, ledger, locks, call, faults
  <1> QED
    BY <1>1, <1>2, <1>3, <1>4, <1>5, <1>6, <1>7, <1>8, <1>9 DEF IInv

LEMMA CommitFailsIInv ==
  ASSUME IInv, NEW c \in Caller, CommitFails(c)
  PROVE  IInv'
  <1>1. TypeOK'
    <2>1. ASSUME NEW j \in Command, inserting[j] = c PROVE request[c] \in Payload
      BY <2>1 DEF IInv, CallInv, InsertInv
    <2>2. outcome[c] = "delivered" => target[c] \in Command
      BY DEF IInv, CallInv
    <2>3. recorded' \in [Command -> Payload \cup {None}] /\ dispatched' \in SUBSET Command
      BY <2>1, <2>2 DEF IInv, TypeOK, CommitFails, Commit, ledger
    <2>4. /\ inserting' \in [Command -> Caller \cup {None}]
          /\ rowLock' \in [Command -> Caller \cup {None}]
      BY DEF IInv, TypeOK, CommitFails, Commit, EndTransaction
    <2>5. pc' \in [Caller -> PC] /\ outcome' \in [Caller -> Outcome] /\ reply' \in [Caller -> Reply]
      BY DEF IInv, TypeOK, CommitFails, Return, Goto, PC, Outcome, Reply
    <2>6. crashes' \in [Command -> Nat]
      BY DEF IInv, TypeOK, CallInv, CommitFails, CountCrash
    <2> QED
      BY <2>3, <2>4, <2>5, <2>6 DEF IInv, TypeOK, CommitFails, call
  <1>2. CallInv'
    BY DEF IInv, TypeOK, CallInv, EvidenceTruthful,
           CommitFails, CountCrash, Commit, EndTransaction, Return, Goto, ledger, locks, call, faults
  <1>3. InsertInv'
    BY DEF IInv, TypeOK, CallInv, InsertInv, RecordInv,
           CommitFails, CountCrash, Commit, EndTransaction, Return, Goto, ledger, locks, call, faults
  <1>4. LockInv'
    BY DEF IInv, TypeOK, CallInv, LockInv, InEmission,
           CommitFails, CountCrash, Commit, EndTransaction, Return, Goto, ledger, locks, call, faults
  <1>5. RecordInv'
    BY DEF IInv, TypeOK, CallInv, InsertInv, LockInv, RecordInv, InEmission,
           CommitFails, CountCrash, Commit, EndTransaction, Return, Goto, ledger, locks, call, faults
  <1>6. DispatchInv'
    BY DEF IInv, TypeOK, CallInv, InsertInv, RecordInv, DispatchInv,
           CommitFails, CountCrash, Commit, EndTransaction, Return, Goto, ledger, locks, call, faults
  <1>7. RecordedBeforeEmitted'
    <2>1. ASSUME NEW j \in Command, NEW k \in DOMAIN published[j]
          PROVE  recorded[j] = published[j][k] /\ recorded[j] # None
      BY DEF IInv, TypeOK, RecordedBeforeEmitted
    <2>2. ASSUME NEW j \in Command, recorded[j] # None
          PROVE  recorded'[j] = recorded[j]
      BY <2>2 DEF IInv, TypeOK, InsertInv, CommitFails, Commit, ledger
    <2> QED
      BY <2>1, <2>2 DEF RecordedBeforeEmitted, CommitFails
  <1>8. CountInv'
    BY DEF IInv, TypeOK, CallInv, LockInv, RecordInv, CountInv, Settled, InEmission,
           CommitFails, CountCrash, Commit, EndTransaction, Return, Goto, ledger, locks, call, faults
  <1>9. EvidenceTruthful'
    BY DEF IInv, TypeOK, CallInv, RecordInv, DispatchInv, EvidenceTruthful,
           CommitFails, CountCrash, Commit, EndTransaction, Return, Goto, ledger, locks, call, faults
  <1> QED
    BY <1>1, <1>2, <1>3, <1>4, <1>5, <1>6, <1>7, <1>8, <1>9 DEF IInv

LEMMA AbortIInv ==
  ASSUME IInv, NEW c \in Caller, Abort(c)
  PROVE  IInv'
  <1>1. TypeOK'
    BY DEF IInv, TypeOK, PC, Outcome, Reply, CallInv, RecordInv, InsertInv,
           Abort, CountCrash, EndTransaction, Return, Goto, ledger, locks, call, faults
  <1>2. CallInv'
    BY DEF IInv, TypeOK, CallInv, EvidenceTruthful,
           Abort, CountCrash, EndTransaction, Return, Goto, ledger, locks, call, faults
  <1>3. InsertInv'
    BY DEF IInv, TypeOK, CallInv, InsertInv, RecordInv,
           Abort, CountCrash, EndTransaction, Return, Goto, ledger, locks, call, faults
  <1>4. LockInv'
    BY DEF IInv, TypeOK, CallInv, LockInv, InEmission,
           Abort, CountCrash, EndTransaction, Return, Goto, ledger, locks, call, faults
  <1>5. RecordInv'
    BY DEF IInv, TypeOK, CallInv, InsertInv, LockInv, RecordInv, InEmission,
           Abort, CountCrash, EndTransaction, Return, Goto, ledger, locks, call, faults
  <1>6. DispatchInv'
    BY DEF IInv, TypeOK, CallInv, InsertInv, RecordInv, DispatchInv,
           Abort, CountCrash, EndTransaction, Return, Goto, ledger, locks, call, faults
  <1>7. RecordedBeforeEmitted'
    BY DEF IInv, TypeOK, CallInv, InsertInv, RecordInv, RecordedBeforeEmitted,
           Abort, CountCrash, EndTransaction, Return, Goto, ledger, locks, call, faults
  <1>8. CountInv'
    BY DEF IInv, TypeOK, CallInv, LockInv, RecordInv, CountInv, Settled, InEmission,
           Abort, CountCrash, EndTransaction, Return, Goto, ledger, locks, call, faults
  <1>9. EvidenceTruthful'
    BY DEF IInv, TypeOK, CallInv, RecordInv, DispatchInv, EvidenceTruthful,
           Abort, CountCrash, EndTransaction, Return, Goto, ledger, locks, call, faults
  <1> QED
    BY <1>1, <1>2, <1>3, <1>4, <1>5, <1>6, <1>7, <1>8, <1>9 DEF IInv

LEMMA EvidenceIInv ==
  ASSUME IInv, NEW c \in Caller, NEW i \in Command, Evidence(c, i)
  PROVE  IInv'
  <1>1. TypeOK'
    BY DEF IInv, TypeOK, PC, Outcome, Reply, CallInv, RecordInv, InsertInv,
           Evidence, Status, Return, Goto, ledger, locks, call, faults
  <1>2. CallInv'
    BY DEF IInv, TypeOK, CallInv, EvidenceTruthful,
           Evidence, Status, Return, Goto, ledger, locks, call, faults
  <1>3. InsertInv'
    BY DEF IInv, TypeOK, CallInv, InsertInv, RecordInv,
           Evidence, Status, Return, Goto, ledger, locks, call, faults
  <1>4. LockInv'
    BY DEF IInv, TypeOK, CallInv, LockInv, InEmission,
           Evidence, Status, Return, Goto, ledger, locks, call, faults
  <1>5. RecordInv'
    BY DEF IInv, TypeOK, CallInv, InsertInv, LockInv, RecordInv, InEmission,
           Evidence, Status, Return, Goto, ledger, locks, call, faults
  <1>6. DispatchInv'
    BY DEF IInv, TypeOK, CallInv, InsertInv, RecordInv, DispatchInv,
           Evidence, Status, Return, Goto, ledger, locks, call, faults
  <1>7. RecordedBeforeEmitted'
    BY DEF IInv, TypeOK, CallInv, InsertInv, RecordInv, RecordedBeforeEmitted,
           Evidence, Status, Return, Goto, ledger, locks, call, faults
  <1>8. CountInv'
    <2>1. outcome[c] # "delivered" /\ outcome'[c] # "delivered"
      BY DEF IInv, TypeOK, CallInv, Evidence, Return, Goto
    <2>2. ASSUME NEW d \in Caller PROVE outcome'[d] = "delivered" <=> outcome[d] = "delivered"
      BY <2>1 DEF IInv, TypeOK, Evidence, Return, Goto
    <2>3. ASSUME NEW j \in Command PROVE Settled(j)' = Settled(j)
      BY <2>2 DEF IInv, TypeOK, Settled, Evidence, Return, Goto, ledger, locks
    <2> QED
      BY <2>3 DEF IInv, CountInv, Evidence, faults
  <1>9. EvidenceTruthful'
    BY DEF IInv, TypeOK, CallInv, RecordInv, DispatchInv, EvidenceTruthful,
           Evidence, Status, Return, Goto, ledger, locks, call, faults
  <1> QED
    BY <1>1, <1>2, <1>3, <1>4, <1>5, <1>6, <1>7, <1>8, <1>9 DEF IInv

LEMMA NextIInv == IInv /\ [Next]_vars => IInv'
  <1> SUFFICES ASSUME IInv, [Next]_vars PROVE IInv'
    OBVIOUS
  <1>1. ASSUME NEW c \in Caller, NEW i \in Command, NEW p \in Payload,
               Refuse(c, i, p) \/ Fire(c, i, p)
        PROVE  IInv'
    BY <1>1, RefuseIInv, FireIInv
  <1>2. ASSUME NEW c \in Caller, NEW i \in Command, Evidence(c, i)
        PROVE  IInv'
    BY <1>2, EvidenceIInv
  <1>3. ASSUME NEW c \in Caller, Step(c)
        PROVE  IInv'
    BY <1>3, GetIInv, InsertIInv, CommitRecordIInv, LockIInv, EmitDeliveredIInv,
       EmitLostIInv, EmitUncertainIInv, CloseIInv DEF Step, Emit
  <1>4. ASSUME NEW c \in Caller, CommitFails(c) \/ Abort(c)
        PROVE  IInv'
    BY <1>4, CommitFailsIInv, AbortIInv
  <1>5. CASE UNCHANGED vars
    BY <1>5 DEF vars, IInv, TypeOK, CallInv, InsertInv, LockInv, RecordInv, DispatchInv,
                RecordedBeforeEmitted, CountInv, EvidenceTruthful, Settled, InEmission
  <1> QED
    BY <1>1, <1>2, <1>3, <1>4, <1>5 DEF Next

THEOREM Invariance == Spec => []IInv
  BY InitIInv, NextIInv, PTL DEF Spec

-------------------------------------------------------------------------------
(* The properties of the runs. *)

\* Every reachable state is well typed, for any number of callers and commands.
THEOREM TypeCorrect == Spec => []TypeOK
  <1>1. IInv => TypeOK
    BY DEF IInv
  <1> QED
    BY <1>1, Invariance, PTL

\* No two calls are ever inside the emission of one identity.
THEOREM EmissionIsExclusive == Spec => []OneEmitter
  <1>1. IInv => OneEmitter
    BY DEF IInv, LockInv, OneEmitter
  <1> QED
    BY <1>1, Invariance, PTL

\* Every job_fired belongs to a committed row and carries that row's payload.
THEOREM EmittedIsRecorded == Spec => []RecordedBeforeEmitted
  <1>1. IInv => RecordedBeforeEmitted
    BY DEF IInv
  <1> QED
    BY <1>1, Invariance, PTL

\* A dispatched command always had its event published.
THEOREM DispatchedIsEmitted == Spec => []DispatchedWasEmitted
  <1>1. IInv => DispatchedWasEmitted
    BY DEF IInv, DispatchInv, DispatchedWasEmitted
  <1> QED
    BY <1>1, Invariance, PTL

\* Emissions of an identity number at most one more than its faults.
THEOREM EmissionsAreBounded == Spec => []BoundedEmissions
  <1>1. IInv => BoundedEmissions
    <2>1. ASSUME IInv, NEW i \in Command
          PROVE  Len(published[i]) <= 1 + crashes[i] + uncertain[i]
      <3>1. /\ crashes[i] \in Nat /\ uncertain[i] \in Nat /\ Len(published[i]) \in Nat
            /\ Settled(i) \in {0, 1}
        BY <2>1 DEF IInv, TypeOK, Settled
      <3>2. Len(published[i]) <= crashes[i] + uncertain[i] + Settled(i)
        BY <2>1 DEF IInv, CountInv
      <3> QED
        BY <3>1, <3>2
    <2> QED
      BY <2>1 DEF BoundedEmissions
  <1> QED
    BY <1>1, Invariance, PTL

\* What a caller was told of a command is what the committed row says.
THEOREM EvidenceIsTruthful == Spec => []EvidenceTruthful
  <1>1. IInv => EvidenceTruthful
    BY DEF IInv
  <1> QED
    BY <1>1, Invariance, PTL

\* A step never changes a recorded payload and never deletes a row.
THEOREM RowsAreImmutable == Spec => RowImmutable
  <1>1. ASSUME IInv, [Next]_vars, NEW i \in Command, recorded[i] # None
        PROVE  recorded'[i] = recorded[i]
    <2>1. ASSUME NEW c \in Caller, Commit(c) PROVE recorded'[i] = recorded[i]
      BY <1>1, <2>1 DEF IInv, TypeOK, InsertInv, Commit
    <2> QED
      BY <1>1, <2>1 DEF Next, Step, Emit, Refuse, Fire, Evidence, Get, Insert, CommitRecord,
         Lock, EmitDelivered, EmitLost, EmitUncertain, Close, CommitFails, Abort, ledger, vars
  <1>2. IInv /\ [Next]_vars =>
            [\A i \in Command : recorded[i] # None => recorded'[i] = recorded[i]]_vars
    BY <1>1
  <1> QED
    BY <1>2, Invariance, PTL DEF Spec, RowImmutable

\* A dispatched row stays dispatched and its identity is never emitted again.
THEOREM DispatchIsTerminal == Spec => TerminalDispatch
  <1>1. ASSUME IInv, [Next]_vars, NEW i \in dispatched
        PROVE  i \in dispatched' /\ published'[i] = published[i]
    <2>1. i \in Command /\ \A c \in Caller : pc[c] = "emit" => target[c] # i
      BY <1>1 DEF IInv, TypeOK, RecordInv
    <2>2. ASSUME NEW c \in Caller, pc[c] = "emit", Publish(target[c])
          PROVE  published'[i] = published[i]
      BY <1>1, <2>1, <2>2 DEF IInv, TypeOK, Publish
    <2> QED
      BY <1>1, <2>1, <2>2 DEF Next, Step, Emit, Refuse, Fire, Evidence, Get, Insert, CommitRecord,
         Lock, EmitDelivered, EmitLost, EmitUncertain, Close, CommitFails, Abort, Commit,
         ledger, vars
  <1>2. IInv /\ [Next]_vars =>
            [\A i \in dispatched : i \in dispatched' /\ published'[i] = published[i]]_vars
    BY <1>1
  <1> QED
    BY <1>2, Invariance, PTL DEF Spec, TerminalDispatch

-------------------------------------------------------------------------------
(* The controller implements the promise: every step of JobDispatch is a step of     *)
(* OnceLedger or leaves its variables alone.  The argument follows the row lock: an  *)
(* emission is open exactly while the call that made it is about to close its        *)
(* transaction.                                                                      *)

Arrived == {"delivered", "uncertain"}

\* Steps that touch neither the ledger, the stream, the row locks nor an outcome.
LEMMA QuietStep ==
  ASSUME UNCHANGED <<ledger, published, rowLock, outcome>>
  PROVE  UNCHANGED Ledger!vars
  BY DEF Ledger!vars, ledger, OpenEmissions

\* A call that is not closing its transaction holds no open emission.
LEMMA NotHolding ==
  ASSUME IInv, NEW c \in Caller, ~InEmission(c)
  PROVE  outcome[c] = "none" /\ \A i \in Command : rowLock[i] # c
  BY DEF IInv, TypeOK, CallInv, LockInv, InEmission

\* A call inside the emission holds exactly its target's row lock.
LEMMA Holding ==
  ASSUME IInv, NEW c \in Caller, InEmission(c)
  PROVE  /\ target[c] \in Command
         /\ recorded[target[c]] # None
         /\ \A i \in Command : rowLock[i] = c <=> i = target[c]
         /\ \A i \in Command : inserting[i] # c
  <1>1. target[c] \in Command /\ recorded[target[c]] # None
    BY DEF IInv, CallInv, RecordInv, InEmission
  <1>2. \A i \in Command : rowLock[i] = c <=> i = target[c]
    BY <1>1 DEF IInv, LockInv
  <1>3. \A i \in Command : inserting[i] # c
    BY DEF IInv, InsertInv, InEmission
  <1> QED
    BY <1>1, <1>2, <1>3

\* Ending a transaction closes the emission it had open, and no other.
LEMMA EndClosesOpen ==
  ASSUME IInv, NEW c \in Caller, pc[c] # "idle", EndTransaction(c),
         outcome' = [outcome EXCEPT ![c] = "none"]
  PROVE  OpenEmissions' = OpenEmissions \ (IF outcome[c] \in Arrived THEN {target[c]} ELSE {})
  <1>1. \A d \in Caller : d # c => outcome'[d] = outcome[d]
    BY DEF IInv, TypeOK
  <1>2. \A i \in Command : rowLock'[i] = IF rowLock[i] = c THEN None ELSE rowLock[i]
    BY DEF EndTransaction
  <1>3. \A i \in Command : rowLock[i] = c \/ rowLock[i] = None \/ (rowLock[i] \in Caller /\ rowLock[i] # c)
    BY DEF IInv, TypeOK
  <1>4. CASE InEmission(c)
    <2>1. \A i \in Command : rowLock[i] = c <=> i = target[c]
      BY <1>4, Holding
    <2>2. ASSUME NEW i \in Command
          PROVE  i \in OpenEmissions' <=> i \in OpenEmissions /\ rowLock[i] # c
      BY <1>1, <1>2, <1>3 DEF OpenEmissions
    <2>3. ASSUME NEW i \in Command
          PROVE  i \in OpenEmissions /\ rowLock[i] = c <=> i = target[c] /\ outcome[c] \in Arrived
      BY <2>1 DEF OpenEmissions, Arrived
    <2> QED
      BY <2>1, <2>2, <2>3 DEF OpenEmissions
  <1>5. CASE ~InEmission(c)
    <2>1. outcome[c] \notin Arrived /\ \A i \in Command : rowLock[i] # c
      BY <1>5, NotHolding DEF Arrived
    <2>2. ASSUME NEW i \in Command
          PROVE  i \in OpenEmissions' <=> i \in OpenEmissions
      BY <1>1, <1>2, <1>3, <2>1 DEF OpenEmissions
    <2> QED
      BY <2>1, <2>2 DEF OpenEmissions
  <1> QED
    BY <1>4, <1>5

-------------------------------------------------------------------------------
LEMMA RefuseRefines ==
  ASSUME IInv, NEW c \in Caller, pc[c] = "idle", UNCHANGED <<ledger, locks, published>>,
         outcome' = [outcome EXCEPT ![c] = "none"]
  PROVE  UNCHANGED Ledger!vars
  <1>1. outcome[c] = "none"
    BY NotHolding DEF InEmission
  <1>2. outcome' = outcome
    BY <1>1 DEF IInv, TypeOK
  <1> QED
    BY <1>2, QuietStep DEF locks

LEMMA CommitRecordRefines ==
  ASSUME IInv, NEW c \in Caller, pc[c] = "commit", Commit(c),
         outcome' = [outcome EXCEPT ![c] = "none"], UNCHANGED published
  PROVE  [Ledger!Next]_(Ledger!vars)
  <1>1. outcome[c] = "none" /\ outcome' = outcome
    BY NotHolding DEF InEmission, IInv, TypeOK
  <1>2. OpenEmissions' = OpenEmissions /\ dispatched' = dispatched
    BY <1>1, EndClosesOpen DEF Commit, Arrived
  <1>3. CASE \E i \in Command : inserting[i] = c
    <2>1. PICK i \in Command : inserting[i] = c
      BY <1>3
    <2>2. /\ recorded[i] = None /\ i = target[c] /\ request[c] \in Payload
          /\ \A j \in Command : inserting[j] = c => j = i
      BY <2>1 DEF IInv, TypeOK, CallInv, InsertInv
    <2>3. recorded' = [recorded EXCEPT ![i] = request[c]]
      BY <2>1, <2>2 DEF Commit, IInv, TypeOK
    <2>4. Ledger!Accept(i, request[c])
      BY <1>2, <2>2, <2>3 DEF Ledger!Accept
    <2> QED
      BY <2>2, <2>4 DEF Ledger!Next
  <1>4. CASE \A i \in Command : inserting[i] # c
    <2>1. recorded' = recorded
      BY <1>4 DEF Commit, IInv, TypeOK
    <2> QED
      BY <1>2, <2>1 DEF Ledger!vars
  <1> QED
    BY <1>3, <1>4

LEMMA LockRefines ==
  ASSUME IInv, NEW c \in Caller, Lock(c)
  PROVE  UNCHANGED Ledger!vars
  <1>1. outcome[c] = "none" /\ target[c] \in Command
    BY NotHolding DEF Lock, InEmission, IInv, CallInv
  <1>2. ASSUME NEW i \in Command
        PROVE  i \in OpenEmissions' <=> i \in OpenEmissions
    <2>1. CASE i = target[c]
      BY <1>1, <2>1 DEF Lock, OpenEmissions, IInv, TypeOK
    <2>2. CASE i # target[c]
      BY <1>1, <2>2 DEF Lock, OpenEmissions, IInv, TypeOK
    <2> QED
      BY <2>1, <2>2
  <1> QED
    BY <1>2 DEF Lock, Ledger!vars, ledger, OpenEmissions

LEMMA EmitRefines ==
  ASSUME IInv, NEW c \in Caller, EmitDelivered(c) \/ EmitUncertain(c)
  PROVE  Ledger!Next
  <1>1. PICK i \in Command : /\ i = target[c] /\ rowLock[i] = c /\ recorded[i] # None
                             /\ \A j \in Command : rowLock[j] = c <=> j = i
    BY Holding DEF EmitDelivered, EmitUncertain, InEmission
  <1>2. outcome[c] = "none" /\ i \notin dispatched /\ outcome'[c] \in Arrived
    BY <1>1 DEF EmitDelivered, EmitUncertain, IInv, TypeOK, CallInv, RecordInv, Arrived
  <1>3. \A d \in Caller : d # c => outcome'[d] = outcome[d]
    BY DEF EmitDelivered, EmitUncertain, IInv, TypeOK
  <1>4. i \notin OpenEmissions
    BY <1>1, <1>2 DEF OpenEmissions
  <1>5. OpenEmissions' = OpenEmissions \cup {i}
    <2>1. rowLock' = rowLock /\ c # None
      BY DEF EmitDelivered, EmitUncertain, locks
    <2>2. \A j \in Command : rowLock[j] = None \/ rowLock[j] \in Caller
      BY DEF IInv, TypeOK
    <2>3. ASSUME NEW j \in Command
          PROVE  j \in OpenEmissions' <=> j \in OpenEmissions \/ j = i
      BY <1>1, <1>2, <1>3, <2>1, <2>2 DEF OpenEmissions, Arrived
    <2> QED
      BY <2>3 DEF OpenEmissions
  <1>6. Ledger!Emit(i)
    BY <1>1, <1>2, <1>4, <1>5 DEF Ledger!Emit, EmitDelivered, EmitUncertain, Publish, ledger
  <1> QED
    BY <1>6 DEF Ledger!Next

LEMMA EmitLostRefines ==
  ASSUME IInv, NEW c \in Caller, EmitLost(c)
  PROVE  UNCHANGED Ledger!vars
  <1>1. outcome[c] \notin Arrived /\ outcome'[c] \notin Arrived
    BY DEF EmitLost, IInv, TypeOK, CallInv, Arrived
  <1>2. \A d \in Caller : outcome'[d] \in Arrived <=> outcome[d] \in Arrived
    BY <1>1 DEF EmitLost, IInv, TypeOK
  <1>3. OpenEmissions' = OpenEmissions
    BY <1>2 DEF OpenEmissions, Arrived, EmitLost, locks, IInv, TypeOK
  <1> QED
    BY <1>3 DEF EmitLost, ledger, Ledger!vars

\* The commit that ends an emission confirms it or, without evidence, forgets it.
LEMMA CloseRefines ==
  ASSUME IInv, NEW c \in Caller, pc[c] = "close", Commit(c),
         outcome' = [outcome EXCEPT ![c] = "none"], UNCHANGED published
  PROVE  [Ledger!Next]_(Ledger!vars)
  <1>1. PICK i \in Command : i = target[c] /\ rowLock[i] = c /\ \A j \in Command : inserting[j] # c
    BY Holding DEF InEmission
  <1>2. recorded' = recorded
    BY <1>1 DEF Commit, IInv, TypeOK
  <1>3. OpenEmissions' = OpenEmissions \ (IF outcome[c] \in Arrived THEN {target[c]} ELSE {})
    BY EndClosesOpen DEF Commit
  <1>4. outcome[c] \in Arrived => i \in OpenEmissions
    BY <1>1 DEF OpenEmissions, Arrived
  <1>5. CASE outcome[c] = "delivered"
    <2>1. Ledger!Confirm(i)
      BY <1>1, <1>2, <1>3, <1>4, <1>5 DEF Ledger!Confirm, Commit, Arrived
    <2> QED
      BY <2>1 DEF Ledger!Next
  <1>6. CASE outcome[c] = "uncertain"
    <2>1. Ledger!Forget(i)
      BY <1>1, <1>2, <1>3, <1>4, <1>6 DEF Ledger!Forget, Commit, Arrived
    <2> QED
      BY <2>1 DEF Ledger!Next
  <1>7. CASE outcome[c] \notin Arrived
    BY <1>2, <1>3, <1>7 DEF Ledger!vars, Commit, Arrived
  <1> QED
    BY <1>5, <1>6, <1>7 DEF Arrived

\* A transaction that ends without its commit forgets the emission it had open.
LEMMA RollbackRefines ==
  ASSUME IInv, NEW c \in Caller, pc[c] # "idle", EndTransaction(c),
         outcome' = [outcome EXCEPT ![c] = "none"], UNCHANGED <<ledger, published>>
  PROVE  [Ledger!Next]_(Ledger!vars)
  <1>1. OpenEmissions' = OpenEmissions \ (IF outcome[c] \in Arrived THEN {target[c]} ELSE {})
    BY EndClosesOpen
  <1>2. CASE outcome[c] \in Arrived
    <2>1. InEmission(c)
      BY <1>2 DEF IInv, CallInv, InEmission, Arrived
    <2>2. target[c] \in Command /\ target[c] \in OpenEmissions
      BY <1>2, <2>1, Holding DEF OpenEmissions, Arrived
    <2>3. Ledger!Forget(target[c])
      BY <1>1, <1>2, <2>2 DEF Ledger!Forget, ledger
    <2> QED
      BY <2>2, <2>3 DEF Ledger!Next
  <1>3. CASE outcome[c] \notin Arrived
    BY <1>1, <1>3 DEF Ledger!vars, ledger
  <1> QED
    BY <1>2, <1>3

-------------------------------------------------------------------------------
LEMMA StepRefines == IInv /\ [Next]_vars => [Ledger!Next]_(Ledger!vars)
  <1> SUFFICES ASSUME IInv, [Next]_vars PROVE [Ledger!Next]_(Ledger!vars)
    OBVIOUS
  <1>1. ASSUME NEW c \in Caller, NEW i \in Command, NEW p \in Payload,
               Refuse(c, i, p) \/ Fire(c, i, p)
        PROVE  UNCHANGED Ledger!vars
    BY <1>1, RefuseRefines, QuietStep DEF Refuse, Fire, Return, locks
  <1>2. ASSUME NEW c \in Caller, NEW i \in Command, Evidence(c, i)
         PROVE  UNCHANGED Ledger!vars
    BY <1>2, RefuseRefines DEF Evidence, Return
  <1>3. ASSUME NEW c \in Caller, Get(c) \/ Insert(c)
        PROVE  UNCHANGED Ledger!vars
    BY <1>3, QuietStep DEF Get, Insert, locks
  <1>4. ASSUME NEW c \in Caller, CommitRecord(c)
        PROVE  [Ledger!Next]_(Ledger!vars)
    <2>1. outcome[c] = "none" /\ outcome' = [outcome EXCEPT ![c] = "none"]
      BY <1>4, NotHolding DEF CommitRecord, InEmission, IInv, TypeOK
    <2> QED
      BY <1>4, <2>1, CommitRecordRefines DEF CommitRecord
  <1>5. ASSUME NEW c \in Caller, Lock(c) \/ Emit(c)
        PROVE  [Ledger!Next]_(Ledger!vars)
    BY <1>5, LockRefines, EmitRefines, EmitLostRefines DEF Emit
  <1>6. ASSUME NEW c \in Caller, Close(c)
        PROVE  [Ledger!Next]_(Ledger!vars)
    BY <1>6, CloseRefines DEF Close, Return
  <1>7. ASSUME NEW c \in Caller, CommitFails(c)
        PROVE  [Ledger!Next]_(Ledger!vars)
    BY <1>7, CommitRecordRefines, CloseRefines, RollbackRefines DEF CommitFails, Return
  <1>8. ASSUME NEW c \in Caller, Abort(c)
        PROVE  [Ledger!Next]_(Ledger!vars)
    BY <1>8, RollbackRefines DEF Abort, Return
  <1>9. CASE UNCHANGED vars
    BY <1>9, QuietStep DEF vars, ledger
  <1>10. CASE Next
    <2>1. PICK c \in Caller :
            \/ \E i \in Command, p \in Payload : Refuse(c, i, p) \/ Fire(c, i, p)
            \/ \E i \in Command : Evidence(c, i)
            \/ Step(c) \/ CommitFails(c) \/ Abort(c)
      BY <1>10 DEF Next
    <2>2. CASE \/ \E i \in Command, p \in Payload : Refuse(c, i, p) \/ Fire(c, i, p)
               \/ \E i \in Command : Evidence(c, i)
      BY <1>1, <1>2, <2>2
    <2>3. CASE Step(c)
      BY <1>3, <1>4, <1>5, <1>6, <2>3 DEF Step
    <2> QED
      BY <1>7, <1>8, <2>1, <2>2, <2>3
  <1> QED
    BY <1>9, <1>10

\* The jobs controller implements the core jobs contract's promise about one
\* command identity, for any callers, commands, payloads and fault bounds.
THEOREM Refinement == Spec => ImplementsLedger
  <1>1. Init => Ledger!Init
    BY DEF Init, Ledger!Init, OpenEmissions
  <1> QED
    BY <1>1, StepRefines, Invariance, PTL DEF Spec, ImplementsLedger, Ledger!Spec
===============================================================================
