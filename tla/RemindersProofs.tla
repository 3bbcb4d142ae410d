---------------------------- MODULE RemindersProofs ----------------------------
(***************************************************************************)
(* The reminders of the package for any reminders, handlers, cancellers    *)
(* and instants: outbox and state agree, quiet ticks publish once, and the *)
(* package keeps the promise of OneNotice.  The inductive invariant says   *)
(* what the holder of a row lock knows about its row, and what a tick that *)
(* read the outbox still finds there.                                      *)
(***************************************************************************)
EXTENDS Reminders, SequenceTheorems, TLAPS

\* A reminder is asked for once, and its rows agree.
RowInv ==
    \A r \in Reminder :
        /\ state[r] = "absent" <=> remindAt[r] = NoInstant
        /\ state[r] = "due" <=> outbox[r] # NoInstant /\ r \notin confirmed
        /\ state[r] = "emitted" <=> r \in confirmed
        /\ r \in confirmed => stream[r] # <<>>

\* What a tick selected was due by its instant.
TodoInv == \A h \in Handler : \A r \in todo[h] : state[r] # "absent" /\ remindAt[r] <= at[h]

\* What it locked is still scheduled, and due.
HeldInv ==
    \A h \in Handler : \A r \in held[h] :
        pc[h] = "lock" /\ lock[r] = h /\ state[r] = "scheduled" /\ remindAt[r] <= at[h]

CancelInv ==
    \A c \in Canceller : target[c] # None => lock[target[c]] = c /\ state[target[c]] = "scheduled"

\* The outbox rows a tick read are there, and the one it is about to confirm was sent.
PendingInv ==
    \A h \in Handler : \A e \in pending[h] :
        /\ outbox[e[2]] = e[1]
        /\ pc[h] = "confirm" /\ IsHead(e, pending[h]) => stream[e[2]] # <<>>

\* Undisturbed, one tick is in progress at a time, and what it read is its own until it
\* confirms it.
AloneInv ==
    ~disturbed =>
        /\ \A g, h \in Handler : pc[g] # "idle" /\ pc[h] # "idle" => g = h
        /\ \A h \in Handler : pc[h] # "idle" => \A e \in pending[h] : pc[h] \in {"publish", "confirm"} => e[2] \notin confirmed
        /\ \A r \in Reminder : stream[r] # <<>> /\ r \notin confirmed =>
              \E h \in Handler : /\ pc[h] = "confirm" /\ <<outbox[r], r>> \in pending[h]
                                 /\ IsHead(<<outbox[r], r>>, pending[h])

IInv ==
    /\ TypeOK
    /\ RowInv
    /\ TodoInv
    /\ HeldInv
    /\ CancelInv
    /\ PendingInv
    /\ AloneInv
    /\ QuietTicksPublishOnce

USE HolderAssumption, BoundsAssumption DEF HolderAssumption, BoundsAssumption

-------------------------------------------------------------------------------
LEMMA InstantFacts == Instant \subseteq Nat /\ NoInstant \notin Instant /\ 0 \in Instant
  BY DEF Instant, NoInstant

\* A scheduled reminder has no outbox row.
LEMMA ScheduledFacts ==
  ASSUME IInv, NEW r \in Reminder, state[r] = "scheduled"
  PROVE  outbox[r] = NoInstant /\ r \notin confirmed /\ remindAt[r] # NoInstant
  BY DEF IInv, RowInv

\* An outbox row belongs to a reminder that is due or emitted.
LEMMA OutboxFacts ==
  ASSUME IInv, NEW r \in Reminder, outbox[r] # NoInstant
  PROVE  state[r] \in {"due", "emitted"}
  BY DEF IInv, RowInv

LEMMA PendingFacts ==
  ASSUME IInv, NEW h \in Handler, NEW e \in pending[h]
  PROVE  /\ e[1] \in Instant /\ e[2] \in Reminder /\ e = <<e[1], e[2]>>
         /\ outbox[e[2]] = e[1] /\ outbox[e[2]] # NoInstant
  BY InstantFacts DEF IInv, TypeOK, PendingInv

\* A row of the outbox is at the head alone.
LEMMA OneHead ==
  ASSUME NEW P \in SUBSET (Instant \X Reminder), NEW e \in P, NEW f \in P, IsHead(e, P), IsHead(f, P)
  PROVE  e = f
  <1>1. /\ e[1] \in Nat /\ e[2] \in Nat /\ f[1] \in Nat /\ f[2] \in Nat
        /\ e = <<e[1], e[2]>> /\ f = <<f[1], f[2]>>
    <2>1. ASSUME NEW x \in Instant \X Reminder
          PROVE  x[1] \in Instant /\ x[2] \in Reminder /\ x = <<x[1], x[2]>>
      OBVIOUS
    <2>2. e \in Instant \X Reminder /\ f \in Instant \X Reminder
      OBVIOUS
    <2> QED
      BY <2>1, <2>2, InstantFacts, ReminderAssumption DEF ReminderAssumption
  <1>2. /\ e[1] < f[1] \/ (e[1] = f[1] /\ e[2] <= f[2])
        /\ f[1] < e[1] \/ (f[1] = e[1] /\ f[2] <= e[2])
    BY DEF IsHead
  <1>3. e[1] = f[1] /\ e[2] = f[2]
    BY <1>1, <1>2
  <1> QED
    BY <1>1, <1>3

-------------------------------------------------------------------------------
(* The requests. *)

LEMMA CreateInv ==
  ASSUME IInv, NEW r \in Reminder, NEW t \in Instant, Create(r, t)
  PROVE  IInv'
  <1>1. /\ state[r] = "absent"
        /\ state' = [state EXCEPT ![r] = "scheduled"] /\ remindAt' = [remindAt EXCEPT ![r] = t]
        /\ UNCHANGED <<outbox, confirmed, stream, lock, pc, at, todo, held, pending, target, faults, disturbed>>
    BY DEF Create, tick, marks
  <1>2. /\ state \in [Reminder -> State] /\ remindAt \in [Reminder -> Instant \cup {NoInstant}]
        /\ todo \in [Handler -> SUBSET Reminder] /\ held \in [Handler -> SUBSET Reminder]
        /\ target \in [Canceller -> Reminder \cup {None}]
    BY DEF IInv, TypeOK
  <1>3. /\ state'[r] = "scheduled" /\ remindAt'[r] = t
        /\ \A s \in Reminder : s # r => state'[s] = state[s] /\ remindAt'[s] = remindAt[s]
    BY <1>1, <1>2
  <1>4. TypeOK'
    BY <1>1, <1>2 DEF IInv, TypeOK, State
  <1>5. RowInv'
    BY <1>1, <1>3, InstantFacts DEF IInv, RowInv
  <1>6. TodoInv'
    BY <1>1, <1>2, <1>3 DEF IInv, TodoInv
  <1>7. HeldInv'
    BY <1>1, <1>2, <1>3 DEF IInv, HeldInv
  <1>8. CancelInv'
    BY <1>1, <1>2, <1>3 DEF IInv, CancelInv
  <1>9. PendingInv' /\ AloneInv' /\ QuietTicksPublishOnce'
    BY <1>1 DEF IInv, PendingInv, AloneInv, QuietTicksPublishOnce
  <1> QED
    BY <1>4, <1>5, <1>6, <1>7, <1>8, <1>9 DEF IInv

LEMMA CancelStepInv ==
  ASSUME IInv, NEW c \in Canceller, NEW r \in Reminder, Cancel(c, r)
  PROVE  IInv'
  <1>1. /\ target[c] = None /\ lock[r] = None /\ state[r] = "scheduled"
        /\ lock' = [lock EXCEPT ![r] = c] /\ target' = [target EXCEPT ![c] = r]
        /\ UNCHANGED <<state, remindAt, outbox, confirmed, stream, pc, at, todo, held, pending, faults, disturbed>>
    BY DEF Cancel, rows, tick, marks
  <1>2. /\ lock \in [Reminder -> Handler \cup Canceller \cup {None}]
        /\ held \in [Handler -> SUBSET Reminder] /\ target \in [Canceller -> Reminder \cup {None}]
    BY DEF IInv, TypeOK
  <1>3. TypeOK'
    BY <1>1, <1>2 DEF IInv, TypeOK
  <1>4. RowInv' /\ TodoInv'
    <2>1. RowInv'
      BY <1>1 DEF IInv, RowInv
    <2>2. TodoInv'
      BY <1>1 DEF IInv, TodoInv
    <2> QED
      BY <2>1, <2>2
  <1>5. HeldInv'
    <2> SUFFICES ASSUME NEW h \in Handler, NEW s \in held[h]
                 PROVE  pc[h] = "lock" /\ lock'[s] = h /\ state[s] = "scheduled" /\ remindAt[s] <= at[h]
      BY <1>1 DEF HeldInv
    <2>1. s \in Reminder /\ pc[h] = "lock" /\ lock[s] = h /\ state[s] = "scheduled" /\ remindAt[s] <= at[h]
      BY <1>2 DEF IInv, HeldInv
    <2> QED
      BY <1>1, <1>2, <2>1
  <1>6. CancelInv'
    BY <1>1, <1>2 DEF IInv, CancelInv
  <1>7. PendingInv' /\ AloneInv' /\ QuietTicksPublishOnce'
    BY <1>1 DEF IInv, PendingInv, AloneInv, QuietTicksPublishOnce
  <1> QED
    BY <1>3, <1>4, <1>5, <1>6, <1>7 DEF IInv

LEMMA EndCancelInv ==
  ASSUME IInv, NEW c \in Canceller, EndCancel(c)
  PROVE  IInv'
  <1>1. PICK r : r = target[c]
    OBVIOUS
  <1>2. /\ r # None
        /\ state' = [state EXCEPT ![r] = "cancelled"] \/ UNCHANGED state
        /\ lock' = [lock EXCEPT ![r] = None] /\ target' = [target EXCEPT ![c] = None]
        /\ UNCHANGED <<remindAt, outbox, confirmed, stream, pc, at, todo, held, pending, faults, disturbed>>
    BY <1>1 DEF EndCancel, tick, marks
  <1>3. /\ lock \in [Reminder -> Handler \cup Canceller \cup {None}] /\ state \in [Reminder -> State]
        /\ held \in [Handler -> SUBSET Reminder] /\ target \in [Canceller -> Reminder \cup {None}]
        /\ todo \in [Handler -> SUBSET Reminder]
    BY DEF IInv, TypeOK
  <1>4. r \in Reminder /\ lock[r] = c /\ state[r] = "scheduled"
    BY <1>1, <1>2, <1>3 DEF IInv, CancelInv
  <1>5. /\ state' \in [Reminder -> State] /\ state'[r] \in {"scheduled", "cancelled"}
        /\ \A s \in Reminder : s # r => state'[s] = state[s] /\ lock'[s] = lock[s]
    BY <1>2, <1>3, <1>4 DEF State
  <1>6. TypeOK'
    <2>1. lock' \in [Reminder -> Handler \cup Canceller \cup {None}] /\ target' \in [Canceller -> Reminder \cup {None}]
      BY <1>2, <1>3
    <2> QED
      BY <1>2, <1>5, <2>1 DEF IInv, TypeOK
  <1>7. RowInv'
    BY <1>2, <1>4, <1>5 DEF IInv, RowInv
  <1>8. TodoInv'
    BY <1>2, <1>3, <1>4, <1>5 DEF IInv, TodoInv
  <1>9. HeldInv'
    <2> SUFFICES ASSUME NEW h \in Handler, NEW s \in held[h]
                 PROVE  pc[h] = "lock" /\ lock'[s] = h /\ state'[s] = "scheduled" /\ remindAt[s] <= at[h]
      BY <1>2 DEF HeldInv
    <2>1. s \in Reminder /\ pc[h] = "lock" /\ lock[s] = h /\ state[s] = "scheduled" /\ remindAt[s] <= at[h]
      BY <1>3 DEF IInv, HeldInv
    <2>2. s # r
      BY <1>4, <2>1
    <2> QED
      BY <1>5, <2>1, <2>2
  <1>10. CancelInv'
    <2> SUFFICES ASSUME NEW d \in Canceller, target'[d] # None
                 PROVE  lock'[target'[d]] = d /\ state'[target'[d]] = "scheduled"
      BY DEF CancelInv
    <2>1. d # c /\ target'[d] = target[d]
      BY <1>2, <1>3
    <2>2. target[d] \in Reminder /\ lock[target[d]] = d /\ state[target[d]] = "scheduled"
      BY <1>3, <2>1 DEF IInv, CancelInv
    <2>3. target[d] # r
      BY <1>4, <2>1, <2>2
    <2> QED
      BY <1>5, <2>1, <2>2, <2>3
  <1>11. PendingInv' /\ AloneInv' /\ QuietTicksPublishOnce'
    BY <1>2 DEF IInv, PendingInv, AloneInv, QuietTicksPublishOnce
  <1> QED
    BY <1>6, <1>7, <1>8, <1>9, <1>10, <1>11 DEF IInv

-------------------------------------------------------------------------------
(* The tick. *)

\* A step of a tick that leaves the outbox and the stream alone and does not publish.
LEMMA PendingKept ==
  ASSUME IInv, NEW h \in Handler, NEW label \in {"idle", "lock", "read"}, Goto(h, label),
         UNCHANGED <<outbox, stream>>, \A g \in Handler : pending'[g] \in {pending[g], {}}
  PROVE  PendingInv'
  <1>1. \A g \in Handler : pc'[g] = "confirm" => pc[g] = "confirm"
    BY DEF IInv, TypeOK, Goto
  <1>2. SUFFICES ASSUME NEW g \in Handler, NEW e \in pending'[g]
                 PROVE  /\ outbox[e[2]] = e[1]
                        /\ pc'[g] = "confirm" /\ IsHead(e, pending'[g]) => stream[e[2]] # <<>>
    BY DEF PendingInv
  <1>3. pending'[g] = pending[g]
    OBVIOUS
  <1> QED
    BY <1>1, <1>3 DEF IInv, PendingInv

LEMMA GotoFacts ==
  ASSUME IInv, NEW h \in Handler, NEW label \in PC, Goto(h, label)
  PROVE  pc' \in [Handler -> PC] /\ pc'[h] = label /\ \A g \in Handler : g # h => pc'[g] = pc[g]
  BY DEF IInv, TypeOK, Goto

LEMMA TickInv ==
  ASSUME IInv, NEW h \in Handler, NEW t \in Instant, Tick(h, t)
  PROVE  IInv'
  <1>1. /\ pc[h] = "idle" /\ Goto(h, "lock") /\ at' = [at EXCEPT ![h] = t]
        /\ todo' = [todo EXCEPT ![h] = {r \in Reminder : state[r] = "scheduled" /\ remindAt[r] <= t}]
        /\ disturbed' = (disturbed \/ \E g \in Handler : pc[g] # "idle")
        /\ UNCHANGED <<state, remindAt, outbox, confirmed, stream, lock, held, pending, target, faults>>
    BY DEF Tick, rows
  <1>2. pc' \in [Handler -> PC] /\ pc'[h] = "lock" /\ \A g \in Handler : g # h => pc'[g] = pc[g]
    BY <1>1, GotoFacts DEF PC
  <1>3. at \in [Handler -> Instant] /\ todo \in [Handler -> SUBSET Reminder]
    BY DEF IInv, TypeOK
  <1>4. TypeOK'
    <2>1. at' \in [Handler -> Instant] /\ todo' \in [Handler -> SUBSET Reminder]
      BY <1>1, <1>3
    <2>2. disturbed' \in BOOLEAN
      BY <1>1 DEF IInv, TypeOK
    <2> QED
      BY <1>1, <1>2, <2>1, <2>2 DEF IInv, TypeOK
  <1>5. RowInv' /\ CancelInv'
    BY <1>1 DEF IInv, RowInv, CancelInv
  <1>6. TodoInv'
    BY <1>1, <1>3 DEF IInv, TodoInv
  <1>7. HeldInv'
    BY <1>1, <1>2, <1>3 DEF IInv, HeldInv
  <1>8. PendingInv'
    BY <1>1, PendingKept
  <1>9. AloneInv' /\ QuietTicksPublishOnce'
    <2> SUFFICES ASSUME ~disturbed' PROVE AloneInv' /\ QuietTicksPublishOnce'
      BY DEF AloneInv, QuietTicksPublishOnce
    <2>1. ~disturbed /\ \A g \in Handler : pc[g] = "idle"
      BY <1>1
    <2>2. \A r \in Reminder : stream[r] = <<>> \/ r \in confirmed
      BY <2>1 DEF IInv, AloneInv
    <2>3. AloneInv'
      BY <1>1, <1>2, <2>1, <2>2 DEF AloneInv
    <2> QED
      BY <1>1, <2>1, <2>3 DEF IInv, QuietTicksPublishOnce
  <1> QED
    BY <1>4, <1>5, <1>6, <1>7, <1>8, <1>9 DEF IInv

\* A tick that is alone and not at its publications leaves the others where they are.
LEMMA AloneKept ==
  ASSUME IInv, NEW h \in Handler, pc[h] \in {"lock", "read"}, NEW label \in {"idle", "lock", "read"},
         pc' = pc \/ Goto(h, label), UNCHANGED <<confirmed, stream, disturbed>>
  PROVE  AloneInv' /\ QuietTicksPublishOnce'
  <1>1. QuietTicksPublishOnce'
    BY DEF IInv, QuietTicksPublishOnce
  <1>2. SUFFICES ASSUME ~disturbed PROVE AloneInv'
    BY <1>1 DEF AloneInv
  <1>3. \A g \in Handler : g # h => pc[g] = "idle"
    BY <1>2 DEF IInv, AloneInv
  <1>4. pc'[h] \in {"idle", "lock", "read"} /\ \A g \in Handler : g # h => pc'[g] = "idle"
    BY <1>3 DEF IInv, TypeOK, Goto
  <1>5. \A r \in Reminder : stream[r] = <<>> \/ r \in confirmed
    BY <1>2, <1>3 DEF IInv, AloneInv
  <1> QED
    BY <1>4, <1>5 DEF AloneInv

LEMMA LockRowInv ==
  ASSUME IInv, NEW h \in Handler, LockRow(h)
  PROVE  IInv'
  <1>1. PICK r \in todo[h] :
          /\ pc[h] = "lock" /\ lock[r] = None
          /\ todo' = [todo EXCEPT ![h] = @ \ {r}]
          /\ \/ /\ state[r] = "scheduled"
                /\ lock' = [lock EXCEPT ![r] = h] /\ held' = [held EXCEPT ![h] = @ \cup {r}]
             \/ UNCHANGED <<lock, held>>
          /\ UNCHANGED <<state, remindAt, outbox, confirmed, stream, pc, at, pending, target, faults, disturbed>>
    BY DEF LockRow, rows, marks
  <1>2. /\ lock \in [Reminder -> Handler \cup Canceller \cup {None}]
        /\ held \in [Handler -> SUBSET Reminder] /\ todo \in [Handler -> SUBSET Reminder]
        /\ target \in [Canceller -> Reminder \cup {None}]
    BY DEF IInv, TypeOK
  <1>3. r \in Reminder
    BY <1>2
  <1>4. \A s \in Reminder : lock[s] # None => lock'[s] = lock[s]
    BY <1>1, <1>2, <1>3
  <1>5. TypeOK'
    <2>1. todo' \in [Handler -> SUBSET Reminder]
      BY <1>1, <1>2
    <2>2. held' \in [Handler -> SUBSET Reminder] /\ lock' \in [Reminder -> Handler \cup Canceller \cup {None}]
      BY <1>1, <1>2, <1>3
    <2> QED
      BY <1>1, <2>1, <2>2 DEF IInv, TypeOK
  <1>6. RowInv'
    BY <1>1 DEF IInv, RowInv
  <1>7. TodoInv'
    BY <1>1, <1>2 DEF IInv, TodoInv
  <1>8. HeldInv'
    <2> SUFFICES ASSUME NEW g \in Handler, NEW s \in held'[g]
                 PROVE  pc[g] = "lock" /\ lock'[s] = g /\ state[s] = "scheduled" /\ remindAt[s] <= at[g]
      BY <1>1 DEF HeldInv
    <2>1. CASE s \in held[g]
      <3>1. s \in Reminder /\ pc[g] = "lock" /\ lock[s] = g /\ state[s] = "scheduled" /\ remindAt[s] <= at[g]
        BY <1>2, <2>1 DEF IInv, HeldInv
      <3> QED
        BY <1>4, <3>1
    <2>2. CASE s \notin held[g]
      <3>1. g = h /\ s = r /\ state[r] = "scheduled" /\ lock' = [lock EXCEPT ![r] = h]
        BY <1>1, <1>2, <2>2
      <3>2. remindAt[r] <= at[h]
        BY <1>1 DEF IInv, TodoInv
      <3> QED
        BY <1>1, <1>2, <1>3, <3>1, <3>2
    <2> QED
      BY <2>1, <2>2
  <1>9. CancelInv'
    <2> SUFFICES ASSUME NEW c \in Canceller, target[c] # None
                 PROVE  lock'[target[c]] = c /\ state[target[c]] = "scheduled"
      BY <1>1 DEF CancelInv
    <2>1. target[c] \in Reminder /\ lock[target[c]] = c /\ state[target[c]] = "scheduled"
      BY <1>2 DEF IInv, CancelInv
    <2> QED
      BY <1>4, <2>1
  <1>10. PendingInv'
    BY <1>1 DEF IInv, PendingInv
  <1>11. AloneInv' /\ QuietTicksPublishOnce'
    BY <1>1, AloneKept
  <1> QED
    BY <1>5, <1>6, <1>7, <1>8, <1>9, <1>10, <1>11 DEF IInv

\* Locks of the others outlive the end of a tick's transaction.
LEMMA UnlockFacts ==
  ASSUME IInv, NEW h \in Handler, Unlock(h)
  PROVE  /\ lock' \in [Reminder -> Handler \cup Canceller \cup {None}]
         /\ \A r \in Reminder : lock[r] # h => lock'[r] = lock[r]
  BY DEF IInv, TypeOK, Unlock

LEMMA CommitDueInv ==
  ASSUME IInv, NEW h \in Handler, CommitDue(h)
  PROVE  IInv'
  <1>1. /\ pc[h] = "lock" /\ Unlock(h) /\ Goto(h, "read")
        /\ state' = [r \in Reminder |-> IF r \in held[h] THEN "due" ELSE state[r]]
        /\ outbox' = [r \in Reminder |-> IF r \in held[h] /\ outbox[r] = NoInstant THEN at[h] ELSE outbox[r]]
        /\ held' = [held EXCEPT ![h] = {}]
        /\ UNCHANGED <<remindAt, confirmed, stream, at, todo, pending, target, faults, disturbed>>
    BY DEF CommitDue, marks
  <1>2. /\ state \in [Reminder -> State] /\ outbox \in [Reminder -> Instant \cup {NoInstant}]
        /\ held \in [Handler -> SUBSET Reminder] /\ todo \in [Handler -> SUBSET Reminder]
        /\ at \in [Handler -> Instant] /\ target \in [Canceller -> Reminder \cup {None}]
    BY DEF IInv, TypeOK
  <1>3. pc' \in [Handler -> PC] /\ pc'[h] = "read" /\ \A g \in Handler : g # h => pc'[g] = pc[g]
    BY <1>1, GotoFacts DEF PC
  <1>4. /\ lock' \in [Reminder -> Handler \cup Canceller \cup {None}]
        /\ \A r \in Reminder : lock[r] # h => lock'[r] = lock[r]
    BY <1>1, UnlockFacts
  <1>5. ASSUME NEW r \in held[h]
        PROVE  /\ r \in Reminder /\ lock[r] = h /\ state[r] = "scheduled" /\ outbox[r] = NoInstant
               /\ r \notin confirmed /\ state'[r] = "due" /\ outbox'[r] = at[h] /\ at[h] \in Instant
    <2>1. r \in Reminder /\ lock[r] = h /\ state[r] = "scheduled"
      BY <1>2 DEF IInv, HeldInv
    <2>2. outbox[r] = NoInstant /\ r \notin confirmed
      BY <2>1, ScheduledFacts
    <2> QED
      BY <1>1, <1>2, <2>1, <2>2
  <1>6. \A r \in Reminder : r \notin held[h] => state'[r] = state[r] /\ outbox'[r] = outbox[r]
    BY <1>1
  <1>7. TypeOK'
    <2>1. state' \in [Reminder -> State]
      BY <1>1, <1>2 DEF State
    <2>2. outbox' \in [Reminder -> Instant \cup {NoInstant}]
      BY <1>1, <1>2
    <2>3. held' \in [Handler -> SUBSET Reminder]
      BY <1>1, <1>2
    <2> QED
      BY <1>1, <1>3, <1>4, <2>1, <2>2, <2>3 DEF IInv, TypeOK
  <1>8. RowInv'
    <2> SUFFICES ASSUME NEW r \in Reminder
                 PROVE  /\ state'[r] = "absent" <=> remindAt[r] = NoInstant
                        /\ state'[r] = "due" <=> outbox'[r] # NoInstant /\ r \notin confirmed
                        /\ state'[r] = "emitted" <=> r \in confirmed
                        /\ r \in confirmed => stream[r] # <<>>
      BY <1>1 DEF RowInv
    <2>1. CASE r \in held[h]
      <3>1. remindAt[r] # NoInstant
        BY <1>5, <2>1, ScheduledFacts
      <3> QED
        BY <1>5, <2>1, <3>1, InstantFacts
    <2>2. CASE r \notin held[h]
      BY <1>6, <2>2 DEF IInv, RowInv
    <2> QED
      BY <2>1, <2>2
  <1>9. TodoInv'
    <2> SUFFICES ASSUME NEW g \in Handler, NEW r \in todo[g]
                 PROVE  state'[r] # "absent" /\ remindAt[r] <= at[g]
      BY <1>1 DEF TodoInv
    <2>1. r \in Reminder /\ state[r] # "absent" /\ remindAt[r] <= at[g]
      BY <1>2 DEF IInv, TodoInv
    <2> QED
      BY <1>5, <1>6, <2>1
  <1>10. HeldInv'
    <2> SUFFICES ASSUME NEW g \in Handler, NEW r \in held'[g]
                 PROVE  pc'[g] = "lock" /\ lock'[r] = g /\ state'[r] = "scheduled" /\ remindAt[r] <= at[g]
      BY <1>1 DEF HeldInv
    <2>1. g # h /\ r \in held[g]
      BY <1>1, <1>2
    <2>2. r \in Reminder /\ pc[g] = "lock" /\ lock[r] = g /\ state[r] = "scheduled" /\ remindAt[r] <= at[g]
      BY <1>2, <2>1 DEF IInv, HeldInv
    <2>3. r \notin held[h]
      BY <1>5, <2>1, <2>2
    <2> QED
      BY <1>3, <1>4, <1>6, <2>1, <2>2, <2>3
  <1>11. CancelInv'
    <2> SUFFICES ASSUME NEW c \in Canceller, target[c] # None
                 PROVE  lock'[target[c]] = c /\ state'[target[c]] = "scheduled"
      BY <1>1 DEF CancelInv
    <2>1. target[c] \in Reminder /\ lock[target[c]] = c /\ state[target[c]] = "scheduled" /\ c # h
      BY <1>2 DEF IInv, CancelInv
    <2>2. target[c] \notin held[h]
      BY <1>5, <2>1
    <2> QED
      BY <1>4, <1>6, <2>1, <2>2
  <1>12. PendingInv'
    <2> SUFFICES ASSUME NEW g \in Handler, NEW e \in pending[g]
                 PROVE  /\ outbox'[e[2]] = e[1]
                        /\ pc'[g] = "confirm" /\ IsHead(e, pending[g]) => stream[e[2]] # <<>>
      BY <1>1 DEF PendingInv
    <2>1. e[2] \in Reminder /\ outbox[e[2]] = e[1] /\ outbox[e[2]] # NoInstant
      BY PendingFacts
    <2>2. outbox'[e[2]] = e[1]
      BY <1>5, <1>6, <2>1
    <2>3. pc'[g] = "confirm" => pc[g] = "confirm"
      BY <1>3
    <2> QED
      BY <2>2, <2>3 DEF IInv, PendingInv
  <1>13. AloneInv' /\ QuietTicksPublishOnce'
    BY <1>1, AloneKept
  <1> QED
    BY <1>7, <1>8, <1>9, <1>10, <1>11, <1>12, <1>13 DEF IInv

\* What a tick reads is in the outbox, and unconfirmed.
LEMMA ReadPendingInv ==
  ASSUME IInv, NEW h \in Handler, ReadPending(h)
  PROVE  IInv'
  <1>1. PICK P : P = {<<outbox[r], r>> : r \in {s \in Reminder : outbox[s] # NoInstant /\ s \notin confirmed}}
    OBVIOUS
  <1>2. /\ pc[h] = "read" /\ pending' = [pending EXCEPT ![h] = P]
        /\ Goto(h, "idle") \/ Goto(h, "publish")
        /\ UNCHANGED <<state, remindAt, outbox, confirmed, stream, lock, at, todo, held, target, faults, disturbed>>
    BY <1>1 DEF ReadPending, rows, marks
  <1>3. /\ outbox \in [Reminder -> Instant \cup {NoInstant}]
        /\ pending \in [Handler -> SUBSET (Instant \X Reminder)]
    BY DEF IInv, TypeOK
  <1>4. \A e \in P : /\ e[2] \in Reminder /\ e[1] \in Instant /\ e \in Instant \X Reminder
                     /\ outbox[e[2]] = e[1] /\ e[2] \notin confirmed
    <2> TAKE e \in P
    <2>1. PICK r \in Reminder : e = <<outbox[r], r>> /\ outbox[r] # NoInstant /\ r \notin confirmed
      BY <1>1
    <2>2. outbox[r] \in Instant
      BY <1>3, <2>1
    <2> QED
      BY <2>1, <2>2
  <1>5. pending'[h] = P /\ \A g \in Handler : g # h => pending'[g] = pending[g]
    BY <1>2, <1>3
  <1>6. /\ pc' \in [Handler -> PC] /\ pc'[h] \in {"idle", "publish"}
        /\ \A g \in Handler : g # h => pc'[g] = pc[g]
    BY <1>2, GotoFacts DEF PC
  <1>7. TypeOK'
    <2>1. pending' \in [Handler -> SUBSET (Instant \X Reminder)]
      <3>1. P \subseteq Instant \X Reminder
        BY <1>4
      <3> QED
        BY <1>2, <1>3, <3>1
    <2> QED
      BY <1>2, <1>6, <2>1 DEF IInv, TypeOK
  <1>8. RowInv'
    BY <1>2 DEF IInv, RowInv
  <1>9. TodoInv'
    BY <1>2 DEF IInv, TodoInv
  <1>10. HeldInv'
    BY <1>2, <1>6 DEF IInv, HeldInv
  <1>11. CancelInv'
    BY <1>2 DEF IInv, CancelInv
  <1>12. PendingInv'
    <2> SUFFICES ASSUME NEW g \in Handler, NEW e \in pending'[g]
                 PROVE  /\ outbox[e[2]] = e[1]
                        /\ pc'[g] = "confirm" /\ IsHead(e, pending'[g]) => stream[e[2]] # <<>>
      BY <1>2 DEF PendingInv
    <2>1. CASE g = h
      BY <1>4, <1>5, <1>6, <2>1
    <2>2. CASE g # h
      BY <1>5, <1>6, <2>2 DEF IInv, PendingInv
    <2> QED
      BY <2>1, <2>2
  <1>13. QuietTicksPublishOnce'
    BY <1>2 DEF IInv, QuietTicksPublishOnce
  <1>14. AloneInv'
    <2> SUFFICES ASSUME ~disturbed PROVE AloneInv'
      BY <1>2 DEF AloneInv
    <2>1. \A g \in Handler : g # h => pc[g] = "idle" /\ pc'[g] = "idle"
      BY <1>2, <1>6 DEF IInv, AloneInv
    <2>2. \A r \in Reminder : stream[r] = <<>> \/ r \in confirmed
      BY <1>2, <2>1 DEF IInv, AloneInv
    <2>3. \A g \in Handler : pc'[g] # "idle" => \A e \in pending'[g] : e[2] \notin confirmed
      BY <1>4, <1>5, <2>1
    <2> QED
      BY <1>2, <2>1, <2>2, <2>3 DEF AloneInv
  <1> QED
    BY <1>7, <1>8, <1>9, <1>10, <1>11, <1>12, <1>13, <1>14 DEF IInv

LEMMA PublishInv ==
  ASSUME IInv, NEW h \in Handler, Publish(h)
  PROVE  IInv'
  <1>1. PICK i \in Instant, d \in Reminder :
          /\ pc[h] = "publish" /\ <<i, d>> \in pending[h] /\ IsHead(<<i, d>>, pending[h])
          /\ stream' = [stream EXCEPT ![d] = Append(@, i)]
          /\ Goto(h, "confirm")
          /\ UNCHANGED <<state, remindAt, outbox, confirmed, lock, at, todo, held, pending, target, faults, disturbed>>
    <2>1. PICK e \in pending[h] :
            /\ pc[h] = "publish" /\ IsHead(e, pending[h])
            /\ stream' = [stream EXCEPT ![e[2]] = Append(@, e[1])]
            /\ Goto(h, "confirm")
            /\ UNCHANGED <<state, remindAt, outbox, confirmed, lock, at, todo, held, pending, target, faults, disturbed>>
      BY DEF Publish, rows, marks
    <2>2. e[1] \in Instant /\ e[2] \in Reminder /\ e = <<e[1], e[2]>>
      BY PendingFacts
    <2> QED
      BY <2>1, <2>2
  <1>2. outbox[d] = i
    <2>1. <<i, d>>[1] = i /\ <<i, d>>[2] = d
      OBVIOUS
    <2> QED
      BY <1>1, <2>1, PendingFacts
  <1>3. stream \in [Reminder -> Seq(Instant)] /\ pending \in [Handler -> SUBSET (Instant \X Reminder)]
    BY DEF IInv, TypeOK
  <1>4. /\ stream'[d] = Append(stream[d], i)
        /\ \A r \in Reminder : r # d => stream'[r] = stream[r]
    BY <1>1, <1>2, <1>3
  <1>5. /\ stream'[d] \in Seq(Instant) /\ stream'[d] # <<>>
        /\ Len(stream'[d]) = Len(stream[d]) + 1
    <2>1. stream[d] \in Seq(Instant)
      BY <1>3
    <2>2. /\ Append(stream[d], i) \in Seq(Instant) /\ Append(stream[d], i) # <<>>
          /\ Len(Append(stream[d], i)) = Len(stream[d]) + 1
      BY <2>1, AppendProperties
    <2> QED
      BY <1>4, <2>2
  <1>6. pc' \in [Handler -> PC] /\ pc'[h] = "confirm" /\ \A g \in Handler : g # h => pc'[g] = pc[g]
    BY <1>1, GotoFacts DEF PC
  <1>7. TypeOK'
    <2>1. stream' \in [Reminder -> Seq(Instant)]
      BY <1>1, <1>2, <1>3
    <2> QED
      BY <1>1, <1>6, <2>1 DEF IInv, TypeOK
  <1>8. RowInv'
    BY <1>1, <1>4, <1>5 DEF IInv, RowInv
  <1>9. TodoInv'
    BY <1>1 DEF IInv, TodoInv
  <1>10. HeldInv'
    BY <1>1, <1>6 DEF IInv, HeldInv
  <1>11. CancelInv'
    BY <1>1 DEF IInv, CancelInv
  <1>12. PendingInv'
    <2> SUFFICES ASSUME NEW g \in Handler, NEW f \in pending[g]
                 PROVE  /\ outbox[f[2]] = f[1]
                        /\ pc'[g] = "confirm" /\ IsHead(f, pending[g]) => stream'[f[2]] # <<>>
      BY <1>1 DEF PendingInv
    <2>1. f[2] \in Reminder /\ outbox[f[2]] = f[1]
      BY PendingFacts
    <2>2. CASE g = h
      <3> SUFFICES ASSUME IsHead(f, pending[g]) PROVE stream'[f[2]] # <<>>
        BY <2>1
      <3>1. f = <<i, d>>
        BY <1>1, <1>3, <2>2, OneHead
      <3> QED
        BY <1>5, <3>1
    <2>3. CASE g # h
      <3>1. pc'[g] = "confirm" /\ IsHead(f, pending[g]) => stream[f[2]] # <<>>
        BY <1>6, <2>3 DEF IInv, PendingInv
      <3>2. stream[f[2]] # <<>> => stream'[f[2]] # <<>>
        BY <1>4, <1>5, <2>1
      <3> QED
        BY <2>1, <3>1, <3>2
    <2> QED
      BY <2>2, <2>3
  <1>13. ~disturbed => stream[d] = <<>>
    <2> SUFFICES ASSUME ~disturbed, stream[d] # <<>> PROVE FALSE
      OBVIOUS
    <2>1. d \notin confirmed
      BY <1>1 DEF IInv, AloneInv
    <2>2. PICK g \in Handler : pc[g] = "confirm"
      BY <1>2, <2>1 DEF IInv, AloneInv
    <2>3. g = h
      BY <1>1, <2>2 DEF IInv, AloneInv
    <2> QED
      BY <1>1, <2>2, <2>3
  <1>14. QuietTicksPublishOnce'
    <2> SUFFICES ASSUME ~disturbed, NEW r \in Reminder PROVE Len(stream'[r]) <= 1
      BY <1>1 DEF QuietTicksPublishOnce
    <2>1. CASE r = d
      <3>1. Len(stream[d]) = 0
        BY <1>13
      <3>2. Len(stream'[d]) = 1
        BY <1>5, <3>1
      <3> QED
        BY <2>1, <3>2
    <2>2. CASE r # d
      BY <1>4, <2>2 DEF IInv, QuietTicksPublishOnce
    <2> QED
      BY <2>1, <2>2
  <1>15. AloneInv'
    <2> SUFFICES ASSUME ~disturbed PROVE AloneInv'
      BY <1>1 DEF AloneInv
    <2>1. \A g \in Handler : g # h => pc[g] = "idle" /\ pc'[g] = "idle"
      BY <1>1, <1>6 DEF IInv, AloneInv
    <2>2. \A f \in pending[h] : f[2] \notin confirmed
      BY <1>1 DEF IInv, AloneInv
    <2>3. \A r \in Reminder : stream[r] = <<>> \/ r \in confirmed
      BY <1>1, <2>1 DEF IInv, AloneInv
    <2>4. \A r \in Reminder : stream'[r] # <<>> /\ r \notin confirmed => r = d
      BY <1>2, <1>4, <2>3
    <2>5. \A r \in Reminder : stream'[r] # <<>> /\ r \notin confirmed =>
             pc'[h] = "confirm" /\ <<outbox[r], r>> \in pending[h] /\ IsHead(<<outbox[r], r>>, pending[h])
      BY <1>1, <1>2, <1>6, <2>4
    <2> QED
      BY <1>1, <1>6, <2>1, <2>2, <2>5 DEF AloneInv
  <1> QED
    BY <1>7, <1>8, <1>9, <1>10, <1>11, <1>12, <1>14, <1>15 DEF IInv

LEMMA ConfirmInv ==
  ASSUME IInv, NEW h \in Handler, Confirm(h)
  PROVE  IInv'
  <1>1. PICK e \in pending[h] :
          /\ pc[h] = "confirm" /\ IsHead(e, pending[h])
          /\ confirmed' = confirmed \cup {e[2]}
          /\ state' = [state EXCEPT ![e[2]] = IF @ = "due" THEN "emitted" ELSE @]
          /\ pending' = [pending EXCEPT ![h] = @ \ {e}]
          /\ Goto(h, "idle") \/ Goto(h, "publish")
          /\ UNCHANGED <<remindAt, outbox, stream, lock, at, todo, held, target, faults, disturbed>>
    BY DEF Confirm, marks
  <1>2. /\ e[1] \in Instant /\ e[2] \in Reminder /\ e = <<e[1], e[2]>>
        /\ outbox[e[2]] = e[1] /\ outbox[e[2]] # NoInstant /\ stream[e[2]] # <<>>
    BY <1>1, PendingFacts DEF IInv, PendingInv
  <1>3. /\ state \in [Reminder -> State] /\ pending \in [Handler -> SUBSET (Instant \X Reminder)]
        /\ held \in [Handler -> SUBSET Reminder] /\ todo \in [Handler -> SUBSET Reminder]
        /\ target \in [Canceller -> Reminder \cup {None}]
    BY DEF IInv, TypeOK
  <1>4. state[e[2]] \in {"due", "emitted"}
    BY <1>2, OutboxFacts
  <1>5. /\ state'[e[2]] = "emitted" /\ state' \in [Reminder -> State]
        /\ \A r \in Reminder : r # e[2] => state'[r] = state[r]
    BY <1>1, <1>2, <1>3, <1>4 DEF State
  <1>6. /\ pc' \in [Handler -> PC] /\ pc'[h] \in {"idle", "publish"}
        /\ \A g \in Handler : g # h => pc'[g] = pc[g]
    BY <1>1, GotoFacts DEF PC
  <1>7. pending'[h] = pending[h] \ {e} /\ \A g \in Handler : g # h => pending'[g] = pending[g]
    BY <1>1, <1>3
  <1>8. TypeOK'
    <2>1. pending' \in [Handler -> SUBSET (Instant \X Reminder)]
      BY <1>1, <1>3
    <2>2. confirmed' \subseteq Reminder
      BY <1>1, <1>2 DEF IInv, TypeOK
    <2> QED
      BY <1>1, <1>5, <1>6, <2>1, <2>2 DEF IInv, TypeOK
  <1>9. RowInv'
    <2> SUFFICES ASSUME NEW r \in Reminder
                 PROVE  /\ state'[r] = "absent" <=> remindAt[r] = NoInstant
                        /\ state'[r] = "due" <=> outbox[r] # NoInstant /\ r \notin confirmed'
                        /\ state'[r] = "emitted" <=> r \in confirmed'
                        /\ r \in confirmed' => stream[r] # <<>>
      BY <1>1 DEF RowInv
    <2>1. CASE r = e[2]
      BY <1>1, <1>2, <1>4, <1>5, <2>1 DEF IInv, RowInv
    <2>2. CASE r # e[2]
      BY <1>1, <1>5, <2>2 DEF IInv, RowInv
    <2> QED
      BY <2>1, <2>2
  <1>10. \A r \in Reminder :
            /\ (state[r] = "scheduled" => state'[r] = "scheduled")
            /\ (state[r] # "absent" => state'[r] # "absent")
    BY <1>4, <1>5
  <1>11. TodoInv'
    BY <1>1, <1>3, <1>10 DEF IInv, TodoInv
  <1>12. HeldInv'
    <2> SUFFICES ASSUME NEW g \in Handler, NEW r \in held[g]
                 PROVE  pc'[g] = "lock" /\ lock[r] = g /\ state'[r] = "scheduled" /\ remindAt[r] <= at[g]
      BY <1>1 DEF HeldInv
    <2>1. r \in Reminder /\ pc[g] = "lock" /\ lock[r] = g /\ state[r] = "scheduled" /\ remindAt[r] <= at[g]
      BY <1>3 DEF IInv, HeldInv
    <2> QED
      BY <1>1, <1>6, <1>10, <2>1
  <1>13. CancelInv'
    <2> SUFFICES ASSUME NEW c \in Canceller, target[c] # None
                 PROVE  lock[target[c]] = c /\ state'[target[c]] = "scheduled"
      BY <1>1 DEF CancelInv
    <2>1. target[c] \in Reminder /\ lock[target[c]] = c /\ state[target[c]] = "scheduled"
      BY <1>3 DEF IInv, CancelInv
    <2> QED
      BY <1>1, <1>10, <2>1
  <1>14. PendingInv'
    <2> SUFFICES ASSUME NEW g \in Handler, NEW f \in pending'[g]
                 PROVE  /\ outbox[f[2]] = f[1]
                        /\ pc'[g] = "confirm" /\ IsHead(f, pending'[g]) => stream[f[2]] # <<>>
      BY <1>1 DEF PendingInv
    <2>1. CASE g = h
      BY <1>6, <1>7, <2>1 DEF IInv, PendingInv
    <2>2. CASE g # h
      BY <1>6, <1>7, <2>2 DEF IInv, PendingInv
    <2> QED
      BY <2>1, <2>2
  <1>15. QuietTicksPublishOnce'
    BY <1>1 DEF IInv, QuietTicksPublishOnce
  <1>16. AloneInv'
    <2> SUFFICES ASSUME ~disturbed PROVE AloneInv'
      BY <1>1 DEF AloneInv
    <2>1. \A g \in Handler : g # h => pc[g] = "idle" /\ pc'[g] = "idle"
      BY <1>1, <1>6 DEF IInv, AloneInv
    <2>2. ASSUME NEW f \in pending'[h] PROVE f[2] \notin confirmed'
      <3>1. f \in pending[h] /\ f # e
        BY <1>7
      <3>2. f[2] \notin confirmed
        BY <1>1, <3>1 DEF IInv, AloneInv
      <3>3. f = <<f[1], f[2]>> /\ outbox[f[2]] = f[1]
        BY <3>1, PendingFacts
      <3>4. f[2] # e[2]
        BY <1>2, <3>1, <3>3
      <3> QED
        BY <1>1, <3>2, <3>4
    <2>3. ASSUME NEW r \in Reminder, stream[r] # <<>> PROVE r \in confirmed'
      <3> SUFFICES ASSUME r \notin confirmed PROVE r \in confirmed'
        BY <1>1
      <3>1. PICK g \in Handler : /\ pc[g] = "confirm" /\ <<outbox[r], r>> \in pending[g]
                                 /\ IsHead(<<outbox[r], r>>, pending[g])
        BY <2>3 DEF IInv, AloneInv
      <3>2. g = h
        BY <2>1, <3>1
      <3>3. e = <<outbox[r], r>>
        BY <1>1, <1>3, <3>1, <3>2, OneHead
      <3> QED
        BY <1>1, <3>3
    <2> QED
      BY <1>1, <2>1, <2>2, <2>3 DEF AloneInv
  <1> QED
    BY <1>8, <1>9, <1>11, <1>12, <1>13, <1>14, <1>15, <1>16 DEF IInv

LEMMA TickDiesInv ==
  ASSUME IInv, NEW h \in Handler, TickDies(h)
  PROVE  IInv'
  <1>1. /\ faults < MaxFaults /\ faults' = faults + 1 /\ disturbed' = TRUE
        /\ Unlock(h) /\ Goto(h, "idle")
        /\ todo' = [todo EXCEPT ![h] = {}] /\ held' = [held EXCEPT ![h] = {}]
        /\ pending' = [pending EXCEPT ![h] = {}]
        /\ UNCHANGED <<state, remindAt, outbox, confirmed, stream, at, target>>
    BY DEF TickDies, rows
  <1>2. /\ held \in [Handler -> SUBSET Reminder] /\ todo \in [Handler -> SUBSET Reminder]
        /\ pending \in [Handler -> SUBSET (Instant \X Reminder)]
        /\ target \in [Canceller -> Reminder \cup {None}] /\ faults \in 0..MaxFaults
    BY DEF IInv, TypeOK
  <1>3. pc' \in [Handler -> PC] /\ pc'[h] = "idle" /\ \A g \in Handler : g # h => pc'[g] = pc[g]
    BY <1>1, GotoFacts DEF PC
  <1>4. /\ lock' \in [Reminder -> Handler \cup Canceller \cup {None}]
        /\ \A r \in Reminder : lock[r] # h => lock'[r] = lock[r]
    BY <1>1, UnlockFacts
  <1>5. TypeOK'
    <2>1. /\ held' \in [Handler -> SUBSET Reminder] /\ todo' \in [Handler -> SUBSET Reminder]
          /\ pending' \in [Handler -> SUBSET (Instant \X Reminder)]
      BY <1>1, <1>2
    <2>2. faults' \in 0..MaxFaults /\ disturbed' \in BOOLEAN
      BY <1>1, <1>2
    <2> QED
      BY <1>1, <1>3, <1>4, <2>1, <2>2 DEF IInv, TypeOK
  <1>6. RowInv'
    BY <1>1 DEF IInv, RowInv
  <1>7. TodoInv'
    BY <1>1, <1>2 DEF IInv, TodoInv
  <1>8. HeldInv'
    <2> SUFFICES ASSUME NEW g \in Handler, NEW r \in held'[g]
                 PROVE  pc'[g] = "lock" /\ lock'[r] = g /\ state[r] = "scheduled" /\ remindAt[r] <= at[g]
      BY <1>1 DEF HeldInv
    <2>1. g # h /\ r \in held[g] /\ r \in Reminder
      BY <1>1, <1>2
    <2>2. pc[g] = "lock" /\ lock[r] = g /\ state[r] = "scheduled" /\ remindAt[r] <= at[g]
      BY <2>1 DEF IInv, HeldInv
    <2> QED
      BY <1>3, <1>4, <2>1, <2>2
  <1>9. CancelInv'
    <2> SUFFICES ASSUME NEW c \in Canceller, target[c] # None
                 PROVE  lock'[target[c]] = c /\ state[target[c]] = "scheduled"
      BY <1>1 DEF CancelInv
    <2>1. target[c] \in Reminder /\ lock[target[c]] = c /\ state[target[c]] = "scheduled" /\ c # h
      BY <1>2 DEF IInv, CancelInv
    <2> QED
      BY <1>4, <2>1
  <1>10. PendingInv'
    <2>1. \A g \in Handler : pending'[g] \in {pending[g], {}}
      BY <1>1, <1>2
    <2> QED
      BY <1>1, <2>1, PendingKept
  <1>11. AloneInv' /\ QuietTicksPublishOnce'
    BY <1>1 DEF AloneInv, QuietTicksPublishOnce
  <1> QED
    BY <1>5, <1>6, <1>7, <1>8, <1>9, <1>10, <1>11 DEF IInv

-------------------------------------------------------------------------------
(* The invariant of the specification. *)

LEMMA InitInv == Init => IInv
  <1> SUFFICES ASSUME Init PROVE IInv
    OBVIOUS
  <1>1. TypeOK
    <2>1. stream \in [Reminder -> Seq(Instant)]
      BY DEF Init
    <2>2. faults \in 0..MaxFaults /\ disturbed \in BOOLEAN
      <3>1. faults = 0 /\ disturbed = FALSE
        BY DEF Init
      <3>2. 0 \in 0..MaxFaults
        OBVIOUS
      <3> QED
        BY <3>1, <3>2
    <2>3. at \in [Handler -> Instant] /\ pc \in [Handler -> PC] /\ state \in [Reminder -> State]
      BY InstantFacts DEF Init, PC, State
    <2> QED
      BY <2>1, <2>2, <2>3 DEF Init, TypeOK
  <1>2. RowInv
    BY DEF Init, RowInv
  <1>3. TodoInv /\ HeldInv /\ CancelInv /\ PendingInv
    BY DEF Init, TodoInv, HeldInv, CancelInv, PendingInv
  <1>4. AloneInv /\ QuietTicksPublishOnce
    BY DEF Init, AloneInv, QuietTicksPublishOnce
  <1> QED
    BY <1>1, <1>2, <1>3, <1>4 DEF IInv

LEMMA StutterInv == ASSUME IInv, UNCHANGED vars PROVE IInv'
  <1>1. UNCHANGED <<state, remindAt, outbox, confirmed, stream, lock, pc, at, todo, held, pending,
                    target, faults, disturbed>>
    BY DEF vars
  <1>2. TypeOK'
    BY <1>1 DEF IInv, TypeOK
  <1>3. RowInv'
    BY <1>1 DEF IInv, RowInv
  <1>4. TodoInv' /\ HeldInv'
    <2>1. TodoInv'
      BY <1>1 DEF IInv, TodoInv
    <2>2. HeldInv'
      BY <1>1 DEF IInv, HeldInv
    <2> QED
      BY <2>1, <2>2
  <1>5. CancelInv'
    BY <1>1 DEF IInv, CancelInv
  <1>6. PendingInv' /\ AloneInv' /\ QuietTicksPublishOnce'
    BY <1>1 DEF IInv, PendingInv, AloneInv, QuietTicksPublishOnce
  <1> QED
    BY <1>2, <1>3, <1>4, <1>5, <1>6 DEF IInv

LEMMA StepInv == IInv /\ [Next]_vars => IInv'
  <1> SUFFICES ASSUME IInv, [Next]_vars PROVE IInv'
    OBVIOUS
  <1>1. CASE Request
    BY <1>1, CreateInv, EndCancelInv, CancelStepInv DEF Request
  <1>2. ASSUME NEW h \in Handler, Work(h) PROVE IInv'
    BY <1>2, LockRowInv, CommitDueInv, ReadPendingInv, PublishInv, ConfirmInv DEF Work
  <1>3. ASSUME NEW h \in Handler, TickDies(h) PROVE IInv'
    BY <1>3, TickDiesInv
  <1>4. ASSUME NEW h \in Handler, NEW t \in Instant, Tick(h, t) PROVE IInv'
    BY <1>4, TickInv
  <1> QED
    BY <1>1, <1>2, <1>3, <1>4, StutterInv DEF Next

LEMMA Inductive == Spec => []IInv
  BY InitInv, StepInv, PTL DEF Spec

\* Every state of the package has the types the module declares.
THEOREM RemindersTypeCorrect == Spec => []TypeOK
  <1>1. IInv => TypeOK
    BY DEF IInv
  <1> QED
    BY <1>1, Inductive, PTL

\* For any reminders, handlers and faults, a reminder is due exactly while its outbox row
\* waits for its marker, and emitted exactly when it has it.
THEOREM OutboxMatchesStateHolds == Spec => []OutboxMatchesState
  <1>1. IInv => OutboxMatchesState
    BY DEF IInv, RowInv, OutboxMatchesState
  <1> QED
    BY <1>1, Inductive, PTL

\* While no tick died or ran beside another one, a reminder is published once.
THEOREM QuietTicksPublishOnceHolds == Spec => []QuietTicksPublishOnce
  <1>1. IInv => QuietTicksPublishOnce
    BY DEF IInv
  <1> QED
    BY <1>1, Inductive, PTL

-------------------------------------------------------------------------------
(* The promise.  A commit of due rows is one evaluation, a publication sends the    *)
(* notice the outbox holds, and everything else is a request or nothing at all.     *)

\* What a step of the promise sees of a step of the package.
LEMMA Unseen ==
  ASSUME UNCHANGED <<state, remindAt, outbox, confirmed, stream>>
  PROVE  UNCHANGED Notice!vars
  BY DEF Notice!vars

\* A reminder is withdrawn when a step makes it cancelled, and stays so.
LEMMA WithdrawnKept ==
  ASSUME \A r \in Reminder : state'[r] = "cancelled" <=> state[r] = "cancelled"
  PROVE  {r \in Reminder : state'[r] = "cancelled"} = {r \in Reminder : state[r] = "cancelled"}
  OBVIOUS

LEMMA CreateAsks ==
  ASSUME IInv, NEW r \in Reminder, NEW t \in Instant, Create(r, t)
  PROVE  Notice!Next
  <1>1. /\ state[r] = "absent" /\ state' = [state EXCEPT ![r] = "scheduled"]
        /\ remindAt' = [remindAt EXCEPT ![r] = t] /\ UNCHANGED <<outbox, confirmed, stream>>
    BY DEF Create
  <1>2. \A s \in Reminder : state'[s] = "cancelled" <=> state[s] = "cancelled"
    BY <1>1 DEF IInv, TypeOK
  <1>3. remindAt[r] = NoInstant
    BY <1>1 DEF IInv, RowInv
  <1>4. Notice!Ask(r, t)
    BY <1>1, <1>2, <1>3, WithdrawnKept DEF Notice!Ask
  <1> QED
    BY <1>4 DEF Notice!Next

LEMMA EndCancelWithdraws ==
  ASSUME IInv, NEW c \in Canceller, EndCancel(c)
  PROVE  [Notice!Next]_Notice!vars
  <1>1. PICK r : r = target[c]
    OBVIOUS
  <1>2. /\ r # None /\ UNCHANGED <<remindAt, outbox, confirmed, stream>>
        /\ state' = [state EXCEPT ![r] = "cancelled"] \/ UNCHANGED state
    BY <1>1 DEF EndCancel
  <1>3. r \in Reminder /\ state[r] = "scheduled"
    BY <1>1, <1>2 DEF IInv, TypeOK, CancelInv
  <1>4. CASE state' = [state EXCEPT ![r] = "cancelled"]
    <2>1. remindAt[r] # NoInstant /\ outbox[r] = NoInstant
      BY <1>3, ScheduledFacts
    <2>2. {s \in Reminder : state'[s] = "cancelled"} = {s \in Reminder : state[s] = "cancelled"} \cup {r}
      BY <1>3, <1>4 DEF IInv, TypeOK
    <2>3. Notice!Withdraw(r)
      BY <1>2, <2>1, <2>2 DEF Notice!Withdraw
    <2> QED
      BY <1>3, <2>3 DEF Notice!Next
  <1>5. CASE UNCHANGED state
    BY <1>2, <1>5, Unseen
  <1> QED
    BY <1>2, <1>4, <1>5

LEMMA CommitComesDue ==
  ASSUME IInv, NEW h \in Handler, CommitDue(h)
  PROVE  Notice!Next
  <1>1. /\ state' = [r \in Reminder |-> IF r \in held[h] THEN "due" ELSE state[r]]
        /\ outbox' = [r \in Reminder |-> IF r \in held[h] /\ outbox[r] = NoInstant THEN at[h] ELSE outbox[r]]
        /\ UNCHANGED <<remindAt, confirmed, stream>>
    BY DEF CommitDue
  <1>2. held[h] \in SUBSET Reminder /\ at[h] \in Instant
    BY DEF IInv, TypeOK
  <1>3. \A r \in held[h] : /\ remindAt[r] # NoInstant /\ remindAt[r] <= at[h]
                           /\ outbox[r] = NoInstant /\ state[r] = "scheduled"
    BY <1>2, ScheduledFacts DEF IInv, HeldInv
  <1>4. outbox' = [r \in Reminder |-> IF r \in held[h] THEN at[h] ELSE outbox[r]]
    BY <1>1, <1>2, <1>3
  <1>5. \A s \in Reminder : state'[s] = "cancelled" <=> state[s] = "cancelled"
    BY <1>1, <1>3
  <1>6. Notice!ComeDue(held[h], at[h])
    BY <1>1, <1>3, <1>4, <1>5, WithdrawnKept DEF Notice!ComeDue
  <1> QED
    BY <1>2, <1>6 DEF Notice!Next

LEMMA PublishSends ==
  ASSUME IInv, NEW h \in Handler, Publish(h)
  PROVE  Notice!Next
  <1>1. PICK e \in pending[h] :
          stream' = [stream EXCEPT ![e[2]] = Append(@, e[1])] /\ UNCHANGED <<state, remindAt, outbox, confirmed>>
    BY DEF Publish, rows
  <1>2. e[2] \in Reminder /\ outbox[e[2]] = e[1] /\ outbox[e[2]] # NoInstant
    BY PendingFacts
  <1>3. Notice!Send(e[2])
    BY <1>1, <1>2 DEF Notice!Send
  <1> QED
    BY <1>2, <1>3 DEF Notice!Next

LEMMA ConfirmSettles ==
  ASSUME IInv, NEW h \in Handler, Confirm(h)
  PROVE  Notice!Next
  <1>1. PICK e \in pending[h] :
          /\ pc[h] = "confirm" /\ IsHead(e, pending[h]) /\ confirmed' = confirmed \cup {e[2]}
          /\ state' = [state EXCEPT ![e[2]] = IF @ = "due" THEN "emitted" ELSE @]
          /\ UNCHANGED <<remindAt, outbox, stream>>
    BY DEF Confirm
  <1>2. e[2] \in Reminder /\ stream[e[2]] # <<>>
    BY <1>1, PendingFacts DEF IInv, PendingInv
  <1>3. \A s \in Reminder : state'[s] = "cancelled" <=> state[s] = "cancelled"
    BY <1>1, <1>2 DEF IInv, TypeOK
  <1>4. Notice!Settle(e[2])
    BY <1>1, <1>2, <1>3, WithdrawnKept DEF Notice!Settle
  <1> QED
    BY <1>2, <1>4 DEF Notice!Next

LEMMA StepRefines == IInv /\ [Next]_vars => [Notice!Next]_Notice!vars
  <1> SUFFICES ASSUME IInv, [Next]_vars PROVE [Notice!Next]_Notice!vars
    OBVIOUS
  <1>1. ASSUME NEW r \in Reminder, NEW t \in Instant, Create(r, t) PROVE Notice!Next
    BY <1>1, CreateAsks
  <1>2. ASSUME NEW c \in Canceller, EndCancel(c) PROVE [Notice!Next]_Notice!vars
    BY <1>2, EndCancelWithdraws
  <1>3. ASSUME NEW c \in Canceller, NEW r \in Reminder, Cancel(c, r) PROVE UNCHANGED Notice!vars
    BY <1>3, Unseen DEF Cancel, rows
  <1>4. ASSUME NEW h \in Handler, CommitDue(h) PROVE Notice!Next
    BY <1>4, CommitComesDue
  <1>5. ASSUME NEW h \in Handler, Publish(h) PROVE Notice!Next
    BY <1>5, PublishSends
  <1>6. ASSUME NEW h \in Handler, Confirm(h) PROVE Notice!Next
    BY <1>6, ConfirmSettles
  <1>7. ASSUME NEW h \in Handler, LockRow(h) \/ ReadPending(h) \/ TickDies(h) PROVE UNCHANGED Notice!vars
    <2>1. UNCHANGED <<state, remindAt, outbox, confirmed, stream>>
      BY <1>7 DEF LockRow, ReadPending, TickDies, rows
    <2> QED
      BY <2>1, Unseen
  <1>8. ASSUME NEW h \in Handler, NEW t \in Instant, Tick(h, t) PROVE UNCHANGED Notice!vars
    BY <1>8, Unseen DEF Tick, rows
  <1>9. CASE UNCHANGED vars
    BY <1>9, Unseen DEF vars
  <1> QED
    BY <1>1, <1>2, <1>3, <1>4, <1>5, <1>6, <1>7, <1>8, <1>9 DEF Next, Request, Work

\* The package keeps the promise of one notice per reminder, for any reminders, handlers,
\* cancellers, instants and faults.
THEOREM NoticeRefinement == Spec => ImplementsNotice
  <1>1. Init => Notice!Init
    <2> SUFFICES ASSUME Init PROVE Notice!Init
      OBVIOUS
    <2>1. {r \in Reminder : state[r] = "cancelled"} = {}
      BY DEF Init
    <2> QED
      BY <2>1 DEF Init, Notice!Init
  <1> QED
    BY <1>1, StepRefines, Inductive, PTL DEF Spec, ImplementsNotice, Notice!Spec
===============================================================================
