------------------------------- MODULE Reminders -------------------------------
(***************************************************************************)
(* The reminders package: the HTTP routes that create and cancel one-time  *)
(* reminders, and the tick, handled by the live and recovery readers of    *)
(* every backend process, that turns due reminders into outbox rows and    *)
(* publishes them.  A tick works in three kinds of transaction: one that   *)
(* locks the due rows in order and commits due state and outbox, one that  *)
(* reads the outbox, and one per publication that confirms it.             *)
(***************************************************************************)
EXTENDS Integers, Sequences, FiniteSets

CONSTANTS
    Reminder,    \* reminder ids, 1..n in the order the queries sort them
    Handler,     \* readers that can each have one tick in progress
    Canceller,   \* DELETE requests that can be in progress
    None,        \* no holder of a row lock
    MaxInstant,  \* bound: the last instant
    MaxFaults    \* bound: ticks that die or raise on the way

Instant == 0..MaxInstant
NoInstant == -1

ASSUME ReminderAssumption == Reminder \subseteq Nat /\ IsFiniteSet(Reminder)
ASSUME BoundsAssumption == MaxInstant \in Nat /\ MaxFaults \in Nat
ASSUME HolderAssumption == None \notin Handler \cup Canceller /\ Handler \cap Canceller = {}

VARIABLES
    state,       \* reminders.state, "absent" before the row exists
    remindAt,    \* reminders.remind_at
    outbox,      \* due_emissions.occurred_at, NoInstant where there is no row
    confirmed,   \* rows of due_emissions with emitted_at set
    stream,      \* reminders.due entries of each reminder: their occurred_at
    lock,        \* holder of each reminder's row lock
    pc,          \* where each handler stands in its tick
    at,          \* the at argument of the tick
    todo,        \* rows its statement selected and has not locked yet
    held,        \* rows it locked
    pending,     \* outbox rows read and not confirmed yet: <<occurred_at, id>>
    target,      \* the reminder a canceller is cancelling
    faults,      \* ticks that died or raised so far
    disturbed    \* a tick died, raised, or ran beside another one

rows == <<state, remindAt, outbox, confirmed>>
tick == <<pc, at, todo, held, pending>>
marks == <<faults, disturbed>>
vars == <<state, remindAt, outbox, confirmed, stream, lock, pc, at, todo, held, pending,
          target, faults, disturbed>>

State == {"absent", "scheduled", "cancelled", "due", "emitted"}
PC == {"idle", "lock", "read", "publish", "confirm"}

TypeOK ==
    /\ state \in [Reminder -> State]
    /\ remindAt \in [Reminder -> Instant \cup {NoInstant}]
    /\ outbox \in [Reminder -> Instant \cup {NoInstant}]
    /\ confirmed \subseteq Reminder
    /\ stream \in [Reminder -> Seq(Instant)]
    /\ lock \in [Reminder -> Handler \cup Canceller \cup {None}]
    /\ pc \in [Handler -> PC]
    /\ at \in [Handler -> Instant]
    /\ todo \in [Handler -> SUBSET Reminder]
    /\ held \in [Handler -> SUBSET Reminder]
    /\ pending \in [Handler -> SUBSET (Instant \X Reminder)]
    /\ target \in [Canceller -> Reminder \cup {None}]
    /\ faults \in 0..MaxFaults
    /\ disturbed \in BOOLEAN

Init ==
    /\ state = [r \in Reminder |-> "absent"]
    /\ remindAt = [r \in Reminder |-> NoInstant]
    /\ outbox = [r \in Reminder |-> NoInstant]
    /\ confirmed = {}
    /\ stream = [r \in Reminder |-> <<>>]
    /\ lock = [r \in Reminder |-> None]
    /\ pc = [h \in Handler |-> "idle"]
    /\ at = [h \in Handler |-> 0]
    /\ todo = [h \in Handler |-> {}]
    /\ held = [h \in Handler |-> {}]
    /\ pending = [h \in Handler |-> {}]
    /\ target = [c \in Canceller |-> None]
    /\ faults = 0
    /\ disturbed = FALSE

-------------------------------------------------------------------------------
(* The routes. *)

\* POST: one committed insert; the first-deploy seed is such a row as well.
Create(r, t) ==
    /\ state[r] = "absent"
    /\ state' = [state EXCEPT ![r] = "scheduled"]
    /\ remindAt' = [remindAt EXCEPT ![r] = t]
    /\ UNCHANGED <<outbox, confirmed, stream, lock, tick, target, marks>>

\* DELETE: the UPDATE waits for the row lock and then asks for the state again; it
\* changes nothing, and answers 404 or 409, when the row is not scheduled any more.
Cancel(c, r) ==
    /\ target[c] = None /\ lock[r] = None
    /\ state[r] = "scheduled"
    /\ lock' = [lock EXCEPT ![r] = c]
    /\ target' = [target EXCEPT ![c] = r]
    /\ UNCHANGED <<rows, stream, tick, marks>>

\* The session ends: the cancellation commits and answers 200, or is rolled back.
EndCancel(c) ==
    /\ target[c] # None
    /\ \/ state' = [state EXCEPT ![target[c]] = "cancelled"]
       \/ UNCHANGED state
    /\ lock' = [lock EXCEPT ![target[c]] = None]
    /\ target' = [target EXCEPT ![c] = None]
    /\ UNCHANGED <<remindAt, outbox, confirmed, stream, tick, marks>>

-------------------------------------------------------------------------------
(* The tick: transition_due, then emit_pending. *)

Goto(h, label) == pc' = [pc EXCEPT ![h] = label]

\* The least of a set of rows under the ORDER BY (key, id).
IsFirst(r, S, key) ==
    /\ r \in S
    /\ \A s \in S : key[r] < key[s] \/ (key[r] = key[s] /\ r <= s)

\* handle_job_fired for reminders.tick: the first statement selects what it sees due.
Tick(h, t) ==
    /\ pc[h] = "idle"
    /\ at' = [at EXCEPT ![h] = t]
    /\ todo' = [todo EXCEPT ![h] = {r \in Reminder : state[r] = "scheduled" /\ remindAt[r] <= t}]
    /\ Goto(h, "lock")
    /\ disturbed' = (disturbed \/ \E g \in Handler : pc[g] # "idle")
    /\ UNCHANGED <<rows, stream, lock, held, pending, target, faults>>

\* Mutant: the condition is not evaluated again once the lock is there.
LockRowUnseen(h) ==
    /\ pc[h] = "lock"
    /\ \E r \in todo[h] :
        /\ IsFirst(r, todo[h], remindAt)
        /\ lock[r] = None
        /\ todo' = [todo EXCEPT ![h] = @ \ {r}]
        /\ lock' = [lock EXCEPT ![r] = h]
        /\ held' = [held EXCEPT ![h] = @ \cup {r}]
    /\ UNCHANGED <<rows, stream, pc, at, pending, target, marks>>

\* FOR UPDATE: the rows are locked in order; one that is no longer scheduled when its
\* lock is free drops out.
LockRow(h) ==
    /\ pc[h] = "lock"
    /\ \E r \in todo[h] :
        /\ IsFirst(r, todo[h], remindAt)
        /\ lock[r] = None
        /\ todo' = [todo EXCEPT ![h] = @ \ {r}]
        /\ IF state[r] = "scheduled"
           THEN lock' = [lock EXCEPT ![r] = h] /\ held' = [held EXCEPT ![h] = @ \cup {r}]
           ELSE UNCHANGED <<lock, held>>
    /\ UNCHANGED <<rows, stream, pc, at, pending, target, marks>>

Unlock(h) == lock' = [r \in Reminder |-> IF lock[r] = h THEN None ELSE lock[r]]

\* Mutant: the due state commits without the outbox rows.
CommitDueOnly(h) ==
    /\ pc[h] = "lock" /\ todo[h] = {}
    /\ state' = [r \in Reminder |-> IF r \in held[h] THEN "due" ELSE state[r]]
    /\ Unlock(h)
    /\ held' = [held EXCEPT ![h] = {}]
    /\ Goto(h, "read")
    /\ UNCHANGED <<remindAt, outbox, confirmed, stream, at, todo, pending, target, marks>>

\* Due state and outbox rows commit together, before anything is published.
CommitDue(h) ==
    /\ pc[h] = "lock" /\ todo[h] = {}
    /\ state' = [r \in Reminder |-> IF r \in held[h] THEN "due" ELSE state[r]]
    /\ outbox' = [r \in Reminder |->
                    IF r \in held[h] /\ outbox[r] = NoInstant THEN at[h] ELSE outbox[r]]
    /\ Unlock(h)
    /\ held' = [held EXCEPT ![h] = {}]
    /\ Goto(h, "read")
    /\ UNCHANGED <<remindAt, confirmed, stream, at, todo, pending, target, marks>>

\* Mutant: a tick publishes only what it brought due itself.
ReadPendingOfTick(h) ==
    /\ pc[h] = "read"
    /\ LET P == {<<outbox[r], r>> : r \in {s \in Reminder : outbox[s] = at[h] /\ s \notin confirmed}} IN
        /\ pending' = [pending EXCEPT ![h] = P]
        /\ Goto(h, IF P = {} THEN "idle" ELSE "publish")
    /\ UNCHANGED <<rows, stream, lock, at, todo, held, target, marks>>

\* read_pending: every unconfirmed outbox row, whichever tick inserted it.
ReadPending(h) ==
    /\ pc[h] = "read"
    /\ LET P == {<<outbox[r], r>> :
                    r \in {s \in Reminder : outbox[s] # NoInstant /\ s \notin confirmed}} IN
        /\ pending' = [pending EXCEPT ![h] = P]
        /\ Goto(h, IF P = {} THEN "idle" ELSE "publish")
    /\ UNCHANGED <<rows, stream, lock, at, todo, held, target, marks>>

\* The row emit_pending is at: rows go out in the order of occurred_at and id.
IsHead(e, P) == e \in P /\ \A f \in P : e[1] < f[1] \/ (e[1] = f[1] /\ e[2] <= f[2])

Publish(h) ==
    /\ pc[h] = "publish"
    /\ \E e \in pending[h] :
        IsHead(e, pending[h]) /\ stream' = [stream EXCEPT ![e[2]] = Append(@, e[1])]
    /\ Goto(h, "confirm")
    /\ UNCHANGED <<rows, lock, at, todo, held, pending, target, marks>>

\* Mutant: the reminder is emitted and its outbox row is not marked.
ConfirmStateOnly(h) ==
    /\ pc[h] = "confirm"
    /\ \E e \in pending[h] :
        /\ IsHead(e, pending[h])
        /\ state' = [state EXCEPT ![e[2]] = IF @ = "due" THEN "emitted" ELSE @]
        /\ pending' = [pending EXCEPT ![h] = @ \ {e}]
    /\ Goto(h, IF Cardinality(pending[h]) = 1 THEN "idle" ELSE "publish")
    /\ UNCHANGED <<remindAt, outbox, confirmed, stream, lock, at, todo, held, target, marks>>

\* confirm_emission: the outbox row and the reminder in one short transaction.
Confirm(h) ==
    /\ pc[h] = "confirm"
    /\ \E e \in pending[h] :
        /\ IsHead(e, pending[h])
        /\ confirmed' = confirmed \cup {e[2]}
        /\ state' = [state EXCEPT ![e[2]] = IF @ = "due" THEN "emitted" ELSE @]
        /\ pending' = [pending EXCEPT ![h] = @ \ {e}]
    /\ Goto(h, IF Cardinality(pending[h]) = 1 THEN "idle" ELSE "publish")
    /\ UNCHANGED <<remindAt, outbox, stream, lock, at, todo, held, target, marks>>

\* The process dies, a statement or a commit fails, or a publish raises: at
\* "publish" before Redis took the event, at "confirm" after it did.
TickDies(h) ==
    /\ pc[h] # "idle" /\ faults < MaxFaults
    /\ faults' = faults + 1 /\ disturbed' = TRUE
    /\ Unlock(h)
    /\ Goto(h, "idle")
    /\ todo' = [todo EXCEPT ![h] = {}]
    /\ held' = [held EXCEPT ![h] = {}]
    /\ pending' = [pending EXCEPT ![h] = {}]
    /\ UNCHANGED <<rows, stream, at, target>>

-------------------------------------------------------------------------------
Request ==
    \/ \E r \in Reminder, t \in Instant : Create(r, t)
    \/ \E c \in Canceller : EndCancel(c) \/ \E r \in Reminder : Cancel(c, r)

Work(h) == LockRow(h) \/ CommitDue(h) \/ ReadPending(h) \/ Publish(h) \/ Confirm(h)

Next ==
    \/ Request
    \/ \E h \in Handler : Work(h) \/ TickDies(h) \/ \E t \in Instant : Tick(h, t)

Spec == Init /\ [][Next]_vars

\* The core timer keeps firing ticks and later ones cover the earlier; a transaction
\* that waits for a row lock gets it; requests end; ticks die only MaxFaults times.
FairSpec ==
    /\ Spec
    /\ \A c \in Canceller : WF_vars(EndCancel(c))
    /\ \A h \in Handler :
        /\ SF_vars(Tick(h, MaxInstant)) /\ SF_vars(LockRow(h))
        /\ WF_vars(CommitDue(h)) /\ WF_vars(ReadPending(h))
        /\ WF_vars(Publish(h)) /\ WF_vars(Confirm(h))

-------------------------------------------------------------------------------
(* Properties. *)

\* Row, outbox and marker move together: a reminder is due exactly while its outbox
\* row waits for its marker and emitted exactly when it has it, so neither a crash nor
\* a cancel leaves a due reminder nobody will publish.
OutboxMatchesState ==
    \A r \in Reminder :
        /\ state[r] = "due" <=> outbox[r] # NoInstant /\ r \notin confirmed
        /\ state[r] = "emitted" <=> r \in confirmed
        /\ r \in confirmed => stream[r] # <<>>

\* While no tick died or ran beside another one, a reminder is published once.
QuietTicksPublishOnce == ~disturbed => \A r \in Reminder : Len(stream[r]) <= 1

Notice == INSTANCE OneNotice WITH wanted <- remindAt, notice <- outbox, sent <- stream,
                                  settled <- confirmed,
                                  withdrawn <- {r \in Reminder : state[r] = "cancelled"}

\* The rows, locks and transactions keep the promise of one notice per reminder.
ImplementsNotice == Notice!Spec

\* Every reminder is cancelled by its owner or published in the end.
EveryReminderSettles ==
    \A r \in Reminder : state[r] = "scheduled" ~> state[r] \in {"cancelled", "emitted"}
===============================================================================
