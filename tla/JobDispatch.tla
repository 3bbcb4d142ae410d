------------------------------ MODULE JobDispatch ------------------------------
(***************************************************************************)
(* Core jobs of a generated product: JobsController.fire and evidence over *)
(* the job_commands ledger in PostgreSQL (READ COMMITTED) and the          *)
(* job_fired stream in Redis.  Any number of callers fire the same         *)
(* identity at the same time, from one backend process or from several;    *)
(* each runs in a database session of its own.  A step is what happens     *)
(* between two awaits that reach the database or the broker.               *)
(***************************************************************************)
EXTENDS Naturals, Sequences, FiniteSets

CONSTANTS
    Command,       \* identities: (fired_by_product, command_id)
    Caller,        \* concurrent calls of the controller, one session each
    Payload,       \* name, arguments and run a caller can send
    Declared,      \* payloads whose name is declared and whose arguments conform
    None,          \* no caller, no payload, no command
    MaxCrashes,    \* bound: sessions lost or failed commits, per command
    MaxUncertain   \* bound: publishes that raise after Redis applied them, per command

ASSUME NoneAssumption == None \notin Command \cup Caller \cup Payload
ASSUME DeclaredAssumption == Declared \subseteq Payload
ASSUME BoundAssumption == MaxCrashes \in Nat /\ MaxUncertain \in Nat

VARIABLES
    recorded,    \* committed job_commands rows: the payload, None when there is no row
    dispatched,  \* committed rows whose dispatch_status is DISPATCHED
    inserting,   \* the session holding an uncommitted INSERT of the row
    rowLock,     \* the session holding the row's FOR UPDATE lock
    published,   \* job_fired events Redis holds of each command, oldest first
    pc,          \* where each call stands
    target,      \* the identity of each call
    request,     \* the payload of each call
    outcome,     \* what became of the call's own publish
    reply,       \* what the caller was told last
    crashes,     \* sessions lost or commits failed so far, per command
    uncertain    \* publishes applied by Redis but reported as failed, per command

ledger == <<recorded, dispatched>>
locks == <<inserting, rowLock>>
call == <<target, request>>
faults == <<crashes, uncertain>>
vars == <<recorded, dispatched, inserting, rowLock, published, pc, target,
          request, outcome, reply, crashes, uncertain>>

PC == {"idle", "get", "insert", "commit", "lock", "emit", "close"}
Outcome == {"none", "delivered", "lost", "uncertain"}
Reply == {"none", "dispatched", "undelivered", "missing", "rejected", "error"}

TypeOK ==
    /\ recorded \in [Command -> Payload \cup {None}]
    /\ dispatched \in SUBSET Command
    /\ inserting \in [Command -> Caller \cup {None}]
    /\ rowLock \in [Command -> Caller \cup {None}]
    /\ published \in [Command -> Seq(Payload)]
    /\ pc \in [Caller -> PC]
    /\ target \in [Caller -> Command \cup {None}]
    /\ request \in [Caller -> Payload \cup {None}]
    /\ outcome \in [Caller -> Outcome]
    /\ reply \in [Caller -> Reply]
    /\ crashes \in [Command -> Nat]
    /\ uncertain \in [Command -> Nat]

Init ==
    /\ recorded = [i \in Command |-> None]
    /\ dispatched = {}
    /\ inserting = [i \in Command |-> None]
    /\ rowLock = [i \in Command |-> None]
    /\ published = [i \in Command |-> <<>>]
    /\ pc = [c \in Caller |-> "idle"]
    /\ target = [c \in Caller |-> None]
    /\ request = [c \in Caller |-> None]
    /\ outcome = [c \in Caller |-> "none"]
    /\ reply = [c \in Caller |-> "none"]
    /\ crashes = [i \in Command |-> 0]
    /\ uncertain = [i \in Command |-> 0]

-------------------------------------------------------------------------------
(* Helpers. *)

Goto(c, label) == pc' = [pc EXCEPT ![c] = label]

\* The end of a session's transaction, however it ends: PostgreSQL drops the
\* uncommitted row and the row lock the session held.
EndTransaction(c) ==
    /\ inserting' = [i \in Command |-> IF inserting[i] = c THEN None ELSE inserting[i]]
    /\ rowLock' = [i \in Command |-> IF rowLock[i] = c THEN None ELSE rowLock[i]]

\* A commit makes the session's uncommitted INSERT and its UPDATE to DISPATCHED
\* visible together with the release of its locks.
Commit(c) ==
    /\ recorded' = [i \in Command |-> IF inserting[i] = c THEN request[c] ELSE recorded[i]]
    /\ dispatched' = IF outcome[c] = "delivered" THEN dispatched \cup {target[c]} ELSE dispatched
    /\ EndTransaction(c)

\* The evidence a session reads of a command: _to_contract's dispatch_status.
Status(i) ==
    IF recorded[i] = None THEN "missing"
    ELSE IF i \in dispatched THEN "dispatched" ELSE "undelivered"

Return(c, r) ==
    /\ Goto(c, "idle")
    /\ outcome' = [outcome EXCEPT ![c] = "none"]
    /\ reply' = [reply EXCEPT ![c] = r]

-------------------------------------------------------------------------------
(* JobsController.fire. *)

\* _validate_arguments refuses an undeclared name (404) or arguments (422).
Refuse(c, i, p) ==
    /\ pc[c] = "idle"
    /\ p \notin Declared
    /\ target' = [target EXCEPT ![c] = i]
    /\ request' = [request EXCEPT ![c] = p]
    /\ Return(c, "rejected")
    /\ UNCHANGED <<ledger, locks, published, faults>>

Fire(c, i, p) ==
    /\ pc[c] = "idle"
    /\ p \in Declared
    /\ target' = [target EXCEPT ![c] = i]
    /\ request' = [request EXCEPT ![c] = p]
    /\ reply' = [reply EXCEPT ![c] = "none"]
    /\ Goto(c, "get")
    /\ UNCHANGED <<ledger, locks, published, outcome, faults>>

\* Mutant: an existing row answers the call, so no retry re-attempts delivery.
GetAnswersReplay(c) ==
    /\ pc[c] = "get"
    /\ IF recorded[target[c]] = None
       THEN Goto(c, "insert") /\ UNCHANGED <<outcome, reply>>
       ELSE Return(c, Status(target[c]))
    /\ UNCHANGED <<ledger, locks, published, call, faults>>

\* JobCommandRepository.record looks for a committed row first.
Get(c) ==
    /\ pc[c] = "get"
    /\ Goto(c, IF recorded[target[c]] = None THEN "insert" ELSE "commit")
    /\ UNCHANGED <<ledger, locks, published, call, outcome, reply, faults>>

\* The flush inside begin_nested: the unique key makes it wait for a session that
\* inserted the same identity and has not ended.  Over a committed row it raises
\* IntegrityError, which rolls the savepoint back and re-reads the winner's row.
Insert(c) ==
    /\ pc[c] = "insert"
    /\ inserting[target[c]] = None
    /\ inserting' = IF recorded[target[c]] = None
                    THEN [inserting EXCEPT ![target[c]] = c] ELSE inserting
    /\ Goto(c, "commit")
    /\ UNCHANGED <<ledger, rowLock, published, call, outcome, reply, faults>>

CommitRecord(c) ==
    /\ pc[c] = "commit"
    /\ Commit(c)
    /\ Goto(c, "lock")
    /\ UNCHANGED <<published, call, outcome, reply, faults>>

\* Mutant: without populate_existing the waiter keeps the status it read earlier.
LockReadsStaleRow(c) ==
    /\ pc[c] = "lock"
    /\ rowLock[target[c]] = None
    /\ rowLock' = [rowLock EXCEPT ![target[c]] = c]
    /\ Goto(c, "emit")
    /\ UNCHANGED <<ledger, inserting, published, call, outcome, reply, faults>>

\* dispatch_lock_statement: SELECT ... FOR UPDATE waits for the holder, and
\* populate_existing makes the waiter read the row as it now stands.
Lock(c) ==
    /\ pc[c] = "lock"
    /\ rowLock[target[c]] = None
    /\ recorded[target[c]] # None
    /\ rowLock' = [rowLock EXCEPT ![target[c]] = c]
    /\ Goto(c, IF target[c] \in dispatched THEN "close" ELSE "emit")
    /\ UNCHANGED <<ledger, inserting, published, call, outcome, reply, faults>>

\* The event carries the locked row, not the caller's own payload.
Publish(i) == published' = [published EXCEPT ![i] = Append(@, recorded[i])]

\* Mutant: the lock is released before the evidence is committed.
EmitThenUnlock(c) ==
    /\ pc[c] = "emit"
    /\ Publish(target[c])
    /\ outcome' = [outcome EXCEPT ![c] = "delivered"]
    /\ EndTransaction(c)
    /\ Goto(c, "close")
    /\ UNCHANGED <<ledger, call, reply, faults>>

EmitDelivered(c) ==
    /\ pc[c] = "emit"
    /\ Publish(target[c])
    /\ outcome' = [outcome EXCEPT ![c] = "delivered"]
    /\ Goto(c, "close")
    /\ UNCHANGED <<ledger, locks, call, reply, faults>>

\* _emit turns every exception of the publish into False.
EmitLost(c) ==
    /\ pc[c] = "emit"
    /\ outcome' = [outcome EXCEPT ![c] = "lost"]
    /\ Goto(c, "close")
    /\ UNCHANGED <<ledger, locks, published, call, reply, faults>>

\* Redis appended the event and its answer never arrived: also False.
EmitUncertain(c) ==
    /\ pc[c] = "emit"
    /\ uncertain[target[c]] < MaxUncertain
    /\ uncertain' = [uncertain EXCEPT ![target[c]] = @ + 1]
    /\ Publish(target[c])
    /\ outcome' = [outcome EXCEPT ![c] = "uncertain"]
    /\ Goto(c, "close")
    /\ UNCHANGED <<ledger, locks, call, reply, crashes>>

Emit(c) == EmitDelivered(c) \/ EmitLost(c) \/ EmitUncertain(c)

\* mark_dispatched after a delivered event, the evidence taken from the row in the
\* session, and the commit that ends the transaction.
Close(c) ==
    /\ pc[c] = "close"
    /\ Commit(c)
    /\ Return(c, IF outcome[c] = "delivered" \/ target[c] \in dispatched
                 THEN "dispatched" ELSE "undelivered")
    /\ UNCHANGED <<published, call, faults>>

-------------------------------------------------------------------------------
(* Failures and reads. *)

CountCrash(c) ==
    /\ crashes[target[c]] < MaxCrashes
    /\ crashes' = [crashes EXCEPT ![target[c]] = @ + 1]

\* Mutant: the evidence is returned without waiting for the commit.
CommitFailsUnnoticed(c) ==
    /\ pc[c] = "close"
    /\ CountCrash(c)
    /\ EndTransaction(c) /\ UNCHANGED ledger
    /\ Return(c, IF outcome[c] = "delivered" THEN "dispatched" ELSE "undelivered")
    /\ UNCHANGED <<published, call, uncertain>>

\* A commit raises: the server may or may not have applied it.
CommitFails(c) ==
    /\ pc[c] \in {"commit", "close"}
    /\ CountCrash(c)
    /\ \/ Commit(c)
       \/ EndTransaction(c) /\ UNCHANGED ledger
    /\ Return(c, "error")
    /\ UNCHANGED <<published, call, uncertain>>

\* The process dies, the connection drops or the request is cancelled: the server
\* rolls the session back and the caller learns nothing.
Abort(c) ==
    /\ pc[c] # "idle"
    /\ CountCrash(c)
    /\ EndTransaction(c)
    /\ Return(c, "none")
    /\ UNCHANGED <<ledger, published, call, uncertain>>

\* JobsController.evidence.
Evidence(c, i) ==
    /\ pc[c] = "idle"
    /\ target' = [target EXCEPT ![c] = i]
    /\ request' = [request EXCEPT ![c] = None]
    /\ Return(c, Status(i))
    /\ UNCHANGED <<ledger, locks, published, faults>>

-------------------------------------------------------------------------------
Step(c) == Get(c) \/ Insert(c) \/ CommitRecord(c) \/ Lock(c) \/ Emit(c) \/ Close(c)

Next ==
    \E c \in Caller :
        \/ \E i \in Command, p \in Payload : Refuse(c, i, p) \/ Fire(c, i, p)
        \/ \E i \in Command : Evidence(c, i)
        \/ Step(c)
        \/ CommitFails(c)
        \/ Abort(c)

Spec == Init /\ [][Next]_vars

\* The event loop keeps running a call it accepted, and PostgreSQL grants a lock
\* its waiters queue for in order, so a waiter that could often enough proceed does.
StepFairness ==
    \A c \in Caller :
        /\ WF_vars(Get(c)) /\ WF_vars(CommitRecord(c))
        /\ WF_vars(Emit(c)) /\ WF_vars(Close(c))
        /\ SF_vars(Insert(c)) /\ SF_vars(Lock(c))

FairSpec == Spec /\ StepFairness

\* A caller that keeps retrying each identity, over a broker that does not fail for
\* ever: what the contract's "a later retry completes" supposes.
RetryFairness ==
    /\ \A i \in Command : SF_vars(\E c \in Caller, p \in Payload : Fire(c, i, p))
    /\ \A c \in Caller : SF_vars(EmitDelivered(c))

-------------------------------------------------------------------------------
(* Safety. *)

InEmission(c) == pc[c] \in {"emit", "close"}

\* However callers interleave, two of them are never inside the emission of one
\* identity at once: the row lock is what _emit_once relies on.
OneEmitter ==
    \A c, d \in Caller : c # d /\ InEmission(c) /\ InEmission(d) => target[c] # target[d]

\* A job_fired exists only for a committed row, and every event of an identity
\* carries the payload that row was recorded with, whatever later callers sent.
RecordedBeforeEmitted ==
    \A i \in Command : \A k \in DOMAIN published[i] : published[i][k] = recorded[i]

\* A command marked dispatched always had its job_fired published.
DispatchedWasEmitted == \A i \in dispatched : published[i] # <<>>

\* One identity is emitted once, plus at most once more for each session lost or
\* commit failed and for each publish whose answer was lost; never because of how
\* many callers fired it or how they interleaved.
BoundedEmissions == \A i \in Command : Len(published[i]) <= 1 + crashes[i] + uncertain[i]

\* A caller told "dispatched", by fire or by evidence, was told of a committed
\* terminal row, and one told "undelivered" of a committed row.
EvidenceTruthful ==
    \A c \in Caller :
        /\ reply[c] = "dispatched" => target[c] \in dispatched
        /\ reply[c] = "undelivered" => recorded[target[c]] # None

\* Dispatch is terminal: no later fire emits the identity again or reopens it.
TerminalDispatch ==
    [][\A i \in dispatched : i \in dispatched' /\ published'[i] = published[i]]_vars

\* A replay never changes the recorded command, and nothing deletes it.
RowImmutable ==
    [][\A i \in Command : recorded[i] # None => recorded'[i] = recorded[i]]_vars

-------------------------------------------------------------------------------
(* Liveness. *)

\* A failure between the two commits leaves a recorded command a retry completes.
RetryCompletes ==
    RetryFairness => \A i \in Command : recorded[i] # None ~> i \in dispatched

-------------------------------------------------------------------------------
(* Refinement: an emission is open while the session that made it still holds the *)
(* row's lock.                                                                    *)

OpenEmissions ==
    {i \in Command : rowLock[i] # None /\ outcome[rowLock[i]] \in {"delivered", "uncertain"}}

Ledger == INSTANCE OnceLedger WITH
    NoPayload <- None, accepted <- recorded, emissions <- published,
    open <- OpenEmissions, final <- dispatched

\* The controller implements the promise of the core jobs contract.
ImplementsLedger == Ledger!Spec
===============================================================================
