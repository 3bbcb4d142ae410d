----------------------------- MODULE EventConsumer -----------------------------
(***************************************************************************)
(* A generated event adapter: the live and recovery readers of one         *)
(* consumer group hand stream entries to a controller under consume_once,  *)
(* whose marker row shares the effect's transaction, then publish the      *)
(* success or error event of the operation.  Publishers may append the     *)
(* same event more than once; Redis keeps an entry pending until it is     *)
(* acknowledged and the recovery reader may claim it at any time, also     *)
(* from a handler that is only slow.                                       *)
(***************************************************************************)
EXTENDS Naturals, Sequences, FiniteSets

CONSTANTS
    Event,       \* event ids
    Reader,      \* live and recovery readers of the group's replicas
    None,        \* no event, no holder
    MaxEntries,  \* bound: entries of the stream
    MaxFaults    \* bound: deliveries that fail or die on the way

ASSUME NoneAssumption == None \notin Event \cup Reader
ASSUME BoundsAssumption == MaxEntries \in Nat /\ MaxFaults \in Nat

VARIABLES
    stream,      \* the event id of each entry, oldest first
    entry,       \* how the group stands to each entry
    consumed,    \* committed rows of event_consumptions
    claiming,    \* the reader whose open transaction inserted the marker of an event
    effects,     \* committed effects of each event
    successes,   \* success events published for each event
    errors,      \* error events published for each event
    failed,      \* deliveries whose execution or commit failed, for each event
    pc,          \* where each reader stands
    hand,        \* the index of the entry it was handed, 0 for none
    processed,   \* whether consume_once ran the effect
    faults       \* deliveries that failed or died so far

db == <<consumed, claiming, effects>>
published == <<successes, errors, failed>>
vars == <<stream, entry, consumed, claiming, effects, successes, errors, failed, pc, hand, processed, faults>>

PC == {"idle", "marker", "effect", "commit", "success", "error", "ack"}

TypeOK ==
    /\ stream \in Seq(Event) /\ Len(stream) <= MaxEntries
    /\ entry \in [1..Len(stream) -> {"new", "pending", "acked"}]
    /\ consumed \subseteq Event
    /\ claiming \in [Event -> Reader \cup {None}]
    /\ effects \in [Event -> Nat] /\ successes \in [Event -> Nat]
    /\ errors \in [Event -> Nat] /\ failed \in [Event -> Nat]
    /\ pc \in [Reader -> PC]
    /\ hand \in [Reader -> 0..MaxEntries]
    /\ processed \in [Reader -> BOOLEAN]
    /\ faults \in 0..MaxFaults

Init ==
    /\ stream = <<>> /\ entry = <<>>
    /\ consumed = {}
    /\ claiming = [e \in Event |-> None]
    /\ effects = [e \in Event |-> 0]
    /\ successes = [e \in Event |-> 0]
    /\ errors = [e \in Event |-> 0]
    /\ failed = [e \in Event |-> 0]
    /\ pc = [d \in Reader |-> "idle"]
    /\ hand = [d \in Reader |-> 0]
    /\ processed = [d \in Reader |-> FALSE]
    /\ faults = 0

-------------------------------------------------------------------------------
Goto(d, label) == pc' = [pc EXCEPT ![d] = label]
Handled(d) == stream[hand[d]]

\* The end of a transaction that held the marker of an event.
Release(d) == claiming' = [e \in Event |-> IF claiming[e] = d THEN None ELSE claiming[e]]

Fault == faults < MaxFaults /\ faults' = faults + 1

\* The handler is gone: the entry stays pending unless it was acknowledged.
Idle(d) ==
    /\ Goto(d, "idle")
    /\ hand' = [hand EXCEPT ![d] = 0]
    /\ processed' = [processed EXCEPT ![d] = FALSE]

-------------------------------------------------------------------------------
(* The stream and its consumer group. *)

\* A publisher appends an event, or the same event again after a retry.
Append_(e) ==
    /\ Len(stream) < MaxEntries
    /\ stream' = Append(stream, e)
    /\ entry' = Append(entry, "new")
    /\ UNCHANGED <<db, published, pc, hand, processed, faults>>

HandOver(d, n) ==
    /\ pc[d] = "idle"
    /\ entry' = [entry EXCEPT ![n] = "pending"]
    /\ hand' = [hand EXCEPT ![d] = n]
    /\ Goto(d, "marker")
    /\ UNCHANGED <<stream, db, published, processed, faults>>

\* The live reader gets the first entry nobody was handed.
Deliver(d, n) ==
    /\ entry[n] = "new"
    /\ \A m \in 1..(n - 1) : entry[m] # "new"
    /\ HandOver(d, n)

\* XAUTOCLAIM: idle time is all it goes by, so its handler may still be at work.
Reclaim(d, n) == entry[n] = "pending" /\ HandOver(d, n)

-------------------------------------------------------------------------------
(* _process: consume_once, commit, success event. *)

\* Mutant: the marker is looked up instead of inserted under its key.
InsertMarkerUnlocked(d) ==
    /\ pc[d] = "marker"
    /\ IF Handled(d) \in consumed
       THEN Goto(d, "commit") /\ UNCHANGED <<claiming, processed>>
       ELSE /\ claiming' = [claiming EXCEPT ![Handled(d)] = d]
            /\ processed' = [processed EXCEPT ![d] = TRUE]
            /\ Goto(d, "effect")
    /\ UNCHANGED <<stream, entry, consumed, effects, published, hand, faults>>

\* The marker row is inserted under its primary key: the insert waits for another
\* open transaction's marker and finds a committed one a duplicate.
InsertMarker(d) ==
    /\ pc[d] = "marker"
    /\ claiming[Handled(d)] = None
    /\ IF Handled(d) \in consumed
       THEN Goto(d, "commit") /\ UNCHANGED <<claiming, processed>>
       ELSE /\ claiming' = [claiming EXCEPT ![Handled(d)] = d]
            /\ processed' = [processed EXCEPT ![d] = TRUE]
            /\ Goto(d, "effect")
    /\ UNCHANGED <<stream, entry, consumed, effects, published, hand, faults>>

\* The controller's work, in the same transaction.
RunEffect(d) ==
    /\ pc[d] = "effect"
    /\ Goto(d, "commit")
    /\ UNCHANGED <<stream, entry, db, published, hand, processed, faults>>

\* Marker and effect become durable together.
CommitBoth(d) ==
    /\ consumed' = IF processed[d] THEN consumed \cup {Handled(d)} ELSE consumed
    /\ effects' = IF processed[d] THEN [effects EXCEPT ![Handled(d)] = @ + 1] ELSE effects
    /\ Release(d)

Commit(d) ==
    /\ pc[d] = "commit"
    /\ CommitBoth(d)
    /\ Goto(d, IF processed[d] THEN "success" ELSE "ack")
    /\ UNCHANGED <<stream, entry, published, hand, processed, faults>>

PublishSuccess(d) ==
    /\ pc[d] = "success"
    /\ successes' = [successes EXCEPT ![Handled(d)] = @ + 1]
    /\ Goto(d, "ack")
    /\ UNCHANGED <<stream, entry, db, errors, failed, hand, processed, faults>>

\* The handler returned: FastStream acknowledges the entry.
Ack(d) ==
    /\ pc[d] = "ack"
    /\ entry' = [entry EXCEPT ![hand[d]] = "acked"]
    /\ Idle(d)
    /\ UNCHANGED <<stream, db, published, faults>>

-------------------------------------------------------------------------------
(* Failures. *)

\* The insert, the effect, the commit or the success publish raises.  The database
\* may have applied a commit, and Redis a publish, whose answer was lost.
Raise(d) ==
    /\ pc[d] \in {"marker", "effect", "commit", "success"} /\ Fault
    /\ \/ Release(d) /\ UNCHANGED <<consumed, effects>>
       \/ pc[d] = "commit" /\ CommitBoth(d)
    /\ \/ UNCHANGED successes
       \/ pc[d] = "success" /\ successes' = [successes EXCEPT ![Handled(d)] = @ + 1]
    /\ failed' = IF pc[d] = "success" THEN failed ELSE [failed EXCEPT ![Handled(d)] = @ + 1]
    /\ Goto(d, "error")
    /\ UNCHANGED <<stream, entry, errors, hand, processed>>

\* Mutant: a failed delivery is acknowledged.
PublishErrorAndAck(d) ==
    /\ pc[d] = "error"
    /\ errors' \in {errors, [errors EXCEPT ![Handled(d)] = @ + 1]}
    /\ entry' = [entry EXCEPT ![hand[d]] = "acked"]
    /\ Idle(d)
    /\ UNCHANGED <<stream, db, successes, failed, faults>>

\* After the rollback the error event goes out, if Redis takes it, and the exception
\* is raised again: no acknowledgement.
PublishError(d) ==
    /\ pc[d] = "error"
    /\ errors' \in {errors, [errors EXCEPT ![Handled(d)] = @ + 1]}
    /\ Idle(d)
    /\ UNCHANGED <<stream, entry, db, successes, failed, faults>>

\* Mutant: the transaction of a lost process stays open.
CrashKeepsMarker(d) ==
    /\ pc[d] # "idle" /\ Fault
    /\ Idle(d)
    /\ UNCHANGED <<stream, entry, db, published>>

\* The process is lost wherever it stands; its open transaction with it.
Crash(d) ==
    /\ pc[d] # "idle" /\ Fault
    /\ Release(d)
    /\ Idle(d)
    /\ UNCHANGED <<stream, entry, consumed, effects, published>>

-------------------------------------------------------------------------------
Work(d) ==
    \/ InsertMarker(d) \/ RunEffect(d) \/ Commit(d) \/ PublishSuccess(d) \/ PublishError(d) \/ Ack(d)

Next ==
    \/ \E e \in Event : Append_(e)
    \/ \E d \in Reader :
        \/ \E n \in 1..Len(stream) : Deliver(d, n) \/ Reclaim(d, n)
        \/ Work(d) \/ Raise(d) \/ Crash(d)

Spec == Init /\ [][Next]_vars

\* Both readers keep polling, a handler goes on, an insert that waits for another
\* marker gets its turn; failures end with MaxFaults.
FairSpec ==
    /\ Spec
    /\ \A n \in 1..MaxEntries :
        /\ SF_vars(n <= Len(stream) /\ \E d \in Reader : Deliver(d, n))
        /\ SF_vars(n <= Len(stream) /\ \E d \in Reader : Reclaim(d, n))
    /\ \A d \in Reader :
        /\ SF_vars(InsertMarker(d)) /\ WF_vars(RunEffect(d)) /\ WF_vars(Commit(d))
        /\ WF_vars(PublishSuccess(d)) /\ WF_vars(PublishError(d)) /\ WF_vars(Ack(d))

-------------------------------------------------------------------------------
(* Properties. *)

\* An event takes effect at most once, however many entries, readers, retries and
\* crashes; a committed marker always has its effect, and only a durable effect is
\* followed by its success event.
EffectOnce ==
    \A e \in Event : /\ effects[e] = IF e \in consumed THEN 1 ELSE 0
                     /\ successes[e] <= effects[e]

\* An entry leaves the pending list only after its event took effect.
AckedTookEffect == \A n \in 1..Len(stream) : entry[n] = "acked" => effects[stream[n]] = 1

\* Every entry is acknowledged in the end: a failed or abandoned delivery is taken up
\* again until its effect is committed.
EveryEntrySettles == \A n \in 1..MaxEntries : n <= Len(stream) ~> n <= Len(stream) /\ entry[n] = "acked"

\* What the declaration of an operation says: the error event is for an execution
\* that failed.
ErrorMeansFailure == \A e \in Event : errors[e] <= failed[e]
===============================================================================
