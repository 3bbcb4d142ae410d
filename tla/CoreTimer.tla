------------------------------- MODULE CoreTimer -------------------------------
(***************************************************************************)
(* The core timer loop: every backend process runs one loop that fires     *)
(* each declared timer once per slot of its grid, through the jobs core.   *)
(* The jobs core is the promise OnceLedger states (JobDispatch implements  *)
(* it); here its steps are taken by the loops.  An identity is a job and a *)
(* slot, so a restarted loop and a second backend meet in one row.  Time   *)
(* is counted in the grain of the grids; a slot is the instant it begins.  *)
(***************************************************************************)
EXTENDS Integers, Sequences, FiniteSets

CONSTANTS
    Backend,      \* backend processes that share the database and APP_NAME
    Job,          \* normalized names of timer jobs
    Timers,       \* JOB_TIMERS in the loop's order: sequence of [job, every]
    NoId,         \* no fire in progress
    MaxTime,      \* bound: the last instant of the monotonic clock
    MaxBehind,    \* bound: how far a process's wall clock can be set back
    MaxLost       \* bound: emissions per identity whose evidence is lost

Slot == 0..MaxTime
NoSlot == -1   \* a job the loop has not attempted since it started
Identity == Job \X Slot

ASSUME TimersAssumption ==
    /\ Timers \in Seq([job : Job, every : Nat \ {0}])
    /\ Timers # <<>>
    /\ \A m, n \in DOMAIN Timers : Timers[m].job = Timers[n].job => m = n
ASSUME BoundsAssumption == MaxTime \in Nat /\ MaxBehind \in Nat /\ MaxLost \in Nat
ASSUME MarksAssumption == NoId \notin Identity

VARIABLES
    mono,        \* the monotonic clock asyncio.sleep follows
    behind,      \* how far each process's wall clock is behind it
    pc,          \* where each loop stands
    attempted,   \* TimerLoop._attempted
    reading,     \* the wall clock fire_due read once
    todo,        \* index of the timer fire_due considers next
    current,     \* the identity a loop is firing
    wake,        \* when the loop's sleep ends
    begun,       \* identities the loop began to fire since it started
    accepted, emissions, open, final,   \* the jobs core, as OnceLedger keeps it
    lost         \* emissions whose evidence was lost, per identity

clock == <<mono, behind>>
ledger == <<accepted, emissions, open, final>>
vars == <<mono, behind, pc, attempted, reading, todo, current, wake, begun,
          accepted, emissions, open, final, lost>>

Ledger == INSTANCE OnceLedger WITH Command <- Identity, Payload <- Slot, NoPayload <- NoSlot

PC == {"down", "due", "scan", "record", "dispatch", "confirm", "sleep"}

TypeOK ==
    /\ mono \in Slot
    /\ behind \in [Backend -> 0..MaxBehind]
    /\ pc \in [Backend -> PC]
    /\ attempted \in [Backend -> [Job -> Slot \cup {NoSlot}]]
    /\ reading \in [Backend -> Slot]
    /\ todo \in [Backend -> 1..Len(Timers) + 1]
    /\ current \in [Backend -> Identity \cup {NoId}]
    /\ wake \in [Backend -> Nat]
    /\ begun \in [Backend -> SUBSET Identity]
    /\ Ledger!TypeOK
    /\ lost \in [Identity -> 0..MaxLost]

Init ==
    /\ mono = 0
    /\ behind = [b \in Backend |-> 0]
    /\ pc = [b \in Backend |-> "down"]
    /\ attempted = [b \in Backend |-> [j \in Job |-> NoSlot]]
    /\ reading = [b \in Backend |-> 0]
    /\ todo = [b \in Backend |-> 1]
    /\ current = [b \in Backend |-> NoId]
    /\ wake = [b \in Backend |-> 0]
    /\ begun = [b \in Backend |-> {}]
    /\ Ledger!Init
    /\ lost = [i \in Identity |-> 0]

-------------------------------------------------------------------------------
(* Helpers. *)

Wall(b) == mono - behind[b]

\* slot_instant: the start of the slot that contains an instant.
SlotOf(instant, every) == instant - (instant % every)

Goto(b, label) == pc' = [pc EXCEPT ![b] = label]

\* The seconds from the reading to the earliest next slot, over every timer.
Waits(b) == {SlotOf(reading[b], Timers[n].every) + Timers[n].every - reading[b] : n \in DOMAIN Timers}
IsShortest(w, b) == w \in Waits(b) /\ \A v \in Waits(b) : w <= v

\* _fire_slot returned, whatever it logged: fire_due goes on with the next timer.
NextTimer(b) ==
    /\ Goto(b, "scan")
    /\ todo' = [todo EXCEPT ![b] = @ + 1]
    /\ current' = [current EXCEPT ![b] = NoId]

\* The transaction that held an emission ends without its evidence.
LoseEvidence(i) ==
    /\ lost[i] < MaxLost
    /\ lost' = [lost EXCEPT ![i] = @ + 1]
    /\ Ledger!Forget(i)

-------------------------------------------------------------------------------
(* The loop: start, fire_due, sleep. *)

\* start_timer_loop: a new TimerLoop remembers no attempt.
Start(b) ==
    /\ pc[b] = "down"
    /\ Goto(b, "due")
    /\ UNCHANGED <<clock, attempted, reading, todo, current, wake, begun, ledger, lost>>

\* fire_due reads the clock once for every timer.
ReadClock(b) ==
    /\ pc[b] = "due"
    /\ reading' = [reading EXCEPT ![b] = Wall(b)]
    /\ todo' = [todo EXCEPT ![b] = 1]
    /\ Goto(b, "scan")
    /\ UNCHANGED <<clock, attempted, current, wake, begun, ledger, lost>>

Timer(b) == Timers[todo[b]]
DueSlot(b) == SlotOf(reading[b], Timer(b).every)

\* Mutant: the slot attempted last counts as due.
UnattemptedOrLast(b) == DueSlot(b) >= attempted[b][Timer(b).job]

Unattempted(b) == DueSlot(b) > attempted[b][Timer(b).job]

SkipAttempted(b) ==
    /\ pc[b] = "scan" /\ todo[b] <= Len(Timers)
    /\ ~Unattempted(b)
    /\ todo' = [todo EXCEPT ![b] = @ + 1]
    /\ UNCHANGED <<clock, pc, attempted, reading, current, wake, begun, ledger, lost>>

\* The attempt is remembered before the fire is awaited.
BeginFire(b) ==
    /\ pc[b] = "scan" /\ todo[b] <= Len(Timers)
    /\ Unattempted(b)
    /\ attempted' = [attempted EXCEPT ![b][Timer(b).job] = DueSlot(b)]
    /\ current' = [current EXCEPT ![b] = <<Timer(b).job, DueSlot(b)>>]
    /\ begun' = [begun EXCEPT ![b] = @ \cup {<<Timer(b).job, DueSlot(b)>>}]
    /\ Goto(b, "record")
    /\ UNCHANGED <<clock, reading, todo, wake, ledger, lost>>

\* run sleeps for what fire_due returned, counted from the end of the fires.
Sleep(b) ==
    /\ pc[b] = "scan" /\ todo[b] > Len(Timers)
    /\ \E w \in Waits(b) : IsShortest(w, b) /\ wake' = [wake EXCEPT ![b] = mono + w]
    /\ Goto(b, "sleep")
    /\ UNCHANGED <<clock, attempted, reading, todo, current, begun, ledger, lost>>

Wake(b) ==
    /\ pc[b] = "sleep" /\ mono >= wake[b]
    /\ wake' = [wake EXCEPT ![b] = 0]
    /\ Goto(b, "due")
    /\ UNCHANGED <<clock, attempted, reading, todo, current, begun, ledger, lost>>

-------------------------------------------------------------------------------
(* One fire, through JobsController.fire in a session of its own. *)

\* timer_fire: the command of the slot, with the slot as its only argument.
Record(b) ==
    /\ pc[b] = "record"
    /\ IF accepted[current[b]] = NoSlot
       THEN Ledger!Accept(current[b], current[b][2]) ELSE UNCHANGED ledger
    /\ Goto(b, "dispatch")
    /\ UNCHANGED <<clock, attempted, reading, todo, current, wake, begun, lost>>

\* The fire raises before anything left: core_timer_fire_failed is logged.
FireFails(b) ==
    /\ pc[b] \in {"record", "dispatch"}
    /\ NextTimer(b)
    /\ UNCHANGED <<clock, attempted, reading, wake, begun, ledger, lost>>

\* Mutant: the dispatch of a slot another process already finished emits again.
DispatchAgain(b) ==
    /\ pc[b] = "dispatch" /\ current[b] \notin open
    /\ emissions' = [emissions EXCEPT ![current[b]] = Append(@, accepted[current[b]])]
    /\ open' = open \cup {current[b]}
    /\ Goto(b, "confirm")
    /\ UNCHANGED <<clock, attempted, reading, todo, current, wake, begun, accepted, final, lost>>

\* The row lock makes a second process wait while the emission is open.
Dispatch(b) ==
    /\ pc[b] = "dispatch" /\ current[b] \notin open \cup final
    /\ Ledger!Emit(current[b])
    /\ Goto(b, "confirm")
    /\ UNCHANGED <<clock, attempted, reading, todo, current, wake, begun, lost>>

\* The slot was dispatched by an earlier life or by another backend.
FindDispatched(b) ==
    /\ pc[b] = "dispatch" /\ current[b] \in final
    /\ NextTimer(b)
    /\ UNCHANGED <<clock, attempted, reading, wake, begun, ledger, lost>>

Confirm(b) ==
    /\ pc[b] = "confirm"
    /\ Ledger!Confirm(current[b])
    /\ NextTimer(b)
    /\ UNCHANGED <<clock, attempted, reading, wake, begun, lost>>

\* The emission happened and its evidence is lost: an exception after the publish.
ConfirmFails(b) ==
    /\ pc[b] = "confirm"
    /\ LoseEvidence(current[b])
    /\ NextTimer(b)
    /\ UNCHANGED <<clock, attempted, reading, wake, begun>>

\* What the loop knew dies with its task.
ForgetLoop(b) ==
    /\ Goto(b, "down")
    /\ attempted' = [attempted EXCEPT ![b] = [j \in Job |-> NoSlot]]
    /\ reading' = [reading EXCEPT ![b] = 0]
    /\ todo' = [todo EXCEPT ![b] = 1]
    /\ current' = [current EXCEPT ![b] = NoId]
    /\ wake' = [wake EXCEPT ![b] = 0]
    /\ begun' = [begun EXCEPT ![b] = {}]

\* stop cancels the task wherever it awaits; a crash ends the process there.
Stop(b) ==
    /\ pc[b] # "down"
    /\ IF pc[b] = "confirm" THEN LoseEvidence(current[b]) ELSE UNCHANGED <<ledger, lost>>
    /\ ForgetLoop(b)
    /\ UNCHANGED clock

-------------------------------------------------------------------------------
(* Clocks. *)

Tick ==
    /\ mono < MaxTime
    /\ mono' = mono + 1
    /\ UNCHANGED <<behind, pc, attempted, reading, todo, current, wake, begun, ledger, lost>>

\* A wall clock is set back, or a replica's clock was behind all along.
SetBack(b) ==
    /\ behind[b] < MaxBehind /\ Wall(b) > 0
    /\ behind' = [behind EXCEPT ![b] = @ + 1]
    /\ UNCHANGED <<mono, pc, attempted, reading, todo, current, wake, begun, ledger, lost>>

-------------------------------------------------------------------------------
Fire(b) == Record(b) \/ Dispatch(b) \/ FindDispatched(b) \/ Confirm(b)
Loop(b) == ReadClock(b) \/ SkipAttempted(b) \/ BeginFire(b) \/ Sleep(b) \/ Wake(b) \/ Fire(b)

Next ==
    \/ \E b \in Backend :
        Start(b) \/ Loop(b) \/ FireFails(b) \/ ConfirmFails(b) \/ Stop(b) \/ SetBack(b)
    \/ Tick

Spec == Init /\ [][Next]_vars

\* Where a loop awaits, and so where its time goes: the fire it made, or a sleep not over yet.
\* Between a start or a wake and the fires, and between two fires, it awaits nothing.
Awaits(b) == pc[b] \in {"down", "record", "dispatch", "confirm"} \/ (pc[b] = "sleep" /\ mono < wake[b])

\* Loops that are never stopped, whose fires all succeed, whose clocks agree and whose sleeps
\* end on time: only the fires themselves take time.
PunctualNext ==
    \/ \E b \in Backend : Start(b) \/ Loop(b)
    \/ Tick /\ \A b \in Backend : Awaits(b)

PunctualSpec == Init /\ [][PunctualNext]_vars

\* A loop is stopped, asleep and not late, or in a round that is still shorter than any period.
Prompt(b) ==
    \/ pc[b] = "down"
    \/ pc[b] = "sleep" /\ mono < wake[b]
    \/ pc[b] \in {"scan", "record", "dispatch", "confirm"} /\ \A n \in DOMAIN Timers : Wall(b) + 1 < reading[b] + Timers[n].every

\* Rounds that begin at once and end before the shortest period is over, and sleeps that end on time.
PromptSpec == Init /\ [][Next /\ (mono' # mono => \A b \in Backend : Prompt(b))]_vars

-------------------------------------------------------------------------------
(* Properties. *)

\* A slot is emitted once over every backend and every restart, plus once for each
\* emission whose evidence was lost; a clock set back does not fire it again.
SlotEmittedOnce == \A i \in Identity : Len(emissions[i]) <= 1 + lost[i]

\* Every event of a slot carries that slot's instant, whichever process fired it
\* and however late: what lets a later at subsume an earlier one.
EventCarriesItsSlot ==
    \A i \in Identity : \A k \in DOMAIN emissions[i] : emissions[i][k] = i[2]

\* A loop never fires a slot twice in its life: a failed fire waits for the next
\* slot, and a clock set back re-fires nothing.
NoSlotTwiceInALife ==
    [][\A b \in Backend : pc[b] = "scan" /\ pc'[b] = "record" => current'[b] \notin begun[b]]_vars

SkipsNoSlot(b) ==
    \A n \in DOMAIN Timers :
        LET j == Timers[n].job IN
        attempted[b][j] # NoSlot /\ attempted'[b][j] \notin {attempted[b][j], NoSlot}
            => attempted'[b][j] = attempted[b][j] + Timers[n].every

\* What the TimerLoop docstring says: each declared timer fires once per slot until
\* the loop is stopped, however long the fires of the round take.
FiresEverySlot == [][\A b \in Backend : SkipsNoSlot(b)]_vars
===============================================================================
