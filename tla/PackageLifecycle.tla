---------------------------- MODULE PackageLifecycle ----------------------------
(***************************************************************************)
(* One run of the backend lifespan: connect the broker, start the packages *)
(* in manifest order, start the timer loop, serve, and undo all of it in   *)
(* reverse on the way out.  Every await may raise, and the server may      *)
(* cancel the lifespan at any of them.  An exception is known here by the  *)
(* step that raised it, a cancellation as one.                             *)
(***************************************************************************)
EXTENDS Naturals, Sequences

CONSTANTS
    Package,      \* package names
    Packages,     \* the product manifest: the active packages in order
    HasTimers     \* whether JOB_TIMERS is not empty

\* An allowlist names a package once.
ManifestAssumption ==
    /\ Packages \in Seq(Package)
    /\ \A m, n \in DOMAIN Packages : Packages[m] = Packages[n] => m = n
    /\ HasTimers \in BOOLEAN

VARIABLES
    pc,            \* the step of the lifespan
    broker,        \* whether the core broker is connected
    started,       \* application.state.codegen_started_packages
    loop,          \* the timer loop: "none", "running" or "stopped"
    active,        \* active_error: what the body of the lifespan raised
    firstError,    \* shutdown_packages: an error was kept
    cancellation,  \* shutdown_packages: a cancellation was kept
    outcome,       \* what is propagating out of the lifespan
    startLog,      \* packages whose startup returned, in order
    stopLog        \* packages whose shutdown was called, in order

vars == <<pc, broker, started, loop, active, firstError, cancellation, outcome, startLog, stopLog>>

PC == {"connect", "start", "serve", "stop_loop", "stop_packages", "close", "done"}
BodyError == {"startup", "serving", "cancelled"}
Outcome == {"none", "connect", "shutdown", "close"} \cup BodyError

TypeOK ==
    /\ pc \in PC
    /\ broker \in BOOLEAN /\ firstError \in BOOLEAN /\ cancellation \in BOOLEAN
    /\ started \in Seq(Package)
    /\ loop \in {"none", "running", "stopped"}
    /\ active \in {"none"} \cup BodyError
    /\ outcome \in Outcome
    /\ startLog \in Seq(Package) /\ stopLog \in Seq(Package)

Init ==
    /\ pc = "connect"
    /\ broker = FALSE /\ firstError = FALSE /\ cancellation = FALSE
    /\ started = <<>>
    /\ loop = "none"
    /\ active = "none" /\ outcome = "none"
    /\ startLog = <<>> /\ stopLog = <<>>

-------------------------------------------------------------------------------
(* The way in. *)

\* connect stands before the try: when it raises nothing is undone.
Connect ==
    /\ pc = "connect"
    /\ \/ broker' = TRUE /\ pc' = "start" /\ UNCHANGED outcome
       \/ \E e \in {"connect", "cancelled"} : outcome' = e /\ pc' = "done" /\ UNCHANGED broker
    /\ UNCHANGED <<started, loop, active, firstError, cancellation, startLog, stopLog>>

IsNext(p) == Len(startLog) < Len(Packages) /\ p = Packages[Len(startLog) + 1]

StartPackage(p) ==
    /\ pc = "start" /\ IsNext(p)
    /\ startLog' = Append(startLog, p)
    /\ started' = Append(started, p)
    /\ UNCHANGED <<pc, broker, loop, active, firstError, cancellation, outcome, stopLog>>

\* The body raised: a startup, the application, or a cancellation of either.
BodyRaises(e) ==
    /\ active' = e /\ outcome' = e
    /\ pc' = "stop_loop"
    /\ UNCHANGED <<broker, started, loop, firstError, cancellation, startLog, stopLog>>

StartPackageFails ==
    /\ pc = "start" /\ Len(startLog) < Len(Packages)
    /\ \E e \in {"startup", "cancelled"} : BodyRaises(e)

StartLoop ==
    /\ pc = "start" /\ Len(startLog) = Len(Packages)
    /\ loop' = IF HasTimers THEN "running" ELSE "none"
    /\ pc' = "serve"
    /\ UNCHANGED <<broker, started, active, firstError, cancellation, outcome, startLog, stopLog>>

-------------------------------------------------------------------------------
(* The way out. *)

\* The application stops, or raises into the context manager.
Exit ==
    /\ pc = "serve"
    /\ pc' = "stop_loop"
    /\ UNCHANGED <<broker, started, loop, active, firstError, cancellation, outcome, startLog, stopLog>>

ServingFails == pc = "serve" /\ \E e \in {"serving", "cancelled"} : BodyRaises(e)

\* TimerLoop.stop returns, or raises the caller's own cancellation; the loop's task
\* is over in both, because the cancellation is passed on to it first.
StopLoop ==
    /\ pc = "stop_loop"
    /\ IF loop = "running"
       THEN loop' = "stopped" /\ outcome' \in {outcome, "cancelled"}
       ELSE UNCHANGED <<loop, outcome>>
    /\ pc' = "stop_packages"
    /\ UNCHANGED <<broker, started, active, firstError, cancellation, startLog, stopLog>>

Last(s) == s[Len(s)]
Front(s) == SubSeq(s, 1, Len(s) - 1)

\* Mutant: the first stop that raises ends the loop over the ledger.
StopStopsAtError ==
    /\ pc = "stop_packages" /\ started # <<>>
    /\ stopLog' = Append(stopLog, Last(started))
    /\ \/ started' = Front(started) /\ UNCHANGED <<firstError, cancellation>>
       \/ started' = <<>> /\ firstError' = TRUE /\ UNCHANGED cancellation
    /\ UNCHANGED <<pc, broker, loop, active, outcome, startLog>>

\* One round of shutdown_packages: the package is popped before its stop is awaited.
StopPackage ==
    /\ pc = "stop_packages" /\ started # <<>>
    /\ started' = Front(started)
    /\ stopLog' = Append(stopLog, Last(started))
    /\ \/ UNCHANGED <<firstError, cancellation>>
       \/ firstError' = TRUE /\ UNCHANGED cancellation
       \/ cancellation' = TRUE /\ UNCHANGED firstError
    /\ UNCHANGED <<pc, broker, loop, active, outcome, startLog>>

\* Mutant: an error of a stop is raised whatever is propagating.
PackagesStoppedMasking ==
    /\ pc = "stop_packages" /\ started = <<>>
    /\ outcome' = IF cancellation THEN "cancelled" ELSE IF firstError THEN "shutdown" ELSE outcome
    /\ pc' = "close"
    /\ UNCHANGED <<broker, started, loop, active, firstError, cancellation, startLog, stopLog>>

\* shutdown_packages raises what it kept: a cancellation always, an error only when
\* the body did not raise.
PackagesStopped ==
    /\ pc = "stop_packages" /\ started = <<>>
    /\ outcome' = IF cancellation THEN "cancelled"
                  ELSE IF firstError /\ active = "none" THEN "shutdown" ELSE outcome
    /\ pc' = "close"
    /\ UNCHANGED <<broker, started, loop, active, firstError, cancellation, startLog, stopLog>>

CloseBroker ==
    /\ pc = "close"
    /\ \/ broker' = FALSE /\ UNCHANGED outcome
       \/ \E e \in {"close", "cancelled"} : outcome' = e /\ UNCHANGED broker
    /\ pc' = "done"
    /\ UNCHANGED <<started, loop, active, firstError, cancellation, startLog, stopLog>>

-------------------------------------------------------------------------------
Next ==
    \/ Connect \/ (\E p \in Package : StartPackage(p)) \/ StartPackageFails \/ StartLoop
    \/ Exit \/ ServingFails
    \/ StopLoop \/ StopPackage \/ PackagesStopped \/ CloseBroker

Spec == Init /\ [][Next]_vars

-------------------------------------------------------------------------------
(* Properties. *)

\* Stops mirror the starts that completed, whatever raised on either way: the last
\* started is the first stopped, a package that failed to start is never stopped, and
\* past the stops every other one was asked to, failures or not. The timer loop, which
\* fires package jobs, runs only between the last start and the first stop.
StopsMirrorStarts ==
    /\ Len(stopLog) <= Len(startLog)
    /\ \A n \in DOMAIN stopLog : stopLog[n] = startLog[Len(startLog) + 1 - n]
    /\ pc \in {"close", "done"} => Len(stopLog) = Len(startLog)
    /\ loop = "running" => Len(startLog) = Len(Packages) /\ stopLog = <<>>

\* Which of several errors leaves. The close of the broker comes last: when it raises, that is what
\* leaves, and only then the broker stays connected. When it returns, a cancellation of a package stop
\* leaves, whatever else raised; failing that, what the body raised, which the error of a package stop
\* never replaces and only a cancelled stop of a loop that ran does; and the error of a package stop
\* is not lost when the body raised nothing.
RightErrorLeaves ==
    pc = "done" =>
        /\ broker => outcome \in {"close", "cancelled"}
        /\ ~broker /\ cancellation => outcome = "cancelled"
        /\ ~broker /\ ~cancellation /\ active # "none" =>
              outcome = active \/ (outcome = "cancelled" /\ loop = "stopped")
        /\ ~broker /\ ~cancellation /\ active = "none" /\ firstError => outcome = "shutdown"

===============================================================================
