-------------------------------- MODULE Backend --------------------------------
(***************************************************************************)
(* A backend process: the rows its requests share, and the lifespan around *)
(* them, which starts the packages and undoes it.  They share no state.    *)
(***************************************************************************)
EXTENDS CoreRows

CONSTANTS
    Package,      \* package names
    Packages,     \* the product manifest: the active packages in order
    HasTimers     \* whether JOB_TIMERS is not empty

VARIABLES stage, broker, started, loop, active, firstError, cancellation, leaving, startLog, stopLog

lifespan == <<stage, broker, started, loop, active, firstError, cancellation, leaving, startLog, stopLog>>

\* The step of the lifespan and what leaves it are named apart from those of a request.
Lifespan == INSTANCE PackageLifecycle WITH pc <- stage, outcome <- leaving

ASSUME LifespanAssumption == Lifespan!ManifestAssumption

-------------------------------------------------------------------------------
(* The properties of the lifespan. *)

\* Stops mirror the starts that completed, and the timer loop runs between both.
StopsMirrorStarts == Lifespan!StopsMirrorStarts

\* What the body raised leaves, but for a cancelled stop or a close that raised behind it;
\* the error of a package stop leaves only when the body raised nothing.
RightErrorLeaves == Lifespan!RightErrorLeaves
===============================================================================
