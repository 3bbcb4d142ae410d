---------------------------------- MODULE Bot ----------------------------------
(***************************************************************************)
(* The bot process: the relay of due events to their users, and the        *)
(* handlers of updates.  They share the process and no state; the relay's  *)
(* entries come from a stream, the handlers' effects happen behind HTTP.   *)
(***************************************************************************)
EXTENDS BindingRelay, FiniteSets

CONSTANTS
    User, Chat,
    Update,         \* updates of Telegram, each processed once
    Concurrent,     \* updates the application processes at a time
    None,
    MaxContexts,    \* MAX_CONTEXTS
    Ttl,            \* CONTEXT_TTL
    MaxRetries,     \* max_retries of the client
    MaxTime,        \* bound: the last instant
    MaxTokens       \* bound: selections offered

VARIABLES now, active, pending, offered, step, kind, place, token, try, effects, forgotten, mishaps

\* A handler's step and the count of its faults are named apart from the relay's.
Actions == INSTANCE BotActions WITH pc <- step, faults <- mishaps

ASSUME ActionsAssumption == Actions!BotAssumption

\* The handlers at work while the relay rests where it starts.
ActionsInit == Init /\ Actions!Init
ActionsNext == Actions!Next /\ UNCHANGED vars
ActionsSpec == ActionsInit /\ [][ActionsNext]_<<vars, Actions!vars>>

-------------------------------------------------------------------------------
(* The properties of the handlers. *)

\* The buttons of one answer act at most once, and only for whom they were offered to.
SelectionActsOnce == Actions!SelectionActsOnce

\* One update has at most one effect, whatever its client retries.
UpdateActsOnce == Actions!UpdateActsOnce

\* A valid selection nobody used is there, unless as many newer ones were offered.
ValidIsKept == Actions!ValidIsKept
===============================================================================
