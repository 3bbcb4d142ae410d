SPECIFICATION ActionsSpec
CONSTANTS
    None = None
    User = {ann, bob}
    Chat = {here}
    Update = {u1, u2, u3}
    Concurrent = 2
    MaxContexts = 2
    Ttl = 1
    MaxRetries = 2
    MaxTime = 1
    MaxTokens = 3
    MaxFaults = 1
    Free = Free
    Done = Done
    Abandoned = Abandoned
    Event = {"due"}
    Invalid = {}
    Reader = {live}
    MaxEntries = 1
INVARIANTS SelectionActsOnce UpdateActsOnce ValidIsKept
SYMMETRY MCSymmetry
\* every update is processed
CHECK_DEADLOCK FALSE
