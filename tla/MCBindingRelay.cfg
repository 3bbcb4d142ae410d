SPECIFICATION FairSpec
CONSTANTS
    Free = Free
    Done = Done
    Abandoned = Abandoned
    Event = {"due", "broken"}
    Invalid = {"broken"}
    Reader = {live, reclaim}
    MaxEntries = 2
    MaxFaults = 2
INVARIANTS MessageSentOnce AckedIsSettled
PROPERTY EveryEntryIsAcked
\* every entry is acknowledged and no more are published
CHECK_DEADLOCK FALSE
