SPECIFICATION FairSpec
CONSTANTS
    None = None
    Event = {"e1", "e2"}
    Reader = {live, reclaim}
    MaxEntries = 2
    MaxFaults = 2
INVARIANTS EffectOnce AckedTookEffect
\* every entry is acknowledged and no more are published
CHECK_DEADLOCK FALSE
PROPERTY EveryEntrySettles
