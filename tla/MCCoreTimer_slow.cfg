SPECIFICATION PunctualSpec
CONSTANTS
    NoId = NoId
    Backend = {b1}
    Job = {"digest", "tick"}
    Timers <- MCTimers
    MaxTime = 11
    MaxBehind = 0
    MaxLost = 0
PROPERTY FiresEverySlot
