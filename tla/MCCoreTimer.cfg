SPECIFICATION Spec
CONSTANTS
    NoId = NoId
    Backend = {b1, b2}
    Job = {"tick"}
    Timers <- MCOneTimer
    MaxTime = 2
    MaxBehind = 1
    MaxLost = 1
INVARIANT SlotEmittedOnce
PROPERTY NoSlotTwiceInALife
