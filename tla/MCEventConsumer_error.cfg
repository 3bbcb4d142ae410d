SPECIFICATION Spec
CONSTANTS
    None = None
    Event = {"e1"}
    Reader = {live}
    MaxEntries = 1
    MaxFaults = 1
INVARIANT ErrorMeansFailure
CHECK_DEADLOCK FALSE
