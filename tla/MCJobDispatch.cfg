SPECIFICATION FairSpec
CONSTANTS
    None = None
    Command = {i1}
    Caller = {c1, c2}
    Payload = {p1, p2, bad}
    Declared = {p1, p2}
    MaxCrashes = 1
    MaxUncertain = 1
INVARIANTS BoundedEmissions EvidenceTruthful
PROPERTIES ImplementsLedger RetryCompletes
