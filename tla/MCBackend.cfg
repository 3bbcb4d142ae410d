INIT BackendInit
NEXT BackendNext
CONSTANTS
    Package = {"reminders", "ranking", "tg_channels"}
    Packages <- MCPackages
    HasTimers = TRUE
    Absent = Absent
    None = None
    Request = {r1, r2, r3}
    Key = {"weights"}
    CoreKey = {}
    Seeded = {"weights"}
    KeepsLatest = {"weights"}
    Subject = {7}
    Identity = {ann}
    Value = {"a", "b", "c"}
    Unfit = {"c"}
    Invalid = "invalid"
    MaxFaults = 1
SYMMETRY MCSymmetry
INVARIANTS StopsMirrorStarts RightErrorLeaves AnsweredGrantIsTold
PROPERTIES ImplementsRegister OnlyReplaysDiverge
\* the lifespan and every request are over in the end
CHECK_DEADLOCK FALSE
