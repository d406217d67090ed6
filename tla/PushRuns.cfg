\* Two overlapping runs of the two tasks, a crash, a re-run, a device that
\* changes hands.
SPECIFICATION Spec
CONSTANTS
    Users = {u, v}
    Endpoints = {e}
    Notes = {n}
    TestNotes = {m}
    EventRuns = {r1}
    OtherRuns = {r2}
    Tests = {t}
    Joins = {h}
    None = None
    FailureLimit = 2
    StalePending = 0
    Window = 1
    Retention = 1
    RunSpan = 0
    TestMax = 1
    TestWindow = 1
    MaxSub = 2
    MaxTime = 2
INVARIANT SingleFlight
PROPERTIES RecordedOnce ClaimedForOwner
SYMMETRY Symmetric
CHECK_DEADLOCK FALSE
