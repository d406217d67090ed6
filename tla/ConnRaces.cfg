\* Two accounts, of which one may sign up on the other's invite and may leave,
\* two overlapping handlers, two days: every interleaving of the handlers' reads
\* and writes on one pair, with the ceiling falling from 1 to 0 and a cooldown
\* of a day.
SPECIFICATION Spec
CONSTANTS
    NoUser = NoUser
    Users = {a, b}
    Newcomers = {b}
    Leavers = {b}
    Procs = {p1, p2}
    MaxCeiling = 1
    FloorCeiling = 0
    WindowDays = 0
    MinSample = 2
    AdversePercent = 50
    ReputationDays = 1
    IgnoredDays = 0
    CooldownDays = 1
    MaxConn = 3
    MaxLog = 3
    MaxTime = 1
SYMMETRY ProcSymmetry
INVARIANTS PendingEntryIsLive OutreachBounded
PROPERTIES AcceptedByConsent BlockIsWall
