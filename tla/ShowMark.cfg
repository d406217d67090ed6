\* A user may watch an episode before it airs, and marks the show; passes go on.
SPECIFICATION Spec
CONSTANTS
    Absent = Absent
    copy = copy
    twin = twin
    special = special
    early = early
    S1 = S1
    amy = amy
    Users = {amy}
    Episodes = {copy, twin, special, early}
    Show = Show
    SeasonOf <- OneSeason
    Specials = {special}
    CopiedSpecials = {special}
    Unaired = {early}
    TwinOf <- Twins
    Facts <- EarlyWatch
    Requests = {p}
    Pass = Pass
    BatchSize = 1
INVARIANT WatchesTold
