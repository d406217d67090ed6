\* The user follows the orphan show; a run with a limit, then one without.
SPECIFICATION Spec
CONSTANTS
    amy = amy
    N = N
    C = C
    D = D
    T0 = T0
    T1 = T1
    T2 = T2
    T3 = T3
    D1 = D1
    D2 = D2
    Blank = Blank
    NoDate = NoDate
    NoOffset = NoOffset
    NoLink = NoLink
    NoSeason = NoSeason
    Users = {amy}
    Catalogs <- TheCatalog
    Shows <- TheShows
    Seasons <- TheSeasons
    Staged = {4}
    Late = {}
    Facts <- Marks
    History <- Following
    Limited = TRUE
    MinIngested = 2
    SeasonBatch = 1
    MaxRequests = 0
CHECK_DEADLOCK FALSE
PROPERTY ResumeForetells
