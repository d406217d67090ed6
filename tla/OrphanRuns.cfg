\* One user's history on a show, its revival and an orphan show; one request at
\* any moment, runs with and without a limit that may fail anywhere.
SPECIFICATION Spec
CONSTANTS
    amy = amy
    N = N
    C = C
    D = D
    T0 = T0
    T1 = T1
    T2 = T2
    T3 = T3
    D1 = D1
    D2 = D2
    Blank = Blank
    NoDate = NoDate
    NoOffset = NoOffset
    NoLink = NoLink
    NoSeason = NoSeason
    Users = {amy}
    Catalogs <- TheCatalogs
    Shows <- TheShows
    Seasons <- TheSeasons
    Staged = {4}
    Late <- LateEpisode
    Facts <- Marks
    History <- Histories
    Limited = TRUE
    MinIngested = 2
    SeasonBatch = 1
    MaxRequests = 1
CHECK_DEADLOCK FALSE
PROPERTIES KeepsHistory IngestedStays FullPassEmpties ReportForetells
