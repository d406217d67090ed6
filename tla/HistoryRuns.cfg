\* One user's history on four episodes, two requests, any number of passes.
SPECIFICATION Spec
CONSTANTS
    Absent = Absent
    copy = copy
    twin = twin
    special = special
    early = early
    S1 = S1
    amy = amy
    Users = {amy}
    Episodes = {copy, twin, special, early}
    Show = Show
    SeasonOf <- OneSeason
    Specials = {special}
    CopiedSpecials = {special}
    Unaired = {early}
    TwinOf <- Twins
    Facts <- Singles
    Requests = {p, q}
    Pass = Pass
    BatchSize = 1
SYMMETRY Symmetry
INVARIANTS LedgerAgrees NoOrphans
PROPERTIES OnlyShowMarksSilence BatchKeeps MovesWhole
