SPECIFICATION FairSpec
CONSTANTS
    NoDate = NoDate
    None = None
    Gone = Gone
    Episodes <- MCEpisodes
    Authored <- MCAuthored
    AuthoredDate <- MCAuthoredDate
    SeasonRows <- MCSeasonRows
    Season <- MCSeason
    Number <- MCNumber
    Schedules <- MCSchedules
    Oracles <- MCOracles
    Ids <- MCIds
    Defaults <- MCDefaults
    SweepDays = 2
    MissingDays = 1
    MaxEvents = 2
INVARIANT DatesDerive
PROPERTY NoFlapping Heals
CHECK_DEADLOCK FALSE
