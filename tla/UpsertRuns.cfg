SPECIFICATION PayloadSpec
CONSTANTS
    Null = Null
    Absent = Absent
    NoVersion = NoVersion
    Self = "self"
    Slots = 15
    MaxRecommendations = 2
    Persons <- MCPersons
    Characters <- MCCharacters
    Roles <- MCRoles
    CreditIds <- MCCreditIds
    Keys <- MCKeys
    Countries <- MCCountries
    SeasonIds <- MCSeasonIds
    EpisodeIds <- MCEpisodeIds
    LegacySeasons = {"legacy"}
    LegacyEpisodes = {"e", "f"}
    Targets <- MCTargets
    Versions <- MCVersions
    Content <- MCContent
    LocalRows <- MCLocalRows
INVARIANTS OneVintage EpisodesHome
PROPERTY LocalKept
CHECK_DEADLOCK FALSE
CONSTANT MaxChanges = 2
