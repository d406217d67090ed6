SPECIFICATION Spec
CONSTANTS
    Null = Null
    Unreadable = Unreadable
    MinFeedAbsolute = 1
    MeasuredExport = 1
    RelativeNum = 1
    RelativeDen = 2
    Shows <- MCShows
    Series <- MCSeries
    Limits = {Null, 1}
    PageSize = 2
    FailureThreshold = 2
    Scenarios <- MCScenarios
INVARIANT LastAiredFits
PROPERTY PurgeBounded NoneSkipped Settles Filled
CHECK_DEADLOCK FALSE
