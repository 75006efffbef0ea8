SPECIFICATION TimelineSpec
CONSTANTS
    Runs = {r1, r2}
    MaxResets = 2
    MaxFailures = 2
    MaxCrashes = 2
    ViewedRuns = {v1, v2}
    RunLimit = 1
    MaxOutput = 1
    EventBuffer = 2
    MaxConnections = 1
    MaxMishaps = 1
    DefaultLimit = 2
    QueryCap = 2
    ConsoleCap = 1
    ConsoleDefault = 1
    NoValue = NoValue
    NewEvents <- MCNewEvents
    PageFilters <- MCPageFilters
    PageSize = 1
    MaxEvents = 2
    MaxChanges = 1
    MaxPageFaults = 1
SYMMETRY Symmetry
INVARIANTS
    RecordsOrdered QuietFileIsSound
    ViewCatchesUp PagesShowTheHistory
PROPERTIES
    SpoiltForGood
CHECK_DEADLOCK FALSE
