CONSTANTS
    m1 = m1
    m2 = m2
    c1 = c1
    c2 = c2
    Messages = {m1, m2}
    Conversations = {c1, c2}
    Sockets = {s1, s2}
    Placements <- MCPlacements
    Asker <- MCAsker
    MaxChunks = 1
    Buffer = 2
    NoOne = NoOne
    r1 = r1
    r2 = r2
    r3 = r3
    t1 = t1
    t2 = t2
    Asks = {r1, r2, r3}
    ToolCalls = {t1, t2}
    CallOf <- MCCallOf
    KeyOf <- MCKeyOf
    OptionsOf <- MCOptionsOf
    Clients = {k1}
    Absent = Absent
    Plots = {p1, p2, p3, p4}
    MaxPlots = 3
    MaxFaults = 1
    Folders = {f1, f2}
    Windows = {w1, w2}
    MaxOpenings = 4
    Nowhere = Nowhere
    DefaultLimit = 2
    QueryCap = 2
    ConsoleCap = 1
    ConsoleDefault = 1
    NoValue = NoValue
    ExportLimit = 5
    ExportEvents <- MCExportEvents
    ExportRequests <- MCExportRequests
    DefaultTrimming <- MCTrimming
    Scripts <- MCScripts
    MaxRecorded = 2
    Pieces <- MCPieces
    MaxPieces = 3
    Absence = Absence
    BaseTexts <- MCBaseTexts
    Replacements <- MCReplacements
    EditLists <- MCEditLists
    LineFeed = "nl"
    NoResult = NoResult
    TreePaths <- MCTreePaths
    NamedPaths <- MCNamedPaths
    InitialTrees <- MCTrees
    MaxTreeChanges = 2
    MaxGivenUp = 1
    MaxTreeToggles = 1
    AGENTS <- MCAgents
    Downloads = {"claude-code-acp"}
    GithubReleases <- MCReleases
    HostTarget = "host"
    Callers = {a1, a2}
    MaxCalls = 3
    MaxSetupFaults = 1
    Unset = Unset
    ConfigRoots = {q1, q2}
    SettingNames = {"key", "model"}
    Switchers = {w1, w2}
    MaxSettings = 2
    MaxSwitches = 2
    MaxSaveFaults = 2
    NotSet = NotSet
SPECIFICATION ServicesSpec
INVARIANTS
    ConversationsDoNotMix CompleteOnceAfterATurn ChannelNeverStuck
    AllowedByAUser RememberedByAUser
    PlotTypeOK RemovedStaysRemoved
    OneRuntimePerProject
    DocumentTellsTheRuns ArchiveValidates BlocksAreTheirText
    EditsApplyTogether ShownFoldersAreReal LaunchedAsConfigured SettingsKept
PROPERTY ActivePlotStays
CHECK_DEADLOCK FALSE
