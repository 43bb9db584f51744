SPECIFICATION Spec
CONSTANTS
    Agents = {"claude"}
    Colours = {"stock", "picked"}
    Intervals = {0, 1}
    PulseSteps = 2
    MaxTime = 2
    LogSize = 1
    Providers = {"claude", "codex"}
    Levels = {0, 1}
    PanelConfigs <- MCPanelConfigs
    MaxFetches = 2
    MaxTokens = 2
    Adapters <- MCAdapters
    Latest = 3
    Files <- MCFiles
    Edits <- MCEdits
    Sections = {"claude"}
    Modes = {"auto", "none"}
    Palettes = {"stock"}
    MaxRuns = 3
    MaxQuestions = 2
    Messages = {"m1"}
    Tokens = {1, 2}
    Window = 2
    Week = 3
    Span = 4
    Chunks = {1, 2}
    MaxLines = 3
    MaxClock = 4
    MaxRenewals = 3
    Sessions = {"s1", "s2"}
    OwnKey = {"s2"}
    Allowance = 10
    Period = 3
    MaxDay = 5
    Asked = {"claude", "codex"}
    Windows <- MCWindows
    FreshFor = 0
    KeptFor = 1
    SampleLife = 1
    LastHour = 2
    MaxPasses = 3
    DaemonPorts = {1, 2}
    Batches <- MCBatches
    MaxItems = 2
INVARIANTS
    TypeOK
    IconFollowsTheState
    NagsOnSchedule
    PanelIsCurrent
    SettingsLast
    JobsTakeTurns
PROPERTIES
    
    NothingHangs
\* The clocks, the fetches and the threads are bounded, and a process may have ended.
CHECK_DEADLOCK FALSE
