SPECIFICATION Spec
CONSTANTS
    Bindings <- MCBindings
    Starts <- MCStarts
    KeepBackups = 1
    MaxEdits = 1
    MaxRuns = 2
    MaxSeconds = 1
    Agents = {"codex", "cursor"}
    BothSides = {"cursor"}
    CodexVersions <- MCCodex
    Ports = {1, 2}
    MaxEvents = 2
    Pids = {1, 2, 3, 4}
    Versions <- MCVersions
    MaxUploads = 2
    Hosts = {"claude", "codex", "copilot", "cursor", "junie"}
    Inputs <- MCInputs
    MaxCalls = 6
    MaxAtOnce = 2
INVARIANTS
    FilesAreKept
    SetupAgrees
    RightOneRuns
\* Commands, edits and processes are bounded.
CHECK_DEADLOCK FALSE
