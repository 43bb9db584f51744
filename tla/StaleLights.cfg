SPECIFICATION Spec
CONSTANTS
    Keys <- MCKeys
    Subagents = {}
    Prompts = {}
    Sentences = {}
    Tools = {}
    WatchdogTimeout = 2
    Workers = {"w1", "w2"}
    EnabledAgents = {"claude", "cursor"}
    StallAgents = {"cursor"}
    StallSeconds = 1
    Resends = FALSE
    MaxInputs = 2
INVARIANT QuietLightsAreRight
