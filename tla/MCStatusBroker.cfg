SPECIFICATION FairSpec
CONSTANTS
    Keys <- MCKeys
    Subagents = {}
    Prompts = {}
    Sentences = {}
    Tools = {}
    WatchdogTimeout = 0
    Workers = {"w1", "w2"}
    EnabledAgents = {"claude", "cursor"}
    StallAgents = {"cursor"}
    StallSeconds = 1
    Resends = TRUE
    MaxInputs = 2
INVARIANTS TypeOK FreshLightsAreRight ReleasedStaysReleased NoRedWithoutAConfirm
PROPERTIES AcceptedIsApplied StalledTurnsRed FollowsLights
