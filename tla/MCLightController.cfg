SPECIFICATION FairSpec
CONSTANTS
    SolidStatuses = {"idle", "working"}
    AutoDetect = TRUE
    MaxCalls = 4
INVARIANTS TypeOK SteadyStaysSteady OnlyTheCachedEngineHolds PausedIsReleased BlinkingIsOneThread SnapshotIsTrue
CHECK_DEADLOCK FALSE
PROPERTY BlinkGoesOn
