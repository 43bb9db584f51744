SPECIFICATION Spec
CONSTANTS
    SolidStatuses = {"idle", "working"}
    AutoDetect = TRUE
    MaxCalls = 4
INVARIANT ResumedIsActual
CHECK_DEADLOCK FALSE
