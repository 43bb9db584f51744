SPECIFICATION Spec
CONSTANTS
    Colours = {"green", "red"}
    InitAttempts = 2
    FailureLimit = 2
    MaxCalls = 4
    MaxRequests = 4
    Devices = {"mouse", "keyboard", "ram"}
    Direct = {"mouse", "ram"}
    Wanted = {"mouse", "keyboard"}
    MaxPorts = 2
    Order <- MCOrder
    Machines <- MCMachines
    MaxChanges = 2
INVARIANTS
    TypeOK
    ClosedIsReleased
    OpenThreadHoldsTheSdk
    PaintedIsShown
    BothSidesAgree
    ReleasedIsRestored
    LightsFollowTheSession
PROPERTIES
    CallsReturn
\* The engine is gone after the process's exit, and calls are bounded.
CHECK_DEADLOCK FALSE
