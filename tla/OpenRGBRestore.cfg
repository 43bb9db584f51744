SPECIFICATION Spec
CONSTANTS
    Colours = {"green", "red"}
    InitAttempts = 2
    FailureLimit = 3
    MaxCalls = 6
    MaxRequests = 4
    Devices = {"mouse", "keyboard", "ram"}
    Direct = {"mouse", "ram"}
    Wanted = {"mouse", "keyboard"}
    MaxPorts = 2
    Order <- MCOrder
    Machines <- MCMachines
    MaxChanges = 2
INVARIANTS
    CloseRestoresTheUsersLighting
\* Calls are bounded.
CHECK_DEADLOCK FALSE
