SPECIFICATION FairSpec
CONSTANTS
    a = a
    b = b
    None = None
    Machines <- MCMachines
    Endpoints <- MCEndpoints
    EagerDial = FALSE
    Timeouts = FALSE
    UnreliableReads = FALSE
    MaxTroubles = 2
PROPERTIES
    FallsBack
CHECK_DEADLOCK FALSE
