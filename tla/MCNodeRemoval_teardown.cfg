SPECIFICATION FairSpec
CONSTANTS
    cp1 = cp1
    cp2 = cp2
    cp3 = cp3
    w1 = w1
    None = None
    Nodes <- PlanesAndWorker
    ControlPlanes <- TwoPlanes
    Wipe <- Empty
    Busy <- BusyWorker
    Endpoints <- TwoEndpoints
    MaxAttempts = 1
    EagerDial = FALSE
    StaleReads = FALSE
    Patient = TRUE
    MaxTroubles = 0
    Escape <- Empty
PROPERTIES
    TeardownEnds
CHECK_DEADLOCK FALSE
