SPECIFICATION FairSpec
CONSTANTS
    cp1 = cp1
    cp2 = cp2
    cp3 = cp3
    w1 = w1
    None = None
    Nodes <- ThreePlanes
    ControlPlanes <- ThreePlanes
    Wipe <- BusyPlane
    Busy <- BusyPlane
    Endpoints <- ThreeEndpoints
    MaxAttempts = 1
    EagerDial = FALSE
    StaleReads = FALSE
    Patient = TRUE
    MaxTroubles = 1
    Escape <- BusyPlane
INVARIANTS
    TypeOK
    EtcdSurvives
    GuardDiscipline
    EndpointsFollow
PROPERTIES
    EvictedBeforeDeleted
    LeavesEtcdFirst
    KeepsPromise
    RemovalEnds
CHECK_DEADLOCK FALSE
