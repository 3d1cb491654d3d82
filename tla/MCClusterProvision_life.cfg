SPECIFICATION FairSpec
CONSTANTS
    v1 = v1
    bad = bad
    n1 = n1
    n2 = n2
    None = None
    Versions <- MCVersions
    BadVersions <- MCBadVersions
    Nodes <- MCNodes
    UnreliableReads = FALSE
    MaxEdits = 1
    MaxFaults = 1
    MaxCrashes = 1
INVARIANTS
    TypeOK
    SameCA
    ReadyMeansStored
    ProvisionDiscipline
PROPERTIES
    PKINeverReplaced
    KeepsFaith
    EventuallyProvisioned
    DeletionEnds
CHECK_DEADLOCK FALSE
