SPECIFICATION Spec
CONSTANTS
    v1 = v1
    bad = bad
    n1 = n1
    n2 = n2
    None = None
    Versions <- MCVersions
    BadVersions <- MCBadVersions
    Nodes <- MCNodes
    UnreliableReads = TRUE
    MaxEdits = 1
    MaxFaults = 2
    MaxCrashes = 1
INVARIANT
    SameCA
CHECK_DEADLOCK FALSE
