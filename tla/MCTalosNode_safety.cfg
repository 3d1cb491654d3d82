SPECIFICATION FairSpec
CONSTANTS
    c1 = c1
    c2 = c2
    c3 = c3
    noExt = noExt
    e1 = e1
    None = None
    NoExt <- noExt
    Cfgs <- ThreeCfgs
    FirstDoc <- SharedFirstDoc
    Exts <- MCExts
    Versions = {1, 2}
    Specs <- SafetySpecs
    UpgradeImages <- SafetyImages
    Machines <- SafetyMachines
    StaleReads = TRUE
    Timeouts = TRUE
    MaxEdits = 2
    MaxResets = 1
    MaxFaults = 2
    MaxCrashes = 1
INVARIANTS
    TypeOK
    InsecureOnlyWhileUnconfigured
    AppliedImpliesSaved
    UpgradeAnnounced
    NoDowngradeSent
    StatusDiscipline
PROPERTIES
    ReadyClaimsCurrentSpec
    EventuallyConverged
CHECK_DEADLOCK FALSE
