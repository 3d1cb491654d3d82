SPECIFICATION FairSpec
CONSTANTS
    c1 = c1
    c2 = c2
    c3 = c3
    noExt = noExt
    e1 = e1
    None = None
    NoExt <- noExt
    Cfgs <- TwoCfgs
    FirstDoc <- OneDocEach
    Exts <- MCExts
    Versions = {1, 2}
    Specs <- ImperativeSpecs
    UpgradeImages <- ImperativeImages
    Machines <- ImperativeMachines
    StaleReads = FALSE
    Timeouts = FALSE
    MaxEdits = 3
    MaxResets = 2
    MaxFaults = 0
    MaxCrashes = 1
INVARIANTS
    ReportedVersionRuns
    ResetDiscipline
PROPERTIES
    VersionNeverFalls
    ResetAtMostOnce
    UpgradeEnds
CHECK_DEADLOCK FALSE
