SPECIFICATION Spec
CONSTANTS
    c1 = c1
    c2 = c2
    c3 = c3
    noExt = noExt
    e1 = e1
    None = None
    NoExt <- noExt
    Cfgs <- TwoCfgs
    FirstDoc <- OneDocEach
    Exts <- MCExts
    Versions = {1, 2}
    Specs <- PlainSpecs
    UpgradeImages <- SafetyImages
    Machines <- SafetyMachines
    StaleReads = FALSE
    Timeouts = FALSE
    MaxEdits = 2
    MaxResets = 0
    MaxFaults = 1
    MaxCrashes = 0
INVARIANT
    UpToDateMeansApplied
CHECK_DEADLOCK FALSE
