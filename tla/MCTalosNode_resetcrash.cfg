SPECIFICATION FairSpec
CONSTANTS
    c1 = c1
    c2 = c2
    c3 = c3
    noExt = noExt
    e1 = e1
    None = None
    NoExt <- noExt
    Cfgs <- TwoCfgs
    FirstDoc <- OneDocEach
    Exts <- MCExts
    Versions = {1, 2}
    Specs <- PlainSpecs
    UpgradeImages = {}
    Machines <- SafetyMachines
    StaleReads = FALSE
    Timeouts = FALSE
    MaxEdits = 1
    MaxResets = 1
    MaxFaults = 0
    MaxCrashes = 1
PROPERTY
    ResetIsReconfigured
CHECK_DEADLOCK FALSE
