SPECIFICATION FairSpec
CONSTANTS
    c1 = c1
    c2 = c2
    c3 = c3
    noExt = noExt
    e1 = e1
    None = None
    NoExt <- noExt
    Cfgs <- TwoCfgs
    FirstDoc <- OneDocEach
    Exts <- MCExts
    Versions = {1, 2}
    Specs <- PlainSpecs
    UpgradeImages = {}
    Machines <- AdoptedMachines
    StaleReads = FALSE
    Timeouts = FALSE
    MaxEdits = 1
    MaxResets = 0
    MaxFaults = 0
    MaxCrashes = 0
PROPERTY
    RunningIsAdopted
CHECK_DEADLOCK FALSE
