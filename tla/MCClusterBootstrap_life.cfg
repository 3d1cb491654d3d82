SPECIFICATION FairSpec
CONSTANTS
    a = a
    b = b
    None = None
    Machines <- MCMachines
    Endpoints <- MCEndpoints
    EagerDial = FALSE
    Timeouts = TRUE
    UnreliableReads = FALSE
    MaxTroubles = 2
INVARIANTS
    TypeOK
    OneEtcdWhileCalm
    RecordedNeverRepeated
    ClaimIsStored
    BootstrapDiscipline
PROPERTIES
    ConditionsKept
    CompletedIsFinal
    SecretGoesToo
    BootstrapCompletes
    DeletionEnds
CHECK_DEADLOCK FALSE
