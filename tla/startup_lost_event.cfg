SPECIFICATION StartupSpec
CONSTANTS
    NumSyncs = 3
    NumClks = 2
    InitType <- PairType
    InitClkIdx <- PairClkIdx
    InitPri <- PairPri
    InitQl <- PairQl
    RxPorts <- PairRx
    NoQlEn = FALSE
    SynceForcedQlEn = TRUE
    LoQl = 2
    LoPri = 9
    DoNotUseQl = 3
    FailedQl = 4
    HoldOffTicks = 1
    WtrTicks = 1
    RxQls = {1, 3}
    RxHops = {0}
    PortFaults = {"timeout", "link", "txLink"}
    ClkStates = {"qualified"}
    DeviceResults = {TRUE}
    ForcedQls = {1}
    NewPris = {}
    AssignTargets = {}
    WtrClearable = {0}
INVARIANTS
    LastQlIsInTable
