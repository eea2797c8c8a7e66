SPECIFICATION FairSyncedSpec
CONSTANTS
    NumSyncs = 2
    NumClks = 1
    InitType <- SpareType
    InitClkIdx <- SpareClkIdx
    InitPri <- SparePri
    InitQl <- SpareQl
    RxPorts <- SpareRx
    NoQlEn = FALSE
    SynceForcedQlEn = TRUE
    LoQl = 2
    LoPri = 9
    DoNotUseQl = 3
    FailedQl = 4
    HoldOffTicks = 0
    WtrTicks = 0
    RxQls = {1}
    RxHops = {0}
    PortFaults = {"link"}
    ClkStates = {"qualified"}
    DeviceResults = {TRUE}
    ForcedQls = {}
    NewPris = {}
    AssignTargets <- SpareAssign
    WtrClearable = {}
    HoldoverQl = 1
    HoldoverTimerS = 1
    MsPerS = 1
    WordSize = 16
    AdvancedHoldoverEn = FALSE
PROPERTIES
    DownPortNotAdvertised
    CurrentQlAdvertised
    FormerOwnerForgotten
