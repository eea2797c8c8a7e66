SPECIFICATION FairSyncedSpec
CONSTANTS
    NumSyncs = 1
    NumClks = 1
    InitType <- OneType
    InitClkIdx <- OneClkIdx
    InitPri <- OnePri
    InitQl <- OneQl
    RxPorts <- OneRx
    NoQlEn = TRUE
    SynceForcedQlEn = TRUE
    LoQl = 1
    LoPri = 9
    DoNotUseQl = 3
    FailedQl = 4
    HoldOffTicks = 0
    WtrTicks = 0
    RxQls = {1, 2}
    RxHops = {0}
    PortFaults = {}
    ClkStates = {"qualified"}
    DeviceResults = {TRUE}
    ForcedQls = {}
    NewPris = {}
    AssignTargets = {}
    WtrClearable = {}
    HoldoverQl = 1
    HoldoverTimerS = 1
    MsPerS = 1
    WordSize = 16
    AdvancedHoldoverEn = FALSE
PROPERTIES
    CurrentQlAdvertised
