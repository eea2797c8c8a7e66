SPECIFICATION FairDeviceSpec
CONSTANTS
    NumSyncs = 1
    NumClks = 1
    InitType <- OneType
    InitClkIdx <- OneClkIdx
    InitPri <- OnePri
    InitQl <- OneQl
    RxPorts <- OneRx
    NoQlEn = FALSE
    SynceForcedQlEn = TRUE
    LoQl = 2
    LoPri = 9
    DoNotUseQl = 3
    FailedQl = 4
    HoldOffTicks = 1
    WtrTicks = 1
    RxQls = {1}
    RxHops = {0}
    PortFaults = {"timeout", "link"}
    ClkStates = {"qualified"}
    DeviceResults = {TRUE, FALSE}
    ForcedQls = {}
    NewPris = {}
    AssignTargets = {}
    WtrClearable = {}
PROPERTIES
    DownClockExcluded
