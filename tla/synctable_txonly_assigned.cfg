SPECIFICATION Spec
CONSTANTS
    NumSyncs = 3
    NumClks = 2
    InitType <- MixedType
    InitClkIdx <- MixedClkIdx
    InitPri <- MixedPri
    InitQl <- MixedQl
    RxPorts <- MixedRx
    NoQlEn = FALSE
    SynceForcedQlEn = FALSE
    LoQl = 1
    LoPri = 9
    DoNotUseQl = 3
    FailedQl = 4
    HoldOffTicks = 0
    WtrTicks = 0
    RxQls = {2}
    RxHops = {300}
    PortFaults = {"link", "txLink"}
    ClkStates = {"qualified"}
    DeviceResults = {TRUE}
    ForcedQls = {}
    NewPris = {4, 20}
    AssignTargets <- MixedAssign
    WtrClearable = {}
INVARIANTS
    TxOnlyNotSelected
