SPECIFICATION ProcessSpec
CONSTANTS
    Syncs = {0, 1}
    ClkIdx = {0, 1}
    LoQl = 3
    HoldoverQl = 2
    MaxQl = 5
    HoldoverTimerS = 1
    MsPerS = 2
    WordSize = 16
    AdvancedHoldoverEn = TRUE
    DeviceFails = TRUE
    ClkAnswers <- AnyClk
    SyncAnswers <- AnySync
    QlAnswers = {1, 2, 3, 4, 5}
    PcmQls = {"PRC", "SEC"}
    PcmLate = TRUE
    Clients = {"a", "b", "c"}
    OddClients = {"c"}
    Interactive = {"b"}
    MaxCommands = 1
    MngLate = TRUE
    NumTx = 2
    NumRx = 1
    CheckedPorts = {1}
    LatePorts = {2}
INVARIANTS
    TxFollowsMonitor
    HoldoverQlInRange
    ConnectedHasSocket
    SessionKept
    NoConnectionLeft
    MemoryOutlivesThread
    DescriptorOutlivesThread
    ControlOutlivesEvents
PROPERTIES
    NoUpgradeUntracked
    FlappingEndsHoldover
    HoldoverEnds
    NewConnectionTold
    MainGetsThrough
    ClientsServedInTurn
    ShutdownCompletes
CHECK_DEADLOCK FALSE
