SPECIFICATION AlgorithmsSpec
CONSTANTS
    NumSyncs = 3
    Qls = {0, 1, 3}
    Pris = {0, 1, 255}
    Hops = {0, 255}
    LoQls = {1, 3}
    LoPri = 1
    DoNotUseQl = 3
    Settable <- Coded
    RawPorts = {1, 2}
    Address <- Macs
    Lengths = {27, 128, 129}
INVARIANTS
    DeviceTableIsOrdered
    ReadAsSent
    NeverReadAsBetter
    TxKeepsRunning
PROPERTIES
    FilterIsExact
