SPECIFICATION AlgorithmsSpec
CONSTANTS
    NumSyncs = 1
    Qls = {0}
    Pris = {0}
    Hops = {0}
    LoQls = {1}
    LoPri = 1
    DoNotUseQl = 3
    Settable <- All
    RawPorts = {1, 2}
    Address <- Macs
    Lengths = {128}
INVARIANTS
    TxKeepsRunning
