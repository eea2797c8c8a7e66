SPECIFICATION Spec
CONSTANTS
    TxPorts = {1}
    RxPorts = {2}
    CheckedPorts = {1}
    LoQl = 2
    DoNotUseQl = 3
    MaxQl = 4
    BestQls = {1, 2}
    RxQls = {1, 3}
    Bundles <- NoOrAll
    Originators = {"a"}
    RxCascades <- ThreeClocks
INVARIANTS
    HopsOfReport
