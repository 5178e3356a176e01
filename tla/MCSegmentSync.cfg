SPECIFICATION Spec
CONSTANTS
    IdMod = 8
    TxWindow = 4
    WordBits = 4
    HistoryBits = 3
    DropThreshold = 1
    RxWindow = 4
    RxHistoryBits = 4
    AckBits = 3
    InitIds = {0}
    Kinds <- MCKinds
    MaxSegments = 3
    Lag = 1
PROPERTY SyncCompletes
CHECK_DEADLOCK FALSE
