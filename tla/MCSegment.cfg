SPECIFICATION Spec
CONSTANTS
    IdMod = 8
    TxWindow = 4
    WordBits = 4
    HistoryBits = 3
    DropThreshold = 1
    RxWindow = 4
    RxHistoryBits = 4
    AckBits = 3
    InitIds = {6}
    Kinds <- MCKinds
    MaxSegments = 6
    Lag = 1
INVARIANTS
    TypeOK
    SlotsOK
    DeliveredInOrder
    HistoryTruthful
    HonestAckVerifies
    AcksRecognised
    TransitExact
    DropHasCause
CHECK_DEADLOCK FALSE
