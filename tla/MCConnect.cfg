SPECIFICATION Spec
CONSTANTS
    IdMod = 8
    TxWindow = 4
    WordBits = 4
    HistoryBits = 3
    DropThreshold = 1
    RxWindow = 4
    RxHistoryBits = 4
    AckBits = 2
    WindowSize = 2
    FragmentSize = 1
    Byte <- MCByte
    Mss = 1
    Q16 = 1
    InitialCwndMss = 2
    CwndMax = 2
    UnreliableWeight = 1
    ReliableWeight = 1
    BurstSize = 2
    WeightMax = 1
    DataSizeMax = 1
    BurstSizeMax = 2
    CounterMod = 8
    FrameRoom = 25
    StreamAckSize = 9
    DatagramHeader = 7
    RtoMin = 1
    RtoMax = 2
    TimeoutTime = 2
    FrameSizeMax = 35
    Crc <- MCCrc
    SipHash <- MCSipHash
    U32Max = 2147483647
    Client <- MCClient
    TimerTestLimit = 1
    HandshakeTimeout = 1
    TimestampMod = 8
    HandshakeTries = 2
    Nonces <- MCNonces
    StartTime = 7
    Plans <- MCPlans
INVARIANTS
    TableOK
    LifecycleOK
    DeliveredPrefix
PROPERTIES
    CookiesExpire
    WireOK
    HandshakeEnds
    PeersLeave
CHECK_DEADLOCK FALSE
