SPECIFICATION Spec
CONSTANTS
    IdMod = 16
    TxWindow = 4
    WordBits = 4
    HistoryBits = 3
    DropThreshold = 1
    RxWindow = 4
    RxHistoryBits = 4
    AckBits = 3
    WindowSize = 4
    FragmentSize = 1
    Byte <- MCByte
    Mss = 1
    Q16 = 1
    InitialCwndMss = 4
    CwndMax = 6
    UnreliableWeight = 1
    ReliableWeight = 1
    BurstSize = 2
    WeightMax = 1
    DataSizeMax = 1
    BurstSizeMax = 2
    CounterMod = 8
    FrameRoom = 3
    StreamAckSize = 1
    DatagramHeader = 1
    RtoMin = 1
    RtoMax = 2
    TimeoutTime = 3
    Nonces <- MCNonces
    Script <- BothWays
    Rtos = {1}
    Disconnects = {}
    MaxFaults = 1
    MaxResends = 1
    MaxTime = 1
INVARIANTS
    TimerOK
    TransitGuarded
    AckedIsReceived
PROPERTY FifoSpec
CHECK_DEADLOCK FALSE
