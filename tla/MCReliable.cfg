SPECIFICATION Spec
CONSTANTS
    IdMod = 5
    FragmentSize = 2
    WindowSize = 2
    AckLag = 2
    MaxPackets = 3
    MaxWire = 3
    Lengths = {0, 2, 3}
    Byte <- MCByte
    Packet <- MCPacket
INVARIANTS
    TypeOK
    SendWindowOK
    NothingForgotten
    ReceivedInOrder
    InFlightOK
PROPERTY FifoSpec
