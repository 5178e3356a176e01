SPECIFICATION Spec
CONSTANTS
    Mss = 3
    InitialCwndMss = 4
    CwndMax = 60
INVARIANTS
    TypeOK
    CwndOK
    DropcntOK
PROPERTIES
    AckGrowth
    HalvedOncePerWindow
