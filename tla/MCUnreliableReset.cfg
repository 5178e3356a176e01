SPECIFICATION Spec
CONSTANTS
    IdMod = 3
    FragmentSize = 1
    Byte = {}
    Lengths = {0, 2, 3}
    Timeouts = {0}
    MaxPackets = 2
    MaxSyncs = 1
    MaxTime = 1
INVARIANT NoArtificialLoss
CHECK_DEADLOCK FALSE
