SPECIFICATION BalanceSpec
CONSTANTS
    UnreliableWeight = 1
    ReliableWeight = 2
    BurstSize = 4
    WeightMax = 2
    DataSizeMax = 3
    BurstSizeMax = 4
    CounterMod = 16
    Sizes = {0, 1, 3}
INVARIANTS
    CountersOK
    NoStarvation
    Balanced
