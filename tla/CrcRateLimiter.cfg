CONSTANTS
    UData = {0, 1, 2, 9, 12, 17}
    MaxPkts = 2
    MaxCalls = 2
    MinPktSize = 3
    MaxFrame = 8
    SplitLimit = 11
    BUF_SIZE = 3
    Overhead = 2
    Extra = 1
    MaxDelay = 13
    W = 16
SPECIFICATION Spec
CHECK_DEADLOCK FALSE
INVARIANTS NeverSlower HardlyFaster
PROPERTIES Returns
