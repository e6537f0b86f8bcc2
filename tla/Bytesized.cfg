CONSTANTS
    Mbufs = {m1, m2, m3, m4, m5}
    Capacity = 8
    MinFrame = 2
    BS_RING_SIZE_LIMIT = 5
    PktLens = {2, 3}
    MaxBatch = 3
    Ops = {"bulk", "burst", "one"}
    MaxRetries = 1
    W = 64
SPECIFICATION Spec
CHECK_DEADLOCK FALSE
SYMMETRY MbufSymmetry
INVARIANTS WithinBytes CounterExact OneOwner
PROPERTIES DropsJustified
