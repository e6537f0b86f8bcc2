CONSTANTS
    Mbufs = {m1, m2, m3, m4, m5, m6}
    RequestedCapacity = 5
    PS_RING_SIZE_LIMIT = 4
    MaxBatch = 3
SPECIFICATION Spec
SYMMETRY MbufSymmetry
INVARIANTS DropOnlyWhenFull OneOwner
PROPERTIES FifoSpec
