SPECIFICATION Spec
CONSTANTS
    Threads = {t1, t2, t3}
    Nodes = {n1, n2, n3}
    NULL = NULL
    SHOULD_BE_ON_FREELIST = 8
SYMMETRY Symmetry
INVARIANTS NothingLost
PROPERTIES PoolSpec
