SPECIFICATION Spec
CONSTANTS
    Consumers = {c1, c2}
    Loads <- MCLoads
    BLOCK_SIZE = 2
    IMPLICIT_INITIAL_INDEX_SIZE = 2
    initialBlockPoolSize = 1
    MaxBlocks = 3
    MaxFails = 1
    W = 32
    NULL = NULL
SYMMETRY Symmetry
CHECK_DEADLOCK FALSE
INVARIANTS ReadsOwn OneOwner ClaimsAddUp
