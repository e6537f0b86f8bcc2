SPECIFICATION FairSpec
CONSTANTS
    t1 = t1
    t2 = t2
    t3 = t3
    Threads = {t1, t2, t3}
    hash_thread_id <- MCHash
    INITIAL_IMPLICIT_PRODUCER_HASH_SIZE = 2
    MaxFails = 1
    MaxCalls = 4
    NULL = NULL
CHECK_DEADLOCK FALSE
INVARIANTS OneProducer
PROPERTIES Returns
