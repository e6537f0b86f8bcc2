SPECIFICATION FairSpec
CONSTANTS
    f1 = f1
    f2 = f2
    b1 = b1
    b2 = b2
    b3 = b3
    NULL = NULL
    FlowIds <- MCFlowIds
    Blocks <- MCBlocks
    user_id = 0
    priority = 50
    OnTimes = {1}
    ModTimes = {2}
    OffTimes = {1, 3}
    Starts <- MCStarts
    localtime <- MClocaltime
    CbrTraffic <- MCCbrTraffic
    TraceFiles <- MCTraceFiles
    Base = 2
    Digits = 2
    PMINSIZE = 1
    PMAXSIZE = 2
    MaxLines = 5
    MaxFaults = 1
    MaxTime = 3
CHECK_DEADLOCK FALSE
INVARIANTS FlowsInOrder SequenceGoesOn Released NothingDangling
PROPERTIES InTurn Terminates
