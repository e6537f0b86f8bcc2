SPECIFICATION FairSpec
CONSTANTS
    WorkerCores = 2
    Boot = 2
    MaxTsc = 4
    W <- MCW
    MaxSignals = 2
    NULL = NULL
    MaxPackets = 2
    Slots = 1
    MS_THRESH = 0
    Skew = 1
    DrainTime = 1
    RunTime = 1
    PrintDelay = 2
    MaxFailures = 1
    Scale = 2
CHECK_DEADLOCK FALSE
  
PROPERTIES Finishes
