CONSTANTS
    Threads = {1, 2}
    MaxQueue = 1
    ShortCycle = 2
    LongCycle = 3
    IdleCycle = 3
    ActiveTime = 1
    BuildDelay = 2
    ContTimer = 2
    ShortTimer = 1
    LongTimer = 1
    MaxAge = 5
    Staggered = FALSE
    Prompt = TRUE
SPECIFICATION Spec
 
PROPERTIES WokenByPacket  Stops
