SPECIFICATION FairSpec
CONSTANTS
    Modes = {"custom", "cbr", "poisson"}
    batch_size = 2
    Capacity = 2
    Sizes = {1, 2}
    Gaps = {0, 2}
    target = 1
    Restart = 1
    Start = 2
    MaxPackets = 3
    MaxTime = 4
CHECK_DEADLOCK FALSE
INVARIANTS CatchUpBounded
PROPERTIES StopObeyed EventuallySent
