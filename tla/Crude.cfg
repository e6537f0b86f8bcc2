SPECIFICATION CrudeSpec
CONSTANTS
    Flows = {"f", "g"}
    Others = {"x"}
    Numbers = {0, 1, 2}
    Delays <- ShortDelays
    Second = 10
    Word = 4096
    limit = 3
    MaxPackets = 4
    MaxFails = 1
    LogPackets = {"p", "q"}
    NoData = "none"
CHECK_DEADLOCK FALSE
INVARIANTS LostExact  RoundTrip Reported
