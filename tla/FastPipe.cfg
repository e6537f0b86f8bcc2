SPECIFICATION FairSpec
CONSTANTS
    Pipes <- MCPipes
    MaxItems = 6
    MaxNew = 2
    MaxCounts = 1
CHECK_DEADLOCK FALSE
PROPERTIES  AnswersJustified CountBracketed
