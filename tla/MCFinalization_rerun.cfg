SPECIFICATION FairSpec
CONSTANTS
    Projects <- ProjectOS
    MaxTurns = 2
    MaxStops = 1
    MaxLosses = 0
CHECK_DEADLOCK FALSE
PROPERTIES AgentIsNotRerun
