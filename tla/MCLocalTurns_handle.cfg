SPECIFICATION Spec
CONSTANTS
    MaxTask = 2
    MaxCodex = 2
    MaxStops = 0
    MaxFailures = 0
    Windows = {"handle"}
CHECK_DEADLOCK FALSE
INVARIANTS TerminalMeansStopped
