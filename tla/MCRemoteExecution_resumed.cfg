SPECIFICATION Spec
CONSTANTS
    MaxExec = 2
    Requests = {"pause"}
    MaxWire = 1
    MaxFaults = 1
    MaxEarly = 0
CHECK_DEADLOCK FALSE
INVARIANT OneCodexAfterResume
