\* A safety error raised while the heartbeat tears the connection down.
SPECIFICATION Spec
CONSTANTS
    Exec = {e1}
    NoExec = NoExec
    MaxInbox = 1
    MaxCrashes = 0
    MaxFaults = 1
PROPERTIES NoReconnectWithUntrackedProcess
