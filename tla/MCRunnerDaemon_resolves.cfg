\* A running execution whose JOB_ACCEPTED could not be sent.
SPECIFICATION FairSpec
CONSTANTS
    Exec = {e1}
    NoExec = NoExec
    MaxInbox = 1
    MaxCrashes = 0
    MaxFaults = 0
PROPERTIES RunningExecutionResolves
