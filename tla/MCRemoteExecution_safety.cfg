SPECIFICATION FairSpec
CONSTANTS
    MaxExec = 2
    Requests = {"cancel", "pause"}
    MaxWire = 1
    MaxFaults = 1
    MaxEarly = 0
CHECK_DEADLOCK FALSE
INVARIANTS TypeOK OneCodexPerTree CancelledMeansStopped
PROPERTIES AckedResultIsSettled WaitingJobRecovers RunnerAsPromised
