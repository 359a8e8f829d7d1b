\* Two executions, two crashes or interrupts, two failed writes or terminations.
SPECIFICATION FairSpec
CONSTANTS
    Exec = {e1, e2}
    NoExec = NoExec
    MaxInbox = 2
    MaxCrashes = 2
    MaxFaults = 2
INVARIANTS TypeOK LiveProcessJournaled JournalInv NoOrphanWhileServing ReportedResultIsDurable
PROPERTIES KeepsContract ResultEventuallyDelivered
