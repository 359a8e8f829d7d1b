SPECIFICATION Spec
CONSTANTS
    Job = {j1, j2}
    Session = {s1, s2}
    Host = {local, remote}
    Local = local
    Handler = {u1}
    Scheduler = scheduler
    AutoHost = AutoHost
    NoJob = NoJob
    NoHost = NoHost
    Requestable = {AutoHost}
    Suspension = {"WAITING_HUMAN", "WAITING_QUOTA"}
    MaxCrashes = 1
    MaxOvertakes = 0
SYMMETRY Symmetry
CHECK_DEADLOCK FALSE
INVARIANTS TypeOK LeaseHeldSinceStart WaitingOwnsNothing NoLeakedLease
