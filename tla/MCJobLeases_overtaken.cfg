SPECIFICATION Spec
CONSTANTS
    Job = {j1}
    Session = {s1}
    Host = {local}
    Local = local
    Handler = {u1, u2}
    Scheduler = scheduler
    AutoHost = AutoHost
    NoJob = NoJob
    NoHost = NoHost
    Requestable = {AutoHost}
    Suspension = {"WAITING_HUMAN"}
    MaxCrashes = 0
    MaxOvertakes = 1
CHECK_DEADLOCK FALSE
PROPERTY CancelIsFinal
