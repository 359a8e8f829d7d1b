SPECIFICATION FairSpec
CONSTANTS
    MaxJob = 3
    Owner = {o1, o2}
    Ownership <- OneOrTwo
    Session = {s1, s2, s3}
    Request = {u1}
    Tick = tick
    MaxCrashes = 1
    MaxRequests = 1
    MaxStale = 0
CHECK_DEADLOCK FALSE
INVARIANTS TypeOK PlacesDistinct OneOpenSession RunsInSession
PROPERTIES QueueOrder QueueDrains
