SPECIFICATION FairSpec
CONSTANTS
    Projects <- AllProjects
    MaxTurns = 2
    MaxStops = 2
    MaxLosses = 2
CHECK_DEADLOCK FALSE
INVARIANTS TypeOK ClaimedOnce CompletedMeansHandedOff CompletedMeansTested
INVARIANTS ActiveJobIsDriven CancelWaitsForTask
PROPERTIES RefusedIsNotHandedOff ClosingEnds
