SPECIFICATION Spec
CONSTANTS
    MaxTask = 2
    MaxCodex = 2
    MaxStops = 1
    MaxFailures = 1
    Windows = {}
CHECK_DEADLOCK FALSE
INVARIANTS TypeOK OneCodexInTree TerminalMeansStopped RowLeadsToLiveTurn
INVARIANTS SteeringHasTurnAhead GateCanBeAnswered SuspendedTurnIsStopped CancellationProceeds
