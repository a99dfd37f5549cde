SPECIFICATION Spec
CONSTANTS
    MaxBranches = 2
    MaxTurns = 2
    MaxDeadlines = 1
    MaxFaults = 0
    MaxPauses = 0
    InitialEpochs = {0}
PROPERTY LastLeafFinalizes
CHECK_DEADLOCK FALSE
