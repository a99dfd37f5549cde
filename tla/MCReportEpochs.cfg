SPECIFICATION Spec
CONSTANTS
    MaxBranches = 3
    MaxTurns = 3
    MaxDeadlines = 1
    MaxFaults = 1
    MaxPauses = 1
    InitialEpochs = {0}
INVARIANTS RoundInv FinalCoversAll
PROPERTIES RoundEnds HeldIsReleased
CHECK_DEADLOCK FALSE
