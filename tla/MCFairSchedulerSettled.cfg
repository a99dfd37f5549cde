SPECIFICATION Spec
CONSTANTS
    Tasks = {"wide", "thin"}
    NoTask = NoTask
    Effects <- MCEffects
    Reusable = {}
    Pausable = {"wide", "thin"}
    Generations = {}
    LimitChoices <- MCLimitChoices
    InitialLimits <- MCInitialLimits
INVARIANT SettledStaysQuiet
CHECK_DEADLOCK FALSE
