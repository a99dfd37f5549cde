SPECIFICATION Spec
CONSTANTS
    Tasks = {"wide", "thin"}
    NoTask = NoTask
    Effects <- MCFewEffects
    Reusable <- MCReusable
    Pausable = {"wide", "thin"}
    Generations = {0}
    LimitChoices <- MCLimitChoices
    InitialLimits <- MCInitialLimits
INVARIANTS
    Accounts
    NeverOversleeps
PROPERTIES
    StartsOnlyWhatMay
    QueuedIsServed
    CallsReturn
CHECK_DEADLOCK FALSE
