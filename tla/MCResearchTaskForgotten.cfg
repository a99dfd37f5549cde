\* The same pause, and the end of the procedures it missed.
SPECIFICATION Spec
CONSTANTS
    MaxDelegations = 2
    MaxDepth = 2
    MaxCalls = 2
    Grants = {4}
    Estimates = {1}
    Costs = {2}
    Charges = {0}
    Turns <- MCFewTurns
    MaxFixes = 0
    Adjustments <- MCAdjustments
    MaxPauses = 1
    MaxContinues = 0
INVARIANT EveryLeafHasWork
CHECK_DEADLOCK FALSE
