\* A pause, a stop and a continue.
SPECIFICATION Spec
CONSTANTS
    MaxDelegations = 2
    MaxDepth = 2
    MaxCalls = 2
    Grants = {4}
    Estimates = {1}
    Costs = {2}
    Charges = {0}
    Turns <- MCFewTurns
    MaxFixes = 0
    Adjustments <- MCAdjustments
    MaxPauses = 1
    MaxContinues = 1
INVARIANT RunningIsNotHeld
CHECK_DEADLOCK FALSE
