\* A stop while a checkpoint is summarized, and a continue.
SPECIFICATION Spec
CONSTANTS
    MaxDelegations = 2
    MaxDepth = 2
    MaxCalls = 2
    Grants = {4}
    Estimates = {1}
    Costs = {2}
    Charges = {0}
    Turns <- MCFewTurns
    MaxFixes = 0
    Adjustments <- MCAdjustments
    MaxPauses = 0
    MaxContinues = 1
INVARIANT LeavesAreOfThisRound
CHECK_DEADLOCK FALSE
