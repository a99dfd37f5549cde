\* One turn of which one edge is accepted and the other finds no agent.
SPECIFICATION Spec
CONSTANTS
    MaxDelegations = 2
    MaxDepth = 2
    MaxCalls = 2
    Grants = {4}
    Estimates = {1}
    Costs = {2}
    Charges = {0}
    Turns <- MCFewTurns
    MaxFixes = 0
    Adjustments <- MCAdjustments
    MaxPauses = 0
    MaxContinues = 0
PROPERTY RejectedEdgeEndsAlone
CHECK_DEADLOCK FALSE
