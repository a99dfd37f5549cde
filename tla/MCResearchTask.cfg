SPECIFICATION Spec
CONSTANTS
    MaxDelegations = 2
    MaxDepth = 2
    MaxCalls = 3
    Grants = {4}
    Estimates = {1}
    Costs = {2}
    Charges = {0}
    Turns <- MCTurns
    MaxFixes = 1
    Adjustments <- MCAdjustments
    MaxPauses = 1
    MaxContinues = 1
INVARIANTS TaskInv PausedIsQuiet CreditsAccounted
PROPERTY PastStaysPast
CHECK_DEADLOCK FALSE
