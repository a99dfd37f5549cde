\* Three delegations a turn, a tree of depth two and a budget of three calls, so
\* that every reason to reject an edge is met; up to four edges or leaves.
CONSTANTS
    MaxDelegations = 3
    MaxDepth = 2
    MaxCalls = 3
    MaxEdges = 4
    MaxRequest = 2
    MaxBalance = 3
    Requests <- MCRequests
    Spreads <- MCSpreads
SPECIFICATION PlanningSpec
INVARIANTS CreditsKept FirstThatFit OneWayOn
CHECK_DEADLOCK FALSE
