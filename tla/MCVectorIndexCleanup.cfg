SPECIFICATION Spec
CONSTANTS
    Lessons = {"l1", "l2"}
    Archive = {}
    Commands = {"c1"}
    Models = {"m1", "m2"}
    AutoRebuild = TRUE
    MaxChanges = 1
    MaxTroubles = 1
CHECK_DEADLOCK FALSE
PROPERTY FailureKeepsActive
