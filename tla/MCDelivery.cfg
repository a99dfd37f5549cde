SPECIFICATION Spec
CONSTANTS
    Reports = {1}
    Rounds = {1, 2}
    ClaimLimit = 2
    MaxStops = 1
    MaxFaults = 1
INVARIANTS NothingTwice RowsInv
PROPERTIES KeepsPromise ReportsArrive RemindersCome
CHECK_DEADLOCK FALSE
