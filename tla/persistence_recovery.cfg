SPECIFICATION PersistenceSpec
CONSTANTS
    w1 = w1
    Waiters = {w1}
    MaxVersion = 3
    MaxJobs = 5
    MaxCrashes = 0
    Recoverers = {"app"}
CHECK_DEADLOCK FALSE
INVARIANTS
    RecoveredIsLatest
