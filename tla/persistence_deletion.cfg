SPECIFICATION PersistenceSpec
CONSTANTS
    w1 = w1
    Waiters = {w1}
    Recoverers = {"app", "deletion"}
    MaxVersion = 2
    MaxJobs = 3
    MaxCrashes = 0
CHECK_DEADLOCK FALSE
PROPERTIES
    IsDurableCell
