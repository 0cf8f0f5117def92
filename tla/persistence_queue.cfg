SPECIFICATION FairPersistenceSpec
CONSTANTS
    w1 = w1
    Waiters = {w1}
    Recoverers = {"app"}
    MaxVersion = 3
    MaxJobs = 5
    MaxCrashes = 1
CHECK_DEADLOCK FALSE
INVARIANTS
    ReadyIsSavedOrSaving
PROPERTIES
    IsDurableCell
    WaitsEnd
