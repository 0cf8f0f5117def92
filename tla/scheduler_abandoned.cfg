SPECIFICATION FairSchedulerSpec
CONSTANTS
    MaxWork = 2
    MaxEvents = 4
    MaxDoublings = 2
    Abandons = TRUE
CHECK_DEADLOCK FALSE
PROPERTIES
    PendingWorkIsRetried
