SPECIFICATION FairSchedulerSpec
CONSTANTS
    MaxWork = 2
    MaxEvents = 8
    MaxDoublings = 2
    Abandons = FALSE
CHECK_DEADLOCK FALSE
INVARIANTS
    ArmedOnlyWhileAllowed
PROPERTIES
    PendingWorkIsRetried
