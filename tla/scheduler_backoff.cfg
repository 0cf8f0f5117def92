SPECIFICATION SchedulerSpec
CONSTANTS
    MaxWork = 2
    MaxEvents = 3
    MaxDoublings = 2
    Abandons = FALSE
CHECK_DEADLOCK FALSE
INVARIANTS
    BackoffGrows
