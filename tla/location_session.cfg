SPECIFICATION LocationSpec
CONSTANTS
    a = a
    b = b
    route = route
    g1 = g1
    g2 = g2
    none = none
    t1 = t1
    t2 = t2
    Accounts = {a, b}
    Routes = {route}
    Generations = {g1, g2}
    Legacy = none
    Tokens = {t1, t2}
    Instants = {1, 2}
    NewestGeneration = g2
    MaxQueued = 0
    MaxMeddling = 1
CHECK_DEADLOCK FALSE
INVARIANTS
    TrackedUntilFinished
    TrackedWhileActive
PROPERTIES
    StoreKeepsItsPromise
    TrackingEnds
