SPECIFICATION FairRetrySpec
CONSTANTS
    a = a
    b = b
    l = l
    s = s
    v = v
    f = f
    c1 = c1
    c2 = c2
    photo = photo
    e = e
    z = z
    route = route
    stop1 = stop1
    stop2 = stop2
    v1 = v1
    v2 = v2
    w = w
    x1 = x1
    x2 = x2
    NoOwner = NoOwner
    NoContract = NoContract
    Owners = {a}
    Ids = {c1, c2, photo}
    Routes = {route}
    Contracts = {v1}
    KindOf <- MCKindOf
    RouteOf <- MCRouteOf
    StopOf <- MCStopOf
    ProofsOf <- MCProofsOf
    ProofScope <- MCProofScope
    Generation <- MCGeneration
    MaxItems = 2
    MaxAttempts = 2
    Senders = {x1}
    Disturbances = {"close", "storage"}
CHECK_DEADLOCK FALSE
INVARIANTS
    CashCollectedOnce
    AckedOnlyIfApplied
PROPERTIES
    NothingPendingForEver
