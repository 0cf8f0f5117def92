SPECIFICATION Spec
CONSTANTS
    a = a
    l1 = l1
    l2 = l2
    c = c
    p = p
    n = n
    e = e
    route = route
    g1 = g1
    g2 = g2
    NoOwner = NoOwner
    NoContract = NoContract
    Owners = {a}
    Ids = {l1, l2, c, p, n, e}
    Routes = {route}
    Contracts = {g1, g2}
    KindOf <- MCKindOf
    RouteOf <- MCRouteOf
    ProofsOf <- MCProofsOf
    ProofScope <- MCProofScope
    Generation <- MCGeneration
    MaxItems = 1
    MaxAttempts = 1
CONSTRAINT Bounds
SYMMETRY Samples
CHECK_DEADLOCK FALSE
INVARIANTS
    QuarantineConsistent
    CashReceiptRetained
    CompletionOwesItsProofs
    OverCapacityOnlyWithEvidence
PROPERTIES
    NeverRetriedAfterSettled
    EvidenceEndsByDecision
    DegradedOnlyReopens
