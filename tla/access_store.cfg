SPECIFICATION Spec
CONSTANTS
    a = a
    b = b
    r = r
    q = q
    g1 = g1
    g2 = g2
    none = none
    t1 = t1
    t2 = t2
    Accounts = {a, b}
    Routes = {r, q}
    Generations = {g1, g2}
    Legacy = none
    Tokens = {t1, t2}
    Instants = {1, 2}
INVARIANTS
    StoreTypeOK
    TokensFollowAccount
    WorkHasItsAccess
    SessionUnderItsAssignment
