SPECIFICATION StoreSpec
CONSTANTS
    e = e
    c = c
    Items = {e, c}
    KindOf <- TheKinds
    LegacyItems = {e}
    Blocked = {}
    Owner = "owner"
    SensitiveLife = 0
    Retention = 1
    MaxTime = 2
    MaxTrouble = 1
PROPERTIES EvidenceStays RecoveryHeals OpensAgain
CHECK_DEADLOCK FALSE
