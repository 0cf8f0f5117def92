SPECIFICATION StoreSpec
CONSTANTS
    e = e
    c = c
    Items = {e}
    KindOf <- TheKinds
    LegacyItems = {e}
    Blocked = {e}
    Owner = "owner"
    SensitiveLife = 0
    Retention = 1
    MaxTime = 1
    MaxTrouble = 0
PROPERTIES RecoveryHeals
CHECK_DEADLOCK FALSE
