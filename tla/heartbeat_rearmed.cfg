SPECIFICATION HeartbeatSpec
CONSTANTS
    Entries = {e1, e2}
    NoAccess = {e1}
    MaxDirect = 1
    MaxTrouble = 2
CHECK_DEADLOCK FALSE
PROPERTIES RearmedAfterBinding
