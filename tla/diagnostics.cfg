SPECIFICATION DiagnosticSpec
CONSTANTS
    Owners = {a, b}
    NoOne = NoOne
    Stored = a
    Reports = {1}
    Heartbeats = {}
    Errors = {2}
    Refused = {2}
    MaxRecords = 2
    MaxKept = 2
    BatchSize = 1
    MaxBindings = 2
    MaxSessions = 1
    MaxTrouble = 2
    MaxEvents = 3
CHECK_DEADLOCK FALSE
INVARIANTS
    NothingVanishes
    ReachesItsOwnAccount
PROPERTIES
    EventuallySent
