SPECIFICATION Retrying
CONSTANTS
    Commands = {c, d}
    Silent = {d}
    Targets = {2}
    None = None
    MaxRevision = 3
    MaxRequests = 5
    MaxCrashes = 1
INVARIANTS
    TypeOK
    RecoveryAgrees
    CommandsOnce
    AcknowledgedIsDurable
PROPERTIES
    ImplementsLedger
    RequestsSettle
    BatchesDelivered
CHECK_DEADLOCK FALSE
