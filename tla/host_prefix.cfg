SPECIFICATION Spec
CONSTANTS
    Commands = {c}
    Silent = {}
    Targets = {1, 2}
    None = None
    MaxRevision = 3
    MaxRequests = 4
    MaxCrashes = 1
INVARIANT RecoveryAgrees
CHECK_DEADLOCK FALSE
