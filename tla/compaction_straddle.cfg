CONSTANTS
    Seats = {s1}
    Ids = {a, b}
    Slots = {p1}
    None = None
    ReceiptRetention = 0
    StraddlingCompaction = TRUE
    MaxRevision = 5
    MaxCheckpoints = 2
SPECIFICATION Spec
INVARIANT CheckpointRestorable
