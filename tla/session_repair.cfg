SPECIFICATION MCSpec
CONSTANTS
    Seats = {s1}
    Ids = {a, b}
    Slots = {p1}
    None = None
    ReceiptRetention = 0
    StraddlingCompaction = FALSE
    MaxRevision = 5
    MaxCheckpoints = 2
    Submissions = {x, y}
    NoView = NoView
    MaxCatchUp = 1
    MaxTransitions = 3
INVARIANTS
    TypeOK
    IdentitiesPermanent
    NoRejectionOmitted
    RecoveryAnswersAlike
    TranscriptAboveFloor
    PredictionTypeOK
    ViewWasCommitted
    PendingKept
    SettledOnce
PROPERTY NeverBackwards
SYMMETRY RepairSymmetry
