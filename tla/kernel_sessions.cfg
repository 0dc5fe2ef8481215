SPECIFICATION MCSpec
CONSTANTS
    Seats = {1, 2}
    Ids = {"a", "b"}
    Slots = {p, q}
    Scopes = {"own", "near"}
    OwnScope = "own"
    Ops = {"play", "touch", "commit", "reveal", "forge"}
    None = None
    Participants <- MCParticipants
    Ended <- MCEnded
    SessionOptions <- MCAll
    MaxFutureTicks = 2
    MaxCatchUpTicks = 2
    ReceiptRetention = 1
    MaxOpenCommitments = 1
    CheckpointInterval = 2
    MaxScopesPerSeat = 2
    FreshInteractionIds = TRUE
    MaxRevision = 6
    LastTick = 4
    MaxPlayed = 4
INVARIANTS
    TypeOK
    IntentAccounted
    OneInputPerSeat
    RecoveryFaithful
    CommitmentsOrdered
    ReceiptHonest
PROPERTY HistoryExtends
SYMMETRY SlotSymmetry
