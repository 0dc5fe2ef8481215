SPECIFICATION Spec
CONSTANTS
    Seats = {1, 2}
    Ids = {"a"}
    Slots = {"p"}
    Scopes = {"own", "near"}
    OwnScope = "own"
    Ops = {"touch"}
    None = None
    Participants <- MCParticipants
    Ended <- MCEnded
    SessionOptions <- MCSigned
    MaxFutureTicks = 2
    MaxCatchUpTicks = 2
    ReceiptRetention = 1
    MaxOpenCommitments = 1
    CheckpointInterval = 2
    MaxScopesPerSeat = 2
    FreshInteractionIds = FALSE
    MaxRevision = 4
    LastTick = 4
    MaxPlayed = 4
INVARIANT SubmissionIdsPermanent
