SPECIFICATION Spec
CONSTANTS
    None = None
    Nothing = Nothing
    Garbled = Garbled
    p1 = p1
    a1 = a1
    a2 = a2
    s1 = s1

    Seats = {"s1", "s2"}
    Controllers = {"x"}
    MaxRevision = 2
    Sources = {"a", "b"}
    Subjects = {"s"}
    MaxSerial = 5
    MaxAsked = 2
    Emergencies = {2}
    MaxCues = 3
    MaxRetained = 2
    MaxOverlap = 2
    MaxSends = 2
    Commands = {"c1", "c2", "c3"}
    Explicit = {"c2"}
    Ending = {"c2"}
    MaxWindow = 1
    MaxAttempts = 2
    MaxCalls = 2
    MaxReopened = 1
    Slots = {1, 2}
    MaxTicks = 2
    MaxMade = 7

    Invocations = {1}
    People = {"p", "q"}
    Parents = {{"q"}}
    Visibilities = {{"p"}, {"p", "q"}}
    Audiences = {{"p"}, {"q"}}
    BoundSeats = {"s"}
    MaxVersions = 3
    MaxEvents = 2
    Watchers = {"w1", "w2"}
    Revisions = {1, 2}
    MaxRaises = 2
    MaxEntries = 3
    MaxAsks = 5
    Rungs = 2
    Fragments <- Texts
    MaxLength = 6
    MaxFragments = 2
    Calls = {1, 2, 3}
    InputOf <- TurnInputs
    ChannelOf <- TurnChannels
    Addressed <- TurnAgents
    Speakers = {"a"}
    Sees = {"a", "b"}
    PhaseAgents <- PhaseLeads
    Fallback = "a"
    Phases = {"p"}
    MaxUtterances = 1
    MaxRestarts = 1
    MaxSettings = 1
    Participants = {p1}
    Agents = {a1, a2}
    Services = {s1}
    Outsider = out
    VisibilityOf <- Visibility
    GrantsOf <- Grants
    Drafts <- DraftSet
    Roots = {p1}
    Leaving = {a2}
    Channels = {"c"}
    CallIds = {"k"}
    MaxHops = 2
    MaxRoots = 2
    MaxEnvelopes = 3
INVARIANTS
    TypeOK
    ControlHolds
    EffectsOnce
    StaysPrivate
    DeliveredOnce
    ReplaysVerify
    EpisodesReplay
    MechanismsHold
PROPERTIES
    AuthorityHolds
    StopsWhenTold
    WorkEnds
CHECK_DEADLOCK FALSE
