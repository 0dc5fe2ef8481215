------------------------------ MODULE MCLayers ------------------------------
(***************************************************************************)
(* The components around the session kernel, each checked on a small       *)
(* instance.  One run checks them all: a behaviour begins by choosing a    *)
(* scene, the component that acts in it.  The layers of the session and of *)
(* the room are those of Layers; the variables v1, v2, ... stand for those *)
(* of one of the other components.  The components of different scenes do  *)
(* not interact; what one of them asks of another is in its own module.    *)
(***************************************************************************)
EXTENDS Layers, Integers, TLC

CONSTANTS Garbled, p1, a1, a2, s1

VARIABLES scene, v1, v2, v3, v4, v5, v6, v7, v8, v9, v10
places == <<v1, v2, v3, v4, v5, v6, v7, v8, v9, v10>>
vars == <<scene, places, sessionVars, roomVars>>

\* The variables from the k-th on that a component has no use for.
Idle10 == v10 = 0
Idle9 == v9 = 0 /\ Idle10
Idle8 == v8 = 0 /\ Idle9
Idle7 == v7 = 0 /\ Idle8
Idle6 == v6 = 0 /\ Idle7
Idle5 == v5 = 0 /\ Idle6
Idle4 == v4 = 0 /\ Idle5
Idle3 == v3 = 0 /\ Idle4
Idle1 == v1 = 0 /\ v2 = 0 /\ Idle3

Kept10 == UNCHANGED v10
Kept9 == UNCHANGED v9 /\ Kept10
Kept8 == UNCHANGED v8 /\ Kept9
Kept7 == UNCHANGED v7 /\ Kept8
Kept6 == UNCHANGED v6 /\ Kept7
Kept5 == UNCHANGED v5 /\ Kept6
Kept4 == UNCHANGED v4 /\ Kept5
Kept3 == UNCHANGED v3 /\ Kept4

-----------------------------------------------------------------------------
\* The layers of the room.

Room == {p1, Outsider}
Visibility == a1 :> Room @@ a2 :> {p1}
Grants == [a \in {a1, a2} |-> {s1}]
Draft(targets, disc, call) == [targets |-> targets, disc |-> disc, call |-> call]
DraftSet ==
    {Draft(<<a1>>, Room, Nothing), Draft(<<a2, p1>>, {p1}, Nothing),
     Draft(<<s1>>, Room, <<"k", s1>>), Draft(<<s1>>, {p1}, <<"k", s1>>)}

Texts == {<<"a">>, <<"a", "b">>, <<"b">>, <<"b", "a", "b">>, <<"a", "b", "a", "b", "b", "a", "a">>}

TurnInputs == <<"i", "j", "i">>
TurnChannels == <<"x", "x", "x">>
TurnAgents == <<<<>>, <<>>, <<>>>>
PhaseLeads == [p |-> "b"]

-----------------------------------------------------------------------------
\* The instances of the other scenes.

Seen(kind, seats) == [kind |-> kind, seats |-> seats, of |-> "a"]
TeamList == <<[id |-> "t", seats |-> {"a", "b"}], [id |-> "u", seats |-> {"d"}]>>
PartitionPolicies ==
    {[identity |-> x[1], order |-> Seen("seats", {"b", "c"}), cells |-> {1}, mode |-> x[2]] :
        x \in {<<Seen("seats", {"a", "c"}), "absent">>, <<Seen("team", {}), "shell">>}}

Part(mode, seats) == [mode |-> mode, seats |-> seats]
Sittings == <<Part("simultaneous", <<"b", "a">>), Part("sequential", <<"a">>),
              Part("sequential", <<"b">>), Part("simultaneous", <<"a", "b">>)>>
RunnerPolicies ==
    [pacing : {"paced", "unpaced"}, conversation : {"fresh-per-episode", "continuous"},
     finalize : {"caller", "automatic"}]

Offer(id, choices, truncated) ==
    [id |-> id, params |-> IF choices = <<>> THEN "none" ELSE "targets",
     choices |-> choices, truncated |-> truncated]
Whole == <<Offer("a", <<>>, FALSE), Offer("b", <<1>>, FALSE)>>
Short == <<Offer("a", <<>>, FALSE), Offer("b", <<1>>, TRUE)>>
Leads(x, y) == <<"a", 0>> :> x @@ <<"b", 1>> :> y
SmallLevels ==
    {[play |-> [p |-> Leads(x[1], x[2]), q |-> Leads(x[3], x[4]), r |-> Leads(x[5], "p")],
      deadline |-> x[6], views |-> [p |-> Whole, q |-> Whole, r |-> x[7]]] :
        x \in {"p", "q", "r", "bad"} \X {"q", "r", "lost"} \X {"p", "r", "won"}
              \X {"q", "r", "won"} \X {"q", "won"} \X {2, 9} \X {Whole, Short}}
SolverLimits == {[actions |-> 3, nodes |-> 9], [actions |-> 2, nodes |-> 9],
                 [actions |-> 3, nodes |-> 2]}

ZoneOf(access, order, capacity, slots, identity, ordering) ==
    [access |-> access, order |-> order, capacity |-> capacity, slots |-> slots,
     identity |-> identity, ordering |-> ordering]
ZoneConfigs ==
    [deck |-> ZoneOf("lifo", "ordered", 3, {}, {}, {}),
     hand |-> ZoneOf("anyIndex", "bag", 2, {}, {"a"}, {"a"}),
     line |-> ZoneOf("fifo", "ordered", 3, {}, {"a", "b"}, {"a", "b"}),
     row  |-> ZoneOf("slots", "ordered", 2, {1, 2}, {"a", "b"}, {"b"})]
FirstZones == [deck |-> <<"x", "y", "z">>, hand |-> <<>>, line |-> <<>>, row |-> <<None, None>>]

Bounds(first, max) == [initial |-> first, min |-> 0, max |-> max]
Balances == [gold |-> Bounds(2, 3), wood |-> Bounds(0, 2)]
Change(id, delta) == [id |-> id, delta |-> delta]
Spending(resources, priority, needs, effects) ==
    [resources |-> resources, priority |-> priority, needs |-> needs, effects |-> effects]
Spendings ==
    [buy  |-> Spending({"gold", "wood"}, 1, <<[id |-> "gold", amount |-> 2]>>,
                       <<Change("gold", -2), Change("wood", 1)>>),
     earn |-> Spending({"gold"}, 0, <<>>, <<Change("gold", 1)>>),
     burn |-> Spending({"wood"}, 0, <<>>, <<Change("wood", -1)>>),
     swap |-> Spending({"gold", "wood"}, 0, <<>>, <<Change("wood", -1), Change("gold", 1)>>)]

JobKinds == <<[priority |-> 1, policy |-> "repeat"], [priority |-> 0, policy |-> "coalesce"],
              [priority |-> 1, policy |-> "once"]>>
StatusDurations ==
    [kind : {"until-phase-end"}, phase : {None, "play"}, remaining : {1}]
    \cup [kind : {"rounds"}, phase : {None}, remaining : {1, 2}]
    \cup [kind : {"counters"}, phase : {None}, remaining : {2}]

Edge(from, to, priority, both) == [from |-> from, to |-> to, priority |-> priority, both |-> both]
PortalEdges == <<Edge("a", "b", 0, FALSE), Edge("a", "h", 0, FALSE), Edge("b", "h", 1, TRUE),
                 Edge("b", "c", 0, FALSE)>>
PortalCells == [x |-> [p \in {"a", "b", "c", "h"} |-> {p}],
                y |-> [p \in {"a", "b", "c", "h"} |-> {"a", "b"}]]
PortalRoom == [p \in {"a", "b", "c", "h"} |-> 1]
Entrant(id, at, edge, group, wave, priority) ==
    [id |-> id, at |-> at, edge |-> edge, group |-> group, wave |-> wave, priority |-> priority]
PortalWorlds ==
    [entrants : {<<Entrant("x", "a", e, "g", 1, 1), Entrant(id, at, None, g, w, 0)>> :
                    e \in {None, 2}, id \in {"x", "y"}, at \in {"a", "b"}, g \in {"g", "k"},
                    w \in {1, 2}},
     active : {{1, 2}, {1, 2, 4}, {1, 3}}, denied : {{}, {<<"y", 3>>, <<"x", 4>>}},
     closed : {{}, {"h"}}, invalid : {{}, {"c"}}, mode : {"all-fail", "priority"}, passes : {1, 3}]

Single == [i \in 1..3 |-> [c \in 1..4 |-> {c}]]
Wide == [i \in 1..3 |-> [c \in 1..4 |-> IF i = 3 THEN {c, c + 1} ELSE {c}]]
MoveIntents ==
    [from : {<<1, 2, 3>>}, to : [1..3 -> 1..4], priority : {<<0, 0, 0>>, <<1, 0, 1>>},
     swapOk : {<<{2}, {}, {}>>, <<{}, {}, {}>>}, occupies : {Single, Wide},
     blocked : {{}, {4}, {5}}]

-----------------------------------------------------------------------------
\* The scenes of the layers.

InSession == UNCHANGED <<scene, places, roomVars>>
InRoom == UNCHANGED <<scene, places, sessionVars>>

SeatsStep == scene = "seats" /\ SeatLedgerStep /\ InSession
SourcesStep == scene = "sources" /\ RegistrarStep /\ InSession
CueStep == scene = "cues" /\ CuesStep /\ InSession /\ (sends[1] + sends[2] + sends[3])' <= 4
CommandStep == scene = "client" /\ ClientStep /\ InSession
DraftStep == scene = "forks" /\ ForksStep /\ InSession
AgentStep == scene = "registry" /\ RegistryStep /\ InRoom
ReportStep == scene = "watchers" /\ WatchStep /\ InRoom
StreamStep == scene = "streams" /\ StreamsStep /\ InRoom
RungStep == scene = "ladder" /\ LadderStep /\ InRoom
TurnStep == scene = "turns" /\ TurnsStep /\ InRoom
EnvelopeStep == scene = "exchange" /\ ExchangeStep /\ InRoom
Layered == {"seats", "sources", "cues", "client", "forks",
            "registry", "watchers", "streams", "ladder", "turns", "exchange"}
LayerStarts == scene \in Layered /\ Idle1

\* A layer that does not act in the scene starts in one of its ways.
OneStart ==
    /\ scene # "seats" => \A s \in Seats : history[s] = <<SeatLedger!Genesis(None)>>
    /\ scene # "ladder" => ~aborted

-----------------------------------------------------------------------------
\* The other scenes.

Aside == UNCHANGED <<scene, sessionVars, roomVars>>

Vote == INSTANCE RoomVote WITH
    tieBreak <- v1, casts <- v2, counts <- v3, refused <- v4,
    Options <- <<"x", "y", "z">>, TieBreaks <- {<<"z", "x", "y">>, <<"x", "y", "z">>},
    Eligible <- {"a", "b", "c"}, Voters <- {"a", "b", "c", "d"},
    Choosable <- {"x", "y", "z", "w"}, MaxCasts <- 3
VoteStarts == scene = "vote" /\ Vote!Init /\ Idle5
VoteStep == scene = "vote" /\ Vote!Next /\ Kept5 /\ Aside

Views == INSTANCE SeatViews WITH
    policy <- v1, full <- v2, twin <- v3, ranking <- v4,
    Seats <- {"a", "b", "c"}, Teams <- TeamList, Policies <- PartitionPolicies, Entries <- {1, 2},
    Slots <- {"l", "r"}, Cells <- {1, 2, 3}, Ranks <- {1, 2}, MaxZone <- 2, Entities <- {1, 2},
    Boards <- {<<1, 3>>, <<2, 3>>}
ViewsStarts == scene = "views" /\ Views!Init /\ Idle5
ViewsStep == scene = "views" /\ Views!Next /\ Kept5 /\ Aside

Replay == INSTANCE ReplayRecords WITH
    records <- v1, chain <- v2, live <- v3,
    Seats <- <<"s1", "s2">>, Habits <- [s1 |-> {TRUE}, s2 |-> {FALSE}], SignEvery <- 1, WindowTicks <- 2,
    LevelTicks <- 2, MaxLevels <- 2, MaxRecords <- 4, 
    Perm <- [A |-> "commit", B |-> "reveal", C |-> "play"], Controls <- {"pass"}, Careful <- TRUE
ReplayStarts == scene = "replay" /\ Replay!Init /\ Idle4
ReplayStep == scene = "replay" /\ Replay!Next /\ Kept4 /\ Aside

Episode == INSTANCE AgentEnvironment WITH
    env <- v1, error <- v2, lost <- v3, resets <- v4,
    Levels <- {"plain", "over"}, Over <- {"over"}, Seeds <- {1, 2}, Moves <- {"go", "win", "no"}, 
    Winning <- {"win"}, SystemMoves <- {"pause"}, Seat <- "s1", Seats <- {"s1", "s2"},
    MaxTicks <- 3, RewardLost <- {"no"}, MaxResets <- 2
EpisodeStarts == scene = "episode" /\ Episode!Init /\ Idle5
EpisodeStep == scene = "episode" /\ Episode!Next /\ Kept5 /\ Aside

Table == INSTANCE MultiAgentEnvironment WITH
    env <- v1, asked <- v2, answers <- v3, phase <- v4, resets <- v5,
    Levels <- {"open", "decided"}, Decided <- {"decided"},
    SeatOrder <- <<"a", "b">>, Sitting <- Sittings, Moves <- {"go", "no", "win"}, Winning <- {"win"},
    Wait <- "wait", Policies <- {"a", "b"}, MaxTicks <- 3, RewardLost <- {"no"}, MaxResets <- 2
TableStarts == scene = "table" /\ Table!Init /\ Idle6
TableStep == scene = "table" /\ Table!Next /\ Kept6 /\ Aside

Runner == INSTANCE AgentRunner WITH
    policy <- v1, pc <- v2, observed <- v3, current <- v4, prior <- v5, shown <- v6,
    pending <- v7, failure <- v8, talk <- v9, decisions <- v10,
    Episodes <- {1, 2}, Policies <- RunnerPolicies, MaxPending <- 2, MaxObservations <- 3
RunnerStarts == scene = "runner" /\ Runner!Init
RunnerStep == scene = "runner" /\ Runner!Next /\ Aside

Driver == INSTANCE KeyedDriver WITH
    history <- v1, active <- v2, acts <- v3, sent <- v4, resetAt <- v5,
    Sizes <- {1, 2, 6}, SystemSize <- 1, MaxTurns <- 2, MaxBytes <- 6, MaxRetries <- 1, MaxActs <- 3
DriverStarts == scene = "driver" /\ Driver!Init /\ Idle6
DriverStep == scene = "driver" /\ Driver!Next /\ Kept6 /\ Aside

Shown == INSTANCE PresentationViews WITH
    client <- v1, checked <- v2, received <- v3,
    Revisions <- {1, 2, 3}, Broken <- {3}, Submissions <- {"m"}, MaxReceived <- 4
ShownStarts == scene = "shown" /\ Shown!Init /\ Idle4
ShownStep == scene = "shown" /\ Shown!Next /\ Kept4 /\ Aside

Recheck == INSTANCE TranscriptRecheck WITH
    ticked <- v1, state <- v2, transcript <- v3, header <- v4, fault <- v5,
    Perm <- <<3, 1, 2>>, Winning <- {2}, Controls <- {10}, Deadline <- 4, Bases <- {0, 1}
RecheckStarts == scene = "recheck" /\ Recheck!Init /\ Idle6
RecheckStep == scene = "recheck" /\ Recheck!Next /\ Kept6 /\ Aside

Solver == INSTANCE LevelSolver WITH
    level <- v1, limit <- v2, frontier <- v3, todo <- v4, next <- v5, seen <- v6,
    explored <- v7, depth <- v8, result <- v9,
    Levels <- SmallLevels, Limits <- SolverLimits, Start <- "p"
SolverStarts == scene = "solver" /\ Solver!Init /\ Idle10
SolverStep == scene = "solver" /\ Solver!Next /\ Kept10 /\ Aside

Piles == INSTANCE ZoneMoves WITH
    zones <- v1, version <- v2, plans <- v3, drawn <- v4,
    Configs <- ZoneConfigs, First <- FirstZones, Entries <- {"x", "y", "z"}, Seats <- {"a", "b"},
    MaxVersion <- 2, MaxPlans <- 1, MaxDeal <- 1
PilesStarts == scene = "zones" /\ Piles!Init /\ Idle5
PilesStep == scene = "zones" /\ Piles!Next /\ Kept5 /\ Aside

Ledger == INSTANCE ResourceLedger WITH
    balances <- v1, plans <- v2, ledger <- v3, turns <- v4,
    Definitions <- Balances, Actions <- Spendings, Modes <- {"all-fail", "priority"}, MaxTurns <- 3
LedgerStarts == scene = "resources" /\ Ledger!Init /\ Idle5
LedgerStep == scene = "resources" /\ Ledger!Next /\ Kept5 /\ Aside

Response == INSTANCE ResponseWindow WITH
    window <- v1, resolved <- v2,
    SeatOrder <- <<"a", "b">>, Responses <- {"r"}, MaxEntries <- 5, MaxPending <- 1
ResponseStarts == scene = "response" /\ Response!Init /\ Idle3
ResponseStep == scene = "response" /\ Response!Next /\ Kept3 /\ Aside

Cascade == INSTANCE SettlementCascade WITH
    current <- v1, next <- v2, waiting <- v3, once <- v4, trace <- v5, deferred <- v6,
    sequence <- v7, outcome <- v8,
    Jobs <- JobKinds, MaxSteps <- 2, MaxEnqueue <- 2
CascadeStarts == scene = "cascade" /\ Cascade!Init /\ Idle9
CascadeStep == scene = "cascade" /\ Cascade!Next /\ Kept9 /\ Aside

Clock == INSTANCE PhaseClock WITH
    phase <- v1, active <- v2, expired <- v3, due <- v4, owed <- v5,
    Phases <- <<"draw", "play">>, Durations <- StatusDurations, Statuses <- {1, 2}, MaxCycles <- 3
ClockStarts == scene = "phases" /\ Clock!Init /\ Idle6
ClockStep == scene = "phases" /\ Clock!Next /\ Kept6 /\ Aside

Lockstep == INSTANCE LockstepInputs WITH
    reducer <- v1, sent <- v2, got <- v3, snapshots <- v4,
    SeatOrder <- <<"a", "b">>, Moves <- {"m"}, Peers <- {"p", "q"}, Reducers <- {"advance", "legacy"},
    MaxTick <- 1, MaxSent <- 2
LockstepStarts == scene = "lockstep" /\ Lockstep!Init /\ Idle5
LockstepStep == scene = "lockstep" /\ Lockstep!Next /\ Kept5 /\ Aside

Portals == INSTANCE PortalTransits WITH
    world <- v1, stage <- v2, paths <- v3, rejected <- v4, transits <- v5, changes <- v6,
    entities <- v7,
    Edges <- PortalEdges, Zones <- {"h"}, Occupies <- PortalCells, Capacity <- PortalRoom,
    Worlds <- PortalWorlds, MaxChanges <- 1
PortalsStarts == scene = "portals" /\ Portals!Init /\ Idle8
PortalsStep == scene = "portals" /\ Portals!Next /\ Kept8 /\ Aside

Crowd == INSTANCE KeyedMoves WITH
    intent <- v1, moving <- v2, settled <- v3,
    Ids <- 1..3, Cells <- 1..4, Intents <- MoveIntents
CrowdStarts == scene = "moves" /\ Crowd!Init /\ Idle4
CrowdStep == scene = "moves" /\ Crowd!Next /\ Kept4 /\ Aside

Init ==
    /\ \/ LayerStarts
       \/ VoteStarts
       \/ ViewsStarts
       \/ ReplayStarts
       \/ EpisodeStarts
       \/ TableStarts
       \/ RunnerStarts
       \/ DriverStarts
       \/ ShownStarts
       \/ RecheckStarts
       \/ SolverStarts
       \/ PilesStarts
       \/ LedgerStarts
       \/ ResponseStarts
       \/ CascadeStarts
       \/ ClockStarts
       \/ LockstepStarts
       \/ PortalsStarts
       \/ CrowdStarts
    /\ SessionInit /\ RoomInit /\ OneStart
Next ==
    \/ SeatsStep
    \/ SourcesStep
    \/ CueStep
    \/ CommandStep
    \/ DraftStep
    \/ AgentStep
    \/ ReportStep
    \/ StreamStep
    \/ RungStep
    \/ TurnStep
    \/ EnvelopeStep
    \/ VoteStep
    \/ ViewsStep
    \/ ReplayStep
    \/ EpisodeStep
    \/ TableStep
    \/ RunnerStep
    \/ DriverStep
    \/ ShownStep
    \/ RecheckStep
    \/ SolverStep
    \/ PilesStep
    \/ LedgerStep
    \/ ResponseStep
    \/ CascadeStep
    \/ ClockStep
    \/ LockstepStep
    \/ PortalsStep
    \/ CrowdStep

\* The components' fairness: handlers return, policies answer or fail, a run that is over
\* closes its stream, so that some work goes on while there is any.
TableWorks ==
    \/ Table!Begin \/ Table!Resolve
    \/ \E seat \in {"a", "b"} : \/ Table!PolicyFails(seat)
                              \/ \E m \in {"go", "no", "win", None} : Table!Answer(seat, m)
Works ==
    \/ Exchange!Deliver("c") /\ EnvelopeStep
    \/ (Streams!Close \/ Streams!Fail) /\ StreamStep
    \/ scene = "table" /\ TableWorks /\ Kept6 /\ Aside
Spec == Init /\ [][Next]_vars /\ WF_vars(Works)

-----------------------------------------------------------------------------
\* The types, and the properties of the other scenes; Layers states those of its own.

TypeOK ==
    /\ scene \in Layered => SessionTyped /\ RoomTyped
    /\ scene = "vote" => Vote!TypeOK
    /\ scene = "views" => Views!TypeOK
    /\ scene = "replay" => Replay!TypeOK
    /\ scene = "episode" => Episode!TypeOK
    /\ scene = "table" => Table!TypeOK
    /\ scene = "runner" => Runner!TypeOK
    /\ scene = "driver" => Driver!TypeOK
    /\ scene = "shown" => Shown!TypeOK
    /\ scene = "recheck" => Recheck!TypeOK
    /\ scene = "solver" => Solver!TypeOK
    /\ scene = "zones" => Piles!TypeOK
    /\ scene = "resources" => Ledger!TypeOK
    /\ scene = "response" => Response!TypeOK
    /\ scene = "cascade" => Cascade!TypeOK
    /\ scene = "phases" => Clock!TypeOK
    /\ scene = "lockstep" => Lockstep!TypeOK
    /\ scene = "portals" => Portals!TypeOK
    /\ scene = "moves" => Crowd!TypeOK

\* What was begun comes to an end: a lane of envelopes drains, a consumer of a finished
\* run's stream is answered, an episode of policies that answer or fail is over.
Unfinished ==
    \/ scene = "exchange" /\ Exchange!Busy("c")
    \/ scene = "table" /\ v4 = "asking"
    \/ scene = "streams" /\ \E n \in 1..5 : Streams!Owed(n) /\ ~Streams!IsAnswered(n)
WorkEnds == Unfinished ~> ~Unfinished

\* What an honest run leaves verifies, and what verifies as trusted is what the seats
\* signed and the game did.
ReplaysVerify ==
    /\ scene = "replay" => /\ Replay!HonestReplayAccepted /\ Replay!TrustedIsAuthentic
                           /\ Replay!ChainContinues
    /\ scene = "recheck" => Recheck!HonestAccepted /\ Recheck!DamageNoticed

\* An agent's episode is what its record says: the recorded moves give the state again, it
\* ends with the game, batches are whole, observations are presented, conversations do not
\* leak into one another, a view is that of its revision, a solution found is the shortest.
EpisodesReplay ==
    /\ scene = "episode" => Episode!TranscriptReplays /\ Episode!EndsWithGame
    /\ scene = "table" => Table!TranscriptReplays /\ Table!BatchesWhole
    /\ scene = "runner" => Runner!PresentsAll /\ Runner!ConversationFresh
    /\ scene = "driver" => Driver!RunningIsActive /\ Driver!HistoryWhole
    /\ scene = "shown" => Shown!ShowsItsRevision
    /\ scene = "solver" => Solver!ShortestFound

\* The engine's mechanisms keep their accounts: entries, resources, responses, jobs,
\* durations, inputs, ballots, entrants and movers are neither lost nor counted twice; and a
\* seat sees of a partitioned state what it may.
MechanismsHold ==
    /\ scene = "zones" => Piles!EntriesConserved /\ Piles!OrderHidden
    /\ scene = "resources" => Ledger!NothingOverwritten /\ Ledger!ClaimsSettled
    /\ scene = "response" => Response!ClosesAfterAllPass
    /\ scene = "cascade" => Cascade!EachScheduledOnce /\ Cascade!WavesInOrder
    /\ scene = "phases" => Clock!LastsAsGiven
    /\ scene = "lockstep" => Lockstep!PeersAgree /\ Lockstep!SnapshotsAgree
    /\ scene = "portals" => Portals!NobodyLost /\ Portals!PlacesHold /\ Portals!AdviceHolds
    /\ scene = "moves" => Crowd!MovesTogether /\ Crowd!ContestsAreWon
    /\ scene = "vote" => Vote!OneBallotEach
    /\ scene = "views" => Views!TeamsFareAlike /\ Views!SeesWhatItMay
=============================================================================
