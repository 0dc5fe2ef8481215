------------------------------- MODULE Layers -------------------------------
(***************************************************************************)
(* The layers around a session's kernel and around a room's durable runs.  *)
(* In a session: who controls a seat and its subjects (seat control,       *)
(* control sources), what reaches the people who watch (presentation       *)
(* cues), what a product sends (the session client), and the reducer       *)
(* states the kernel forks and gives back.  In a room: the registration of *)
(* agents and what their drivers hand over, the watchers of the session,   *)
(* the event stream and the progress ladder of a run, the turns of its     *)
(* inputs on the speech floor, and the router of its envelopes.  The       *)
(* layers share no state: a step of the session, or of the room, is a step *)
(* of one of its layers, in any order.                                     *)
(***************************************************************************)
EXTENDS Naturals, Sequences, FiniteSets

-----------------------------------------------------------------------------
\* The session.

CONSTANTS
    Seats, Controllers, MaxRevision,                                    \* seat control
    Sources, Subjects, MaxSerial, MaxAsked,                             \* control sources
    Emergencies, MaxCues, MaxRetained, MaxOverlap, MaxSends,            \* presentation cues
    Commands, Explicit, Ending, MaxWindow, MaxAttempts, MaxCalls, MaxReopened,    \* client
    Slots, MaxTicks, MaxMade,                                           \* reducer states
    None

VARIABLES
    revision, history, prepared,
    source, binding, asked, crossed, serial,
    next, retained, acked, status, last, known, receiving, wire, replies, sends, applied, overlapped,
    window, accepted, over, bound, sequences, handle, finalization, initial, asking, requests,
    responses, reopened,
    live, forked, released, drafts, refused, dropped, owned

SeatLedger == INSTANCE SeatControl
Registrar == INSTANCE ControlSources
Cues == INSTANCE PresentationCues
Client == INSTANCE SessionClient WITH
    log <- accepted, binding <- bound, status <- handle, call <- asking, wire <- requests,
    back <- responses, restarts <- reopened, MaxRestarts <- MaxReopened
Forks == INSTANCE StateForks WITH made <- forked, prepared <- drafts

-----------------------------------------------------------------------------
\* The room.

CONSTANTS
    Invocations, People, Parents, Visibilities, Audiences, BoundSeats,  \* agents
    MaxVersions, MaxEvents,
    Watchers, Revisions, MaxRaises,                                     \* watchers
    MaxEntries, MaxAsks,                                                \* event streams
    Rungs, Fragments, MaxLength, MaxFragments,                          \* progress ladder
    Calls, InputOf, ChannelOf, Addressed, Speakers, Sees, PhaseAgents,  \* turns
    Fallback, Phases, MaxUtterances, MaxRestarts, MaxSettings,
    Participants, Agents, Services, Outsider, VisibilityOf, GrantsOf,   \* router
    Drafts, Roots, Leaving, Channels, CallIds, MaxHops, MaxRoots, MaxEnvelopes,
    Nothing

VARIABLES
    registered, versions, invocations, given,
    watchers, spentIds, reported, batches, returned, joined, raises,
    journal, run, values, waiters, ended, asks, yields,
    job, aborted, climbing, rung, outcome, shown, heard, kept,
    transcript, stored, settings, turns, intake, active, speech, floor, captions, restarts,
    envelopes, handlers, seen, lanes, answering, calls, invoked, answers, delivered, spoken

Registry == INSTANCE AgentRegistry WITH
    call <- invocations, delivered <- given,
    Calls <- Invocations, Participants <- People, Seats <- BoundSeats, None <- Nothing
Watch == INSTANCE RoomWatchers WITH order <- watchers, seen <- reported
Streams == INSTANCE RunStreams WITH answers <- yields
Ladder == INSTANCE ProgressLadder WITH
    work <- job, at <- climbing, out <- shown, spoken <- kept, None <- Nothing
Turns == INSTANCE RoomTurns WITH
    turn <- turns, lane <- speech, Agents <- Speakers, None <- Nothing
Exchange == INSTANCE RoomExchange WITH None <- Nothing

-----------------------------------------------------------------------------
\* What is assumed of the session's constants.

LedgerAssumption == MaxRevision \in Nat

SourcesAssumption == None \notin Nat

CueAssumption == {MaxCues, MaxRetained} \subseteq Nat /\ None \notin Cues!Statuses

ClientAssumption ==
    /\ MaxWindow \in Nat /\ Explicit \subseteq Commands /\ Commands \cap Client!Queries = {}

ForksAssumption ==
    /\ MaxMade \in Nat /\ MaxMade >= 2 /\ MaxTicks \in Nat
    /\ None \notin [base : Nat, next : Nat, noop : BOOLEAN, drafts : SUBSET Nat]

ASSUME SessionAssumption ==
    LedgerAssumption /\ SourcesAssumption /\ CueAssumption /\ ClientAssumption /\ ForksAssumption

-----------------------------------------------------------------------------
seatVars == <<revision, history, prepared>>
sourceVars == <<source, binding, asked, crossed, serial>>
cueVars == <<next, retained, acked, status, last, known, receiving, wire, replies, sends, applied,
             overlapped>>
clientVars == <<window, accepted, over, bound, sequences, handle, finalization, initial, asking,
                requests, responses, reopened>>
forkVars == <<live, forked, released, drafts, refused, dropped, owned>>
sessionVars == <<seatVars, sourceVars, cueVars, clientVars, forkVars>>

SessionInit ==
    SeatLedger!Init /\ Registrar!Init /\ Cues!Init /\ Client!Init /\ Forks!Init

SeatLedgerStep ==
    SeatLedger!Next /\ UNCHANGED <<sourceVars, cueVars, clientVars, forkVars>>
RegistrarStep ==
    Registrar!Next /\ UNCHANGED <<seatVars, cueVars, clientVars, forkVars>>
CuesStep ==
    Cues!Next /\ UNCHANGED <<seatVars, sourceVars, clientVars, forkVars>>
ClientStep ==
    Client!Next /\ UNCHANGED <<seatVars, sourceVars, cueVars, forkVars>>
ForksStep ==
    Forks!Next /\ UNCHANGED <<seatVars, sourceVars, cueVars, clientVars>>

SessionNext == SeatLedgerStep \/ RegistrarStep \/ CuesStep \/ ClientStep \/ ForksStep
SessionSpec == SessionInit /\ [][SessionNext]_sessionVars

-----------------------------------------------------------------------------
\* Properties of the session

\* The types of the five components.
SessionTyped ==
    SeatLedger!TypeOK /\ Registrar!TypeOK /\ Cues!TypeOK /\ Client!TypeOK /\ Forks!TypeOK

\* Who controls a seat or a subject is what the ledger or the registry says: a seat ledger
\* whose handoffs name their heads is restored from its checkpoint, and no decision of a
\* replaced controller crosses.
ControlHolds == SeatLedger!CheckpointRestores /\ Registrar!NoStaleDecision

\* However often it is sent, lost, delayed or retried, a client's command counts at most once,
\* and a presentation cue takes effect at most once unless it met another that was still being
\* applied; while none meet, cues take effect in order. A generated submission id stands for
\* one submission of its process. A reducer state that was live or belonged to a prepared
\* transition is given back exactly once afterwards, and never while it is in use.
EffectsOnce ==
    /\ Cues!CuesOnce /\ Cues!CuesInOrder
    /\ Client!CommandsCountOnce /\ Client!FreshIds
    /\ Forks!InUseKept /\ Forks!GivenBackOnce

\* Who controlled a seat at a committed revision is never rewritten.
AuthorityHolds == [][SeatLedger!KeepsAuthority]_sessionVars

-----------------------------------------------------------------------------
\* The session's inductive invariant: each component's own.
SessionInv ==
    /\ SeatLedger!LedgerInv
    /\ Registrar!SourcesInv
    /\ Cues!CueInv
    /\ Client!ClientInv
    /\ Forks!ForksInv /\ Forks!Counted /\ Forks!Parted

-----------------------------------------------------------------------------
\* What is assumed of the room's constants.

\* Participants of a room see and say what is for participants.
RegistryAssumption ==
    /\ Visibilities \subseteq SUBSET People
    /\ Parents \subseteq SUBSET People
    /\ {MaxVersions, MaxEvents} \subseteq Nat

StreamAssumption == MaxAsks \in Nat

LadderAssumption ==
    /\ {Rungs, MaxLength} \subseteq Nat
    /\ Fragments \subseteq Seq(Ladder!Letters) /\ Nothing \notin Seq(Ladder!Letters)

TurnsAssumption ==
    /\ Nothing \notin Calls /\ MaxUtterances \in Nat
    /\ \A c \in Calls : Addressed[c] \in Seq(Turns!Elements(Addressed[c]))

\* Endpoints have one kind; a draft has targets, each of them once (assertTargets).
ExchangeAssumption ==
    /\ Outsider \notin Participants /\ {MaxHops, MaxRoots, MaxEnvelopes} \subseteq Nat
    /\ Participants \cap Agents = {} /\ Participants \cap Services = {} /\ Agents \cap Services = {}
    /\ VisibilityOf \in [Agents -> Exchange!Disclosures] /\ Roots \subseteq Exchange!Endpoints
    /\ \A d \in Drafts : /\ d \in [targets : Seq(Exchange!Endpoints), disc : Exchange!Disclosures,
                                  call : Exchange!Requests \cup {Nothing}]
                         /\ d.targets # <<>> /\ Exchange!Unlike(d.targets)
    /\ Nothing \notin Exchange!Asked /\ Nothing \notin {"registered", "dropped"}

ASSUME RoomAssumption ==
    /\ RegistryAssumption
    /\ StreamAssumption
    /\ LadderAssumption
    /\ TurnsAssumption
    /\ ExchangeAssumption

-----------------------------------------------------------------------------
agentVars == <<registered, versions, invocations, given>>
watchVars == <<watchers, spentIds, reported, batches, returned, joined, raises>>
streamVars == <<journal, run, values, waiters, ended, asks, yields>>
ladderVars == <<job, aborted, climbing, rung, outcome, shown, heard, kept>>
turnVars == <<transcript, stored, settings, turns, intake, active, speech, floor, captions,
              restarts>>
routerVars == <<envelopes, handlers, seen, lanes, answering, calls, invoked, answers, delivered,
                spoken>>
roomVars == <<agentVars, watchVars, streamVars, ladderVars, turnVars, routerVars>>

RoomInit ==
    /\ Registry!Init /\ Watch!Init /\ Streams!Init
    /\ Ladder!Init /\ Turns!Init /\ Exchange!Init

RegistryStep ==
    /\ Registry!Next
    /\ UNCHANGED <<watchVars, streamVars, ladderVars, turnVars, routerVars>>
WatchStep ==
    /\ Watch!Next
    /\ UNCHANGED <<agentVars, streamVars, ladderVars, turnVars, routerVars>>
StreamsStep ==
    /\ Streams!Next
    /\ UNCHANGED <<agentVars, watchVars, ladderVars, turnVars, routerVars>>
LadderStep ==
    /\ Ladder!Next
    /\ UNCHANGED <<agentVars, watchVars, streamVars, turnVars, routerVars>>
TurnsStep ==
    /\ Turns!Next
    /\ UNCHANGED <<agentVars, watchVars, streamVars, ladderVars, routerVars>>
ExchangeStep ==
    /\ Exchange!Next
    /\ UNCHANGED <<agentVars, watchVars, streamVars, ladderVars, turnVars>>

RoomNext ==
    RegistryStep \/ WatchStep \/ StreamsStep \/ LadderStep \/ TurnsStep \/ ExchangeStep
RoomSpec == RoomInit /\ [][RoomNext]_roomVars

-----------------------------------------------------------------------------
\* Properties of the room

\* The types of the six components.
RoomTyped ==
    /\ Registry!TypeOK /\ Watch!TypeOK /\ Streams!TypeOK
    /\ Ladder!TypeOK /\ Turns!TypeOK /\ Exchange!TypeOK

\* Nobody learns what was not for them: along a chain of room envelopes, from a cached
\* service call, from an agent's utterance, or from an agent that was replaced.
StaysPrivate ==
    /\ Exchange!ChainStaysPrivate /\ Exchange!CallsStayPrivate
    /\ Registry!NobodyOverhears /\ Registry!ReplacedFallSilent

\* What a room says is said once, whole and in order: envelopes in a lane, a watcher's
\* drafts, captions on the floor, the entries of a run's stream, the rungs of a progress
\* ladder, the fragments of an input.
DeliveredOnce ==
    /\ Exchange!DeliveredOnceInLane
    /\ Watch!EmittedOnce
    /\ Turns!OneVoice /\ Turns!HeardIsWritten
    /\ Streams!StreamWhole
    /\ Ladder!LadderHonest /\ Ladder!NewestKept

\* Who is told to stop stops: only the newest turn of a channel gets the floor, and a ladder
\* shows nothing after an abort.
StopsWhenTold == [][Turns!StartsNewest /\ Ladder!ShowsNoMore]_roomVars

-----------------------------------------------------------------------------
\* The room's inductive invariant: each component's own.
RoomInv ==
    /\ Registry!RegistryInv
    /\ Watch!WatchInv
    /\ Streams!StreamInv
    /\ Ladder!LadderInv
    /\ Turns!TurnsInv
    /\ Exchange!ExchangeInv
=============================================================================
