# TLA+ models of the GAOS SDK

The GAOS SDK (TypeScript, `src/src`) runs deterministic multi-seat game sessions: an
authoritative kernel, a host that makes its transitions durable and delivers them, clients
that predict, and around them rooms of agents, presentation, control of seats, agent
environments, replays and a library of engine mechanisms. This directory holds TLA+ models of
that system, TLC runs over small instances, and proofs checked by TLAPS.

## Inventory

| Component | State | Operations | Hard behaviour | What makes it correct |
| --- | --- | --- | --- | --- |
| Session kernel (`session.ts`, `protocol.ts`) | live state, open window, receipts, tombstones, commitment book, scopes, id registers, event list | prepare (command, ingest, advance, timeout, extension, control, interest, signature), commit, abort, snapshot, checkpoint, compact, rehydrate | prepared drafts go stale; timeouts against late answers; replay code separate from live code; retention bounds; ownership of forked states | no intent lost or doubled, history only extended, rehydration equals the live state, receipts tell the truth, every fork given back |
| Session host (`session-host.ts`) | promise lane, publication queue, event store | one method per kernel operation, `retryPublish` | every await can fail after its effect; crash between persist, commit and publish | commit only what is durable, deliver only what is committed, in order; recovery gives what was committed |
| Prediction (`PredictionSession`, `applyObservationDelta`) | authoritative view, watermark, pending submissions | predict, reconcile | lost, repeated, late and reordered deltas; catch-up bodies | only committed views are shown; pending is settled exactly once |
| Session client (`client.ts`) | cursor, open call, finalization, submission serials | act, resync, retry, finalize, close | lost and late answers, restarts | a command counts once; an id stands for one submission |
| Seat control (`seat-control.ts`) | controller epochs | prepare, commit, abort, checkpoint, rehydrate | stale preparation; rehydration is separate code | a checkpoint restores the ledger; a seat changes hands only as authorized |
| Control sources (`control.ts`) | sources, bindings | register, bind, decide | the source is replaced while it decides | no decision of a replaced source |
| Presentation (`presentation-cues.ts`, `presentation-client.ts`) | retained cues, acknowledgements, applied sequence; view and revision | publish, receive, acknowledge, repair; snapshot, patch | asynchronous application, gaps, repeats, emergencies | a cue takes effect once and in order while no two are being applied; a view is that of its revision |
| Room router (`room-interaction.ts`) | lanes, seen ids, cached service calls, watcher batches | dispatch, derive, invoke, raise, tally | chains of envelopes, leaving participants, concurrent batches | disclosure only narrows; delivery once; a lane drains |
| Room agents (`room-agent.ts`, `room-agent-runtime.ts`) | runs and their journals, transcript, active turns, floor | admit, execute, resume, cancel, speak, stream | every call of the store is an await; deadlines, supersession, crash | one open run per channel; a run that was begun is ended; no output lost or said twice; an ended run stays ended |
| Agent runner and environments (`agent/*`, `engine/*-environment.ts`) | episode, batch, history | observe, decide, step, reset | several policies per tick, failures, background presentation | the transcript gives the state again; batches are whole |
| Replay (`engine/replay-format.ts`, `engine/replay.ts`, `engine/lockstep.ts`) | artifact, verifier's fold | finalize, verify, recheck, fold inputs | signature chains and windows, damaged records, late inputs | honest runs verify; trusted means authentic; peers agree |
| Engine mechanisms (`engine/*.ts`) | values of the product | zones, resources, response windows, settlement, phases, portals, movement, solver | stale plans, contention, bounds | nothing is lost or counted twice |
| Information partitions (`engine/information.ts`) | policies | seat and team views | identity and order of hidden entries | a view tells no more than its policy |
| Benchmarks, evidence, verifier kits, command line | files and processes | | I/O | not modelled |

A host owns one kernel and calls exactly one `prepare*`, then `persist`, `commit` and
`publish`. The deltas of a transition reach clients over a channel the SDK does not own, and a
client repairs gaps with `snapshot`. After a crash the host rebuilds the kernel from the event
store. Seat control, cues and rooms are recorded as extension records of the same transcript.
A room's router gives committed interactions to watchers and to the runtime of its agents,
which speaks over one floor and journals durable runs in a store. A finished transcript is
projected to a replay artifact, which anyone may verify.

## Modules

| Module | Models | Correspondence |
| --- | --- | --- |
| `SessionKernel` | `SessionKernelImpl` | one `Prepare...` action per operation fills a slot with a draft; `Commit`, `CommitStale`, `CommitNoop`, `Abort` are the outcomes of `commit` and `abort`; `recovered` is the left fold that `rehydrate` computes over the durable events, advanced by `Replay`; the instances for TLC stand at its end |
| `SessionCompaction` | `checkpoint`, `compact`, `restoreCheckpoint`, `rehydrateKernelFromCheckpoint`, the host's checkpoint store | `live` is the state a draft copies, `registers` the fields of the kernel object that no draft copies; `log`, `stored` and `history` are durable; `Restore` and the fold of `Replay` are a restart |
| `StateForks` | `SessionStateIsolation`, `forkLive`, `takeDraftResources` and every fork, discard and retire of the kernel | a state is its number of creation; an operation is one step with its error paths |
| `SessionHost` | `SessionKernelHost`, `InMemorySessionEventStore` | each await of `enqueue` is a phase; each outcome of `persist` and `publish` an action |
| `TransitionLedger` | the host obligations of `docs/session-and-integrity.md` | the abstract specification `SessionHost` implements |
| `PredictionSession` | `PredictionSession`, `applyObservationDelta`, `snapshot`, the kernel's deltas | the kernel's transitions as one seat sees them, a channel that keeps every delta for ever, and the client |
| `SessionClient` | `SessionClient` and its handle | the client, a wire of requests and responses, and a server that keeps the kernel's promises on ids and cursors |
| `SeatControl` | `SeatControlLedger` | a history of epochs; a digest is the epoch it stands for |
| `ControlSources` | `ControlSourceRegistry` | objects are told apart by serials; a decision is asked and crosses in two steps |
| `PresentationCues`, `PresentationViews` | host and client of cues; the portable view client | the callback that applies a cue takes time while others arrive; a wire that repeats and reorders |
| `RoomExchange`, `RoomWatchers`, `RoomVote` | `RoomInteractionRouter`, `RoomAgentServiceRegistry`; `RoomInteractionWatcherRegistry`; `resolveRoomVote` | a disclosure is the set of people who may see; a lane is a queue with one delivery at a time |
| `AgentRegistry` | `RoomAgentRegistry` | registrations replaced while drivers answer |
| `RoomRuns` | the durable runs of `RoomAgentRuntime` over its store | every call of the store is one step and may fail; a task is one execution with a program counter; `begun` keeps the runs an execution has begun to drive |
| `RoomTurns`, `RunStreams`, `ProgressLadder` | plain turns and speech; `startRun` and its event queue; `waitWithRoomAgentProgress`, `mergeRoomAgentInputFragments` | every await is a step boundary |
| `AgentRunner`, `KeyedDriver` | `runSession`; the hosted-model drivers | the session is what it may return, a provider what it may answer |
| `AgentEnvironment`, `MultiAgentEnvironment` | the environments and `runMultiAgentEpisode` | the product's state is the whole past, so that equal states mean equal pasts |
| `ReplayRecords` | `finalizeReplay`, `finalizeRunReplay` and the verifier of `replay-format.ts` | records as values; a hash is what is hashed, a signature what is signed; damage is an action |
| `TranscriptRecheck`, `LockstepInputs` | `recheckTranscript`; the fold of lockstep inputs | a damaged transcript; peers that receive in any interleaving |
| `ZoneMoves`, `ResourceLedger`, `ResponseWindow`, `SettlementCascade`, `PhaseClock`, `PortalTransits`, `KeyedMoves`, `LevelSolver`, `SeatViews` | the engine module each names in its header | one step per exported operation, or per pass of a loop |
| `Layers` | the session's layers (`SessionSpec`) and the room's (`RoomSpec`) | instances of `SeatControl`, `ControlSources`, `PresentationCues`, `SessionClient`, `StateForks`, and of `AgentRegistry`, `RoomWatchers`, `RunStreams`, `ProgressLadder`, `RoomTurns`, `RoomExchange`, on variables of their own; a step is a step of one of them |
| `SequenceFilter` | `Array.prototype.filter` | a recursive function, the facts about it, and the inductions the proofs use |
| `SessionKernel_proofs`, `SessionHost_proofs`, `SessionCompaction_proofs`, `PredictionSession_proofs`, `RoomRuns_proofs`, `SessionLayers_proofs`, `RoomLayers_proofs` | | the theorems below |
| `MCRepair` | | `SessionCompaction` and `PredictionSession` side by side, one scene each |
| `MCLayers` | | the layers and the components beside them, each on an instance of its own |

The reducer is left free in `SessionKernel`: its state is the sequence of effects applied, and
the participants and the end of the game are arbitrary functions of it. Payloads, hashes and
host time are abstracted; a reveal that does not match its hash is the command `forge`.
`SessionHost` reduces the kernel to its event log, `PredictionSession` to the views and deltas
of one seat, `StateForks` to the states it forks, `ReplayRecords` to the finished run.

`MCLayers` chooses one of 29 scenes in its initial state. In 11 of them one layer of `Layers`
acts while the others stay as they began, each in one of the ways it may begin; the interleavings
of two layers add nothing that TLC could tell apart, and the proofs have them all. Each of the 18
others is an instance of one component, on the shared variables `v1`, `v2`, ..., of which those
it has no use for stay 0. The scenes do not interact: what one component needs of another is
part of the module that needs it (the server of `SessionClient`, the store of `RoomRuns`, the
session of `AgentRunner`). Each property of `Layers` and of `MCLayers` joins properties of the
components on one theme, stated and commented in their own modules.

## Runs

| Run | Bounds | Shows |
| --- | --- | --- |
| `kernel_sessions` | 2 seats, 2 draft slots, four option sets, retention 1, checkpoint every 2 ticks, games of 3 or 4 ticks; in turns, ticks and signed ticks with a timeout policy: 1 id each, 4 revisions (ticks: 3), 2 drafts at a time; in commit-reveal: 2 ids, 6 revisions, one open commitment, 1 draft at a time | every operation interleaved on two drafts, with stale commits, aborts, crashes and restarts; accepted intents are accounted for, one input per seat and tick, rehydration is faithful, history is only extended; commit-reveal over several ticks with forged reveals, receipts evicted into tombstones |
| `kernel_ids` | ids may be reused | violation of `SubmissionIdsPermanent` |
| `host_safety` | 2 commands, advances of one length, 3 revisions, 5 requests, 1 crash | the refinement of `TransitionLedger`, the recovery properties, and liveness of the lane: requests are settled, batches delivered |
| `host_prefix` | advances of 1 or 2 ticks | violation of `RecoveryAgrees` |
| `session_repair` | host: 1 seat, 2 ids, 1 draft, 5 revisions, 2 stored checkpoints, no receipt retention, no compaction while a draft is open; client: 2 submissions, 3 transitions, a catch-up of 2 ticks | no id is used twice, no rejection notice is omitted, recovery from every stored checkpoint answers like the live kernel, the kept transcript begins above the floor; the client's safety under an arbitrary channel |
| `compaction_straddle` | the host with compaction while a draft is open | violation of `CheckpointRestorable` |
| `prediction_catchup` | the client, smaller | violation of `NewerBodiesShown` |
| `rooms` | one channel, 2 inputs, 2 run ids, 2 executions, 1 output, 4 steps of driver work, 2 attempts, 1 clock tick, 1 crash | one open run, no output lost or said twice, no run left by the execution that drove it, no ended run written over, at every interleaving of the store's calls |
| `layers` | 29 small instances, given in `layers.cfg` and `MCLayers` | of the session and the room: types, control and authority, at-most-once effects, privacy, delivery, and that who is told to stop stops; replays, episodes, mechanisms; the liveness of lanes, streams and episodes |
| `replay_chain` | seats that sign everything and may send over an intent of theirs that is open | violation of `ChainContinues` |
| `cues_overlap` | 3 cues, one of them an emergency, 2 transmissions of each, 2 receipts at a time | violation of `AppliedOnce` |
| `forks_discard` | 2 slots, ticks of 2 at most, 7 states | violation of `ReleasedOnce` |

Two seats are enough for every relation between seats in the kernel (a window that is ready or
not, a rejection of one of two). Two slots let one draft go stale under another; a third adds
nothing, since drafts only interact through the live revision. Four revisions (`MaxPlayed`) reach
an intent, a control or interaction, a resolution and a transition in the next window; six
(`MaxRevision`) reach a commitment, its reveal, its rejection and the eviction of the receipt. The
commit-reveal sessions need the length and not the competition, so `Fits` lets them hold one draft
at a time; that drafts compete is explored in the others, and the proofs have both. Compaction
keeps no relation between seats, and five revisions reach an intent, its rejection, a compaction,
and an attempt to reuse the id after the receipt is gone, with a second checkpoint on either side
of the compaction. In `session_repair` the two ends act in a scene each, as they share no state.
In the host one crash separates two lives of the process, and `Silent` commands let a retry find
its command durable.

In `rooms` two inputs give a run and the input that supersedes it, or a run that waits and its
continuation; two executions let an older one act on what it read after the newer one began; one
clock tick is the deadline; the crash may fall between any two calls of the store, and any of
these calls may fail instead. In `layers`, each instance is the smallest in which the case of its
property occurs: two sources for one subject, cues 1 to 3 with an emergency second, each sent at
most twice, four times in all, and two receipts under way at a time, any two of a client's calls
(two generated ids, so that a new process may give one again, a submission it retries, or a
query), a chain of three envelopes over two hops, three ballots with a tie, entrants that contend
for one place, three movers on four cells, boards of two entities on three cells.
The scene of replay artifacts uses clients that sign at most while they have no open intent
(`Careful`), which is what `replay_chain` drops.

Deadlock is checked in the kernel runs, in `session_repair` and `compaction_straddle`. An idle host,
a room without further inputs, a finished episode or a verified artifact really stops, so it is
not checked elsewhere.

Fairness. `host_safety` uses `Retrying`. `WF(Step)`: the JavaScript runtime runs every ready
continuation, and the store and the publisher answer each call, with success or failure.
`WF(RequestRetry)` and `SF(PublishSucceeds)` are assumptions on the environment: the host calls
`retryPublish` while batches wait, and the publisher is not down for ever. `layers` assumes weak
fairness of one action, `Works`: the runtime continues a lane of envelopes whose handler
returned, a policy answers or fails and its episode goes on, a run that is over closes its
stream. A scene never leaves itself, so the action stands for the fairness of the one component
that acts. No fairness is assumed of clients, senders, speakers, crashes or damage.

## Proofs

Each theorem holds for every value of the constants that satisfies the assumption of its module
(`KernelAssumption`, `HostAssumption`, `CompactionAssumption`, `PredictionAssumption`,
`RoomRunsAssumption`, `SessionAssumption`, `RoomAssumption`): any numbers of seats, commands,
submissions, runs, executions, outputs, agents, people and envelopes, and any bounds. A theorem
that needs more says so in its hypotheses, listed below. The assumptions give the bounds their
types and keep the markers `None`, `Nothing`, `NoRun` and the like apart from the values they mark
the absence of. The two of `Layers` also say what a session or room is made of: the constructor
makes two reducer states (`MaxMade >= 2`), submissions and queries are different calls, what is
for participants is for participants of the room, an endpoint is of one kind, and a draft names
targets, each once (`assertTargets` of `room-interaction.ts` refuses any other).

| Module | Theorem | States |
| --- | --- | --- |
| `SessionKernel_proofs` | `TypeCorrect` | `TypeOK` |
| | `RecoveryIsFaithful` | `RecoveryFaithful`, for clients with `FreshInteractionIds` |
| | `TicksTakeOneInputPerSeat` | `OneInputPerSeat` |
| | `HistoryOnlyExtends` | `HistoryExtends` |
| | `IntentsAreAccountedFor` | `IntentAccounted` |
| | `ReceiptsAreHonest` | `ReceiptHonest` |
| | `CommitmentsAreOrdered` | `CommitmentsOrdered` |
| `SessionHost_proofs` | `HostTypeCorrect` | `TypeOK` |
| | `CommandsTakeEffectOnce` | `CommandsOnce` |
| | `AcknowledgedCommandsAreDurable` | `AcknowledgedIsDurable` |
| | `RecoveryFollowsTheLog` | `RecoveryAgrees`, with `OneTarget` |
| | `HostImplementsLedger` | `ImplementsLedger`, with `OneTarget` |
| `SessionCompaction_proofs` | `CompactionTypeCorrect` | `TypeOK` |
| | `IdentitiesArePermanent` | `IdentitiesPermanent` |
| | `RejectionsSurvive` | `NoRejectionOmitted`, without `StraddlingCompaction` |
| | `RecoveryIsFaithful` | `RecoveryAnswersAlike`, without `StraddlingCompaction` |
| | `TranscriptIsASuffix` | `TranscriptAboveFloor`, without `StraddlingCompaction` |
| `PredictionSession_proofs` | `PredictionTypeCorrect` | `PredictionTypeOK` |
| | `ViewsAreCommitted` | `ViewWasCommitted` |
| | `PendingIsKept` | `PendingKept` |
| | `SubmissionsSettleOnce` | `SettledOnce` |
| | `ClientNeverGoesBack` | `NeverBackwards` |
| `RoomRuns_proofs` | `RoomTypeCorrect` | `TypeOK` |
| | `OneRunIsOpen` | `OneOpenRun` |
| | `EndedRunsStay` | `TerminalStays` |
| | `BegunRunsAreTended` | `BegunRunsTended` |
| | `OutputsAreNotRepeated` | `OutputsOnce` |
| `SessionLayers_proofs` | `SessionWellTyped` | `SessionTyped`, a part of the `TypeOK` of `MCLayers` |
| | `SessionControlHolds` | `ControlHolds` |
| | `SessionEffectsOnce` | `EffectsOnce` |
| | `SessionAuthorityHolds` | `AuthorityHolds` |
| `RoomLayers_proofs` | `RoomWellTyped` | `RoomTyped`, another part |
| | `RoomStaysPrivate` | `StaysPrivate` |
| | `RoomDeliversOnce` | `DeliveredOnce` |
| | `RoomStopsWhenTold` | `StopsWhenTold` |

The hypotheses are the findings seen from the other side. `FreshInteractionIds` is what
`kernel_ids` drops, `OneTarget` (every advance resolves the same number of ticks) what
`host_prefix` drops, and `StraddlingCompaction` (a compaction while a draft is open) what
`compaction_straddle` allows. The other theorems need none. Where the code breaks a promise, they
state the part it keeps: `CuesOnce` is about cues that met no other under way, `GivenBackOnce` about
the states that were live or prepared, `CallsStayPrivate` about calls whose service gave a promise,
`BegunRunsTended` about runs an execution had begun to drive. Each stands next to the full promise,
which TLC refutes.

### Kernel

`RecoveryFaithful` is not inductive: a commit publishes a draft prepared earlier, so the
invariant must speak of the drafts. `IInv` therefore adds that the base of every open draft is
at most the live revision, and that a draft whose base is the live revision is stamped with
the next revision and is *faithful*: replaying its batch on the live state gives exactly the
draft and raises no fault. Preparing establishes this (one lemma per operation compares the
operation with its replay step), committing uses it, and a stale draft no longer has to
satisfy it. `AnswersOnce` (at most one intent of a seat in the window) and `InputsOnce` carry
`OneInputPerSeat` through resolutions.

The other three properties relate the live state to the whole history, and `LInv` states that
relation once, as `Ledger`: where an intent is (window, tick, rejections), what its receipt or
tombstone says of that place, and which commitments of a seat are open, revealed or rejected.
`DraftsCaused` says that a draft that may still commit is the effect of one operation on the live
state, so that only the operations have to be shown to keep `Ledger`, each once, and never a
draft in an unknown state.

### Host

`IInv` says what the store may hold beyond the memory of the process (`Leftover`: at most one
transition, of one body, with its first event), that the store has no command of a committed
revision that the log lacks (`CommandsStored`), and what each phase of the lane has already
written (`LaneInStep`). It holds for any advances. With `OneTarget`, `Whole` adds that the
leftover is one whole operation, so that a retry appends nothing behind it; this is the step that
fails in `host_prefix`. With `QueueInOrder` every step of the host is a step of
`TransitionLedger` or leaves its variables alone, the refinement.

### Compaction

`IInv` follows an identity through the places that may remember it: the live kernel, and every
kernel that a stored checkpoint with its tail of the log recovers, refuses every id the log has
used (`KernelsRemember`), and what a draft that may commit will add is new to the log
(`DraftsFresh`). It needs no assumption on compactions. `FInv` adds that every such kernel is
faithful to the log: its rejections are those after its floor, its transcript a suffix of the
log. It needs that a draft is what its batch does to the live state (`DraftsCurrent`), which a
compaction while the draft is open breaks.

### Prediction

The channel keeps every delta for ever, so the invariant is about every delta that was ever sent:
it shows a prefix of the kernel's view and accounts for no more than that prefix and the
rejections up to its revision (`DeltasHonest`), later deltas show no shorter prefix
(`DeltasInOrder`), and those the client may still apply are ahead of it (`ClientBehind`). The
hard part is that no acknowledgement is missed. An accepted intent is a transition without a
delta, so a client that was behind it meets a gap and has to be repaired. A client that was never
repaired has therefore received an unbroken run of transitions, and what they apply was
acknowledged by every delta of the one transition that applied it (`AcknowledgementsSent`).

### Rooms

Three invariants build on each other. `RunsInv` is about what an execution, the intake or a
cancellation read of a run before an await and still acts on: it is a `Snapshot`, older than the
run, or, when nothing was appended to the run since, of a run that is still open. What the store
accepts therefore never starts from an ended run, and nothing but the intake opens one.
`RunsKept` names, for each active run that an execution has begun to drive, the execution that will
end it. `OutputsInv` says that an
execution whose writes the store still accepts has seen every output of its input, and that the
transcript holds all of the closed ones but the one it is about to record; an execution that has
lost its run cannot commit another output.

### The session's layers

`SessionInv` is the conjunction of the layers' invariants, each stated at the end of its module. A
step of one layer is a stutter of the others (`SessionMoves`), so each is proved for its layer
alone and the theorems hold for every interleaving of the five.

- Seat control, `LedgerInv`: an epoch follows the one before it at a later revision and carries
  the authority it was made under (`Histories`), every committed revision made an epoch, and all
  it made share their evidence (`Evidenced`), and what is prepared follows the heads it was
  prepared from (`Ready`). Rehydration checks these of a checkpoint, in code of its own; it also
  asks a handoff to name the head it ends, the hypothesis in `CheckpointRestores`.
- Control sources, `SourcesInv`: a request that is still current was made to the registration now
  in control (`Controlled`), because serials are given once and a subject is only bound to a
  registered source (`Ordered`).
- Cues, `CueInv`, with any number of receipts under way at once: each is a transmission of its own
  (`Receipts`), and a cue that met no other is under way once and not when it is known (`Alone`).
  What was handed over and not taken back is what is known and what is being applied
  (`HandedOver`). `Honest` ties acknowledgements, however late, to what is known, and `InTurn`
  gives the order as long as no two receipts have met.
- Client, `ClientInv`: a submission with a generated id is sent once, and the server has it only
  after that (`SentOnce`); a retried one goes out under one id (`SameId`); an answer is of a
  command in the log (`AnswersHonest`); until a restart, ids are below their counters
  (`IdsCounted`), so that no two submissions share one.
- Reducer states, `ForksInv` and `Counted`: a state is in one place at a time (`Apart`), so that
  what a commit or an abort gives back belongs to nobody else, and none is given back before it is
  made (`Unreleased`). `Parted` keeps apart the states that were ever in use, those of refused
  classifications, which alone are given back twice, and those an operation dropped. Every prepare
  is an instance of one of two steps, `MakingKeeps` and `OpeningKeeps`; for the counts,
  `AccountKept` does the same.

### The room's layers

`RoomInv` is put together the same way, from six layers.

- Agents, `RegistryInv`: what a running invocation emits is for those its registration and its
  parent let see it. Needs no more than the types and that only begun calls emit (`CallsBegun`).
- Watchers, `WatchInv`: a batch under way runs no watcher that is done with its revision
  (`RunsNew`), and a batch that fails leaves nothing behind for the next.
- Streams, `StreamInv`: the first asks have had all entries but those still in the queue, in
  order (`InOrder`); those after them wait, or were told of the end (`TheRest`).
- Ladder, `LadderInv`: until it is over, a ladder has shown the rungs climbed and nothing else
  (`Climbed`), and what a race gave stays so (`RaceHolds`).
- Turns, `TurnsInv`: the intake and the lane hold the calls that wait in them, and only the head
  acts (`Lanes`); who speaks has the last caption (`Speaks`), of a text the transcript has
  (`IsWritten`); and only the newest turn of a channel has not been told to stop (`Newest`), which
  survives every await between the decision to speak and the floor.
- Router, `ExchangeInv`: every envelope follows from its parent (`Chained`), so a disclosure only
  narrows along a chain of any length; only the head of a lane has deliveries, the last of its
  channel and to none of the targets it has left (`Queues`); and once a service has given its
  promise the call is recorded and never asks again, and an answer belongs to what its call asked,
  of the same channel and disclosure (`Cached`).

### Folds over a log

Recovery is a recursive function over the log, and the library's induction theorem takes an
operator as a parameter, which the provers cannot instantiate. `SetInduction` in `SequenceFilter`
replaces it by a fact about sets: a set of numbers with 0 and closed under successor has them
all. It is derived from the cardinalities of finite sets. The facts about `Filtered`, the
existence of the replay function, and that replaying `s` and then `e` replays `Append(s, e)`, are
instances of it.

### Model-checked only

Liveness (`RequestsSettle`, `BatchesDelivered`, `WorkEnds`) rests on fairness and `ENABLED`,
which are out of the prover's reach. `ReplaysVerify`, `EpisodesReplay` and `MechanismsHold` of
`MCLayers`, the properties of its 18 other scenes, and their part of its `TypeOK` (the other part
is `SessionTyped` and `RoomTyped`) are checked by `layers` on its instances and not proved. Most
of them compare a component with a fold over data of the product, or with a search over it (a
replay with the run it was made of, a solution with every shorter one), which is induction over
data, or are about one pass of an algorithm on bounded input.

## Findings

- `kernel_ids`: a committed interaction's id can be reused until the process restarts, and the
  restart then refuses the transcript.
- `host_prefix`: the event store accepts a prefix of a stored batch as an exact retry, so
  memory and durable log can disagree.
- `compaction_straddle`: `compact` takes no revision, so a draft prepared before it commits
  after it, brings the compacted events and rejections back, and the next checkpoint cannot be
  restored. The pass run `session_repair` therefore assumes a host that closes its drafts first.
- `prediction_catchup`: the client ignores the later bodies of a catch-up and stays behind
  until it is repaired; the next patch is refused as `invalid_delta`.
- `replay_chain`: an interaction is recorded at once, an intent when its window resolves; a
  seat that signs an interaction over its own open intent leaves an honest replay that the
  verifier calls a broken chain.

- `cues_overlap`: the client looks at the cues whose application has ended, then awaits the
  application; a cue that arrives again meanwhile, as any transport that redelivers may send it, is
  applied twice (`presentation-cues.ts:347`), although the documentation promises idempotent
  application.
- `forks_discard`: `prepareCommand` discards the classification fork of an intent before it
  prepares it, and again in its catch when the preparation throws (`session.ts:1994` and `:2006`),
  although `discard` is to be called exactly once.

The code breaks more promises; none of them has a run of its own. Those with a name are stated in
their modules beside what the pass runs show, and TLC refutes them on the instance of the run
given; for the others the module says what the code does instead.

- `NoRunForgotten` of `RoomRuns` (`rooms`): without a crash, an admitted run may stay active with no
  execution. `prepareDurableInput` interrupts the channel after it stored the run
  (`room-agent-runtime.ts:1490`) and that may be rejected, `executeRun` reads the store before its
  `try` (`:1517`), and the store may fail where the end is written (`:1936`). A newer input,
  `resumeRun` or `cancelRun` takes such a run up again.
- `WaitingHasNoDeadline` and `ResumeKeepsRuns` of `RoomRuns` (`rooms`): the deadline timer may end a
  run that waits for input, and `resumeRun` cancels what is active on the channel before it knows
  whether it may resume.
- `RunsOnce` of `RoomExchange` (`layers`): a service that throws before it gives a promise leaves
  no entry for its call (`room-interaction.ts:603`, the entry is made at `:623`), so the same call
  id runs it again, although `docs/room-agents.md:100` calls the id stable under retries.
- `ShellsHaveNoPlace` of `SeatViews` (`layers`): in the mode `shell` a hidden entity keeps its place
  in the list, so a seat tells apart two boards on which hidden entities change places, although
  `docs/rfcs/rfc-003-information-partitions.md:40` says presence without identity. What the pass
  run shows, `SeesWhatItMay`, is about boards as bags of entries.
- `AgentEnvironment`, `MultiAgentEnvironment` (`layers`): a reward that is refused after the state
  changed leaves a transcript that counts a tick more than it records. `TranscriptReplays` says so:
  the mismatch shows exactly then, and the environment of several policies replays to the state
  before the step.
- `SeatControl` (`layers`): a handoff that names no head is committed, and the ledger then cannot
  be rehydrated (`seat-control.ts:379`); `CheckpointRestores` is about the others.
- `StateForks`: the states of an immutable reducer between the ticks of one advance, and the state
  of a classifier that became an interaction, may never be given back (`dropped`).

## Not modelled

- Benchmarks, evidence packages, verifier kits, ecosystem and leaderboard files, the command
  lines: packaging and process I/O around the verifier of `ReplayRecords`.
- Ed25519, SHA-256 and canonical JSON: symbolic. What is signed and chained is modelled.
- Schema validation and the readers of older replay formats: conversions without state.
- Of the client, attach receipts and the HTTP formats; of the room runtime, the adapters to
  drivers, their checkpoints and budgets; of the keyed drivers, prompts and provider formats.
- Push chains, chain reactions, keywords, grids, layouts and random streams: pure functions of
  their arguments, without an interaction that a run could add to a unit test.
- A client whose `applyPending` throws (`session.ts:1129`), and the loss of the publication queue
  with the process (`session-host.ts:72`), for which the repair is the client's snapshot.
- The demos and examples, which use the SDK.

## Plan

1. Invariants of the multi-step components among the 18 other scenes whose properties are not
   folds: `AgentRunner`, `KeyedDriver`, `ResponseWindow`, `PortalTransits`.
2. Attach receipts of the session client; checkpoints of superseded runs.
