---------------------------- MODULE SessionHost ----------------------------
(***************************************************************************)
(* The reference host lane (src/src/session-host.ts): operations run one   *)
(* at a time, each flushes the publication queue, prepares a transition,   *)
(* persists its events, commits it, queues its observations and flushes    *)
(* again.  Every await is a step of its own, with every outcome the store  *)
(* and the publisher may report; the process may stop at any of them.      *)
(*                                                                         *)
(* The kernel is reduced to what the lane depends on: the events committed *)
(* so far.  A command (ingest, command, control, interest) has a durable   *)
(* identity and is prepared as an empty duplicate when it was committed    *)
(* before; an advance has none and resolves `ticks` ticks, one event each. *)
(* Event bodies carry no host time (hostTime: 'none'), so preparing the    *)
(* same operation at the same revision again gives the same bytes.         *)
(***************************************************************************)
EXTENDS Naturals, Sequences, FiniteSets, SequenceFilter

CONSTANTS
    Commands,     \* commands clients send
    Silent,       \* those that change no view (an accepted intent)
    Targets,      \* numbers of ticks an advance may resolve
    None,         \* no operation
    MaxRevision,  \* bound on committed transitions
    MaxRequests,  \* bound on the requests clients make
    MaxCrashes    \* bound on restarts of the host

ASSUME HostAssumption ==
    /\ Silent \subseteq Commands /\ None \notin Commands
    /\ Targets \subseteq Nat \ {0}
    /\ {MaxRevision, MaxRequests, MaxCrashes} \subseteq Nat

Op == [kind : {"command"}, id : Commands, ticks : {1}]
        \cup [kind : {"advance"}, id : {None}, ticks : Targets]
RetryPublish == [kind |-> "retry", id |-> None, ticks |-> 0]
Requests == Op \cup {RetryPublish}

\* An event's id is its revision and index; `body` is the rest of it.
Event == [rev : Nat, index : Nat, body : Commands \cup {None}]

VARIABLES
    lane,       \* the chain of promises: requests not yet settled, in order
    phase,      \* where the first of them stands
    prepared,   \* the events of its prepared transition
    log,        \* events committed by the kernel
    store,      \* events in the event store, in the order of their first write
    queue,      \* publicationQueue: the revision of each batch
    delivered,  \* revisions whose batches reached the subscribers; repeating
                \* the last of them is not recorded
    status,     \* what became of the last request for each operation
    requests, crashes

vars == <<lane, phase, prepared, log, store, queue, delivered, status,
          requests, crashes>>

Phases == {"idle", "flush", "persist", "written", "reflush"}
Status == {"none", "pending", "resolved", "rejected", "lost"}

-----------------------------------------------------------------------------
(* Helpers.                                                                *)

Revision(events) == IF events = <<>> THEN 0 ELSE events[Len(events)].rev

\* Mutated Prepared: a committed command is prepared again.
PreparedAgain(op) ==
    [j \in 1..op.ticks |->
        [rev |-> Revision(log) + 1, index |-> j - 1, body |-> op.id]]
\* The events of an operation prepared on the committed state; none for a
\* command that was committed before.
Prepared(op) ==
    IF op.kind = "command" /\ \E e \in Elements(log) : e.body = op.id
    THEN <<>>
    ELSE [j \in 1..op.ticks |->
            [rev |-> Revision(log) + 1, index |-> j - 1, body |-> op.id]]

SameId(a, b) == a.rev = b.rev /\ a.index = b.index
\* Mutated Conflicts: the store does not compare the bytes.
ConflictsIgnored(events) == FALSE
\* persist throws when an id is stored with other bytes ...
Conflicts(events) ==
    \E a \in Elements(events), b \in Elements(store) : SameId(a, b) /\ a # b
\* ... and otherwise appends the events whose id is not stored yet.
Missing(events) ==
    Filtered(events, {a \in Elements(events) :
                        \A b \in Elements(store) : ~SameId(a, b)})

\* Mutated Settle: a rejection breaks the chain of promises.
SettleBreakingLane(result) ==
    /\ status' = [status EXCEPT ![Head(lane)] = result]
    /\ lane' = Tail(lane)
    /\ phase' = IF result = "rejected" THEN "broken" ELSE "idle"
    /\ prepared' = <<>>
\* The first request of the lane is settled and the next one may start.
Settle(result) ==
    /\ status' = [status EXCEPT ![Head(lane)] = result]
    /\ lane' = Tail(lane)
    /\ phase' = "idle"
    /\ prepared' = <<>>

-----------------------------------------------------------------------------
(* Clients.                                                                *)

\* A client sends an operation, again if it likes once the last is settled.
Request(op) ==
    /\ op \in Op /\ status[op] # "pending"
    /\ requests < MaxRequests
    /\ requests' = requests + 1
    /\ lane' = Append(lane, op)
    /\ status' = [status EXCEPT ![op] = "pending"]
    /\ UNCHANGED <<phase, prepared, log, store, queue, delivered, crashes>>

RequestRetry ==
    /\ status[RetryPublish] # "pending"
    /\ queue # <<>>
    /\ lane' = Append(lane, RetryPublish)
    /\ status' = [status EXCEPT ![RetryPublish] = "pending"]
    /\ UNCHANGED <<phase, prepared, log, store, queue, delivered, requests, crashes>>

-----------------------------------------------------------------------------
(* The lane.                                                               *)

Start ==
    /\ phase = "idle" /\ lane # <<>>
    /\ phase' = "flush"
    /\ UNCHANGED <<lane, prepared, log, store, queue, delivered, status,
                   requests, crashes>>

Delivered ==
    IF delivered # <<>> /\ delivered[Len(delivered)] = Head(queue)
    THEN delivered ELSE Append(delivered, Head(queue))

\* flushPublicationQueue: a batch leaves the queue once publish resolves.
PublishSucceeds ==
    /\ phase \in {"flush", "reflush"} /\ queue # <<>>
    /\ delivered' = Delivered
    /\ queue' = Tail(queue)
    /\ UNCHANGED <<lane, phase, prepared, log, store, status, requests, crashes>>

\* Mutated PublishFails: the batch left the queue before it was published.
PublishFailsDropping ==
    /\ phase \in {"flush", "reflush"} /\ queue # <<>>
    /\ \/ UNCHANGED delivered
       \/ delivered' = Delivered
    /\ queue' = Tail(queue)
    /\ Settle("rejected")
    /\ UNCHANGED <<log, store, requests, crashes>>
\* A failed publish rejects the operation that flushes; the subscribers may
\* have received the batch all the same.
PublishFails ==
    /\ phase \in {"flush", "reflush"} /\ queue # <<>>
    /\ \/ UNCHANGED delivered
       \/ delivered' = Delivered
    /\ Settle("rejected")
    /\ UNCHANGED <<log, store, queue, requests, crashes>>

Prepare ==
    /\ phase = "flush" /\ queue = <<>>
    /\ Head(lane) # RetryPublish
    /\ Revision(log) < MaxRevision
    /\ prepared' = Prepared(Head(lane))
    /\ phase' = "persist"
    /\ UNCHANGED <<lane, log, store, queue, delivered, status, requests, crashes>>

\* The kernel refuses the operation (past the bound, always).
Refuse ==
    /\ phase = "flush" /\ queue = <<>>
    /\ Head(lane) # RetryPublish
    /\ Settle("rejected")
    /\ UNCHANGED <<log, store, queue, delivered, requests, crashes>>

\* The store writes the batch as a whole.
Write ==
    /\ phase = "persist" /\ ~Conflicts(prepared)
    /\ store' = store \o Missing(prepared)
    /\ phase' = "written"
    /\ UNCHANGED <<lane, prepared, log, queue, delivered, status, requests, crashes>>

\* persist rejects before or after the write, or because of a conflict; the
\* draft is aborted.
PersistFails ==
    /\ phase \in {"persist", "written"}
    /\ Settle("rejected")
    /\ UNCHANGED <<log, store, queue, delivered, requests, crashes>>

\* Mutated Commit: an operation is acknowledged before it is persisted.
CommitEarly ==
    /\ phase \in {"persist", "written"}
    /\ log' = log \o prepared
    /\ Settle("resolved")
    /\ UNCHANGED <<store, queue, delivered, requests, crashes>>
\* persist resolves: the kernel commits, and views that changed are queued.
Commit ==
    /\ phase = "written"
    /\ log' = log \o prepared
    /\ queue' = IF prepared = <<>> \/ Head(lane).id \in Silent THEN queue
                ELSE Append(queue, Revision(prepared))
    /\ phase' = "reflush"
    /\ UNCHANGED <<lane, prepared, store, delivered, status, requests, crashes>>

Finish ==
    /\ queue = <<>>
    /\ \/ phase = "reflush"
       \/ phase = "flush" /\ Head(lane) = RetryPublish
    /\ Settle("resolved")
    /\ UNCHANGED <<log, store, queue, delivered, requests, crashes>>

\* Mutated Crash: the new host resumes in the middle of an operation.
CrashKeepingPhase ==
    /\ crashes < MaxCrashes
    /\ crashes' = crashes + 1
    /\ log' = store
    /\ lane' = <<>> /\ queue' = <<>>
    /\ status' = [op \in Requests |->
                    IF status[op] = "pending" THEN "lost" ELSE status[op]]
    /\ UNCHANGED <<phase, prepared, store, delivered, requests>>
\* The process stops and a new host rehydrates the kernel from the store; the
\* lane and the publication queue were only in memory.
Crash ==
    /\ crashes < MaxCrashes
    /\ crashes' = crashes + 1
    /\ log' = store
    /\ lane' = <<>> /\ queue' = <<>> /\ prepared' = <<>> /\ phase' = "idle"
    /\ status' = [op \in Requests |->
                    IF status[op] = "pending" THEN "lost" ELSE status[op]]
    /\ UNCHANGED <<store, delivered, requests>>

-----------------------------------------------------------------------------
Init ==
    /\ lane = <<>> /\ phase = "idle" /\ prepared = <<>>
    /\ log = <<>> /\ store = <<>> /\ queue = <<>> /\ delivered = <<>>
    /\ status = [op \in Requests |-> "none"]
    /\ requests = 0 /\ crashes = 0

\* The continuations of the lane; every await ends one way or another.
Step ==
    \/ Start \/ PublishSucceeds \/ PublishFails \/ Prepare \/ Refuse
    \/ Write \/ PersistFails \/ Commit \/ Finish

Next ==
    \/ \E op \in Op : Request(op)
    \/ RequestRetry
    \/ Step
    \/ Crash

Spec == Init /\ [][Next]_vars

\* The runtime runs every ready continuation, and store and publisher answer.
FairSpec == Spec /\ WF_vars(Step)

\* A host that calls retryPublish while batches wait, and a publisher that is
\* not down for ever.
Retrying == FairSpec /\ WF_vars(RequestRetry) /\ SF_vars(PublishSucceeds)

-----------------------------------------------------------------------------
(* Properties.                                                             *)

\* Type invariant of the lane.
TypeOK ==
    /\ lane \in Seq(Requests) /\ phase \in Phases
    /\ {prepared, log, store} \subseteq Seq(Event)
    /\ {queue, delivered} \subseteq Seq(Nat)
    /\ status \in [Requests -> Status]
    /\ requests \in 0..MaxRequests /\ crashes \in 0..MaxCrashes
    /\ phase # "idle" => lane # <<>>

\* The host implements the ledger of its documentation: no transition is
\* committed before it is durable, none is delivered before it is committed,
\* delivery keeps the order, and the store is only extended.
Ledger == INSTANCE TransitionLedger WITH durable <- store, committed <- log
ImplementsLedger == Ledger!Spec

EventsAt(events, r) == {e \in Elements(events) : e.rev = r}

\* docs/session-and-integrity.md: "Crash recovery always follows the durable
\* log".  Rehydrating the store gives every committed transition as committed:
\* of a committed revision the store holds exactly the committed events.
RecoveryAgrees ==
    \A r \in 1..Revision(log) : EventsAt(store, r) = EventsAt(log, r)

\* A command takes effect once, however often it is sent, whatever persist
\* reported and whether the host restarted in between.
CommandsOnce ==
    \A e, f \in Elements(store) :
        e.body = f.body /\ e.body \in Commands => SameId(e, f)

\* A command whose promise resolved survives every later crash.
AcknowledgedIsDurable ==
    \A op \in Op : status[op] = "resolved" /\ op.kind = "command" =>
        \E e \in Elements(store) : e.body = op.id

\* Every request is settled: a failure of the store or the publisher rejects it
\* and the lane goes on.
RequestsSettle ==
    \A op \in Requests : status[op] = "pending" ~> status[op] # "pending"

\* A queued batch is delivered in the end, unless the host stops first.
BatchesDelivered ==
    \A r \in 1..MaxRevision :
        (crashes = 0 /\ r \in Elements(queue))
            ~> (crashes > 0 \/ r \in Elements(delivered))
=============================================================================
