------------------------------ MODULE RoomRuns ------------------------------
(***************************************************************************)
(* Durable runs of room agents on one channel of one room:                 *)
(* RoomAgentRuntime (handleRunInput, resumeRun, cancelRun, interrupt) over *)
(* a store with the semantics of InMemoryRoomAgentRuntimeStore.            *)
(*                                                                         *)
(* Every call of the store is one step, so whatever runs between two calls *)
(* of the store is atomic and everything else interleaves: the intake      *)
(* lane, the executions, one host cancellation, timers and a crash.        *)
(*                                                                         *)
(* Abstracted: the text of an output is the number of its deltas; a        *)
(* continuation token is the attempt that asked; presenters, observers and *)
(* the context source only matter through the errors they raise, which     *)
(* DriverThrows stands for; a speech is one step, and stopping one may     *)
(* fail. The store refuses what its semantics refuse, and may fail for     *)
(* reasons of its own at every call.                                       *)
(***************************************************************************)
EXTENDS Naturals, Sequences, FiniteSets, TLC

CONSTANTS
    Inputs,       \* input ids, chosen by clients, kept across retries
    SpeakerOf,    \* the authenticated speaker of an input
    DiscOf,       \* the participants an input may be disclosed to
    RunIds,       \* ids the runtime may create for runs
    Slots,        \* executions alive at the same time in the process
    Outs,         \* logical output ids of a driver
    NoRun, None,
    DeadlineMs,   \* 0: no deadline
    MaxWork, MaxAttempt, MaxQueue, MaxClock, MaxCrashes   \* bounds

Terminal == {"completed", "canceled", "deadline_exceeded", "failed"}
Open == {"active", "waiting_for_input"}
RunRecord == [status : Terminal \cup Open, attempt : 1..(MaxAttempt + 1), root : Inputs,
              input : Inputs, disc : SUBSET UNION {DiscOf[i] : i \in Inputs},
              deadline : 0..(MaxClock + DeadlineMs), seq : Nat, checkpoint : 0..(MaxAttempt + 1),
              token : 0..(MaxAttempt + 1)]

ASSUME RoomRunsAssumption ==
    /\ NoRun \notin RunIds \cup RunRecord
    /\ None \notin Slots \cup Outs
    /\ DeadlineMs \in Nat /\ MaxWork \in Nat /\ MaxAttempt \in Nat \ {0}
    /\ MaxQueue \in Nat /\ MaxClock \in Nat /\ MaxCrashes \in Nat

VARIABLES
    runs,        \* durable: the run records
    journal,     \* durable: the events of each run
    inputRun,    \* durable: the run an input was admitted to
    transcript,  \* durable: transcript entries, their text by id
    clock,
    queue,       \* requests in the intake lane, the head being served
    intake,      \* where the service of the head is
    task,        \* executions
    active,      \* the controller activeTurns holds for the channel
    canceller,   \* a host cancellation under way
    begun,       \* ghost: runs that got past Start since their last admission, except
                 \* where a crash or the failed writing of their end left them
    presented,   \* how often an output was handed to the speech arbiter
    spent,       \* requests, host calls and driver events so far
    crashes

durable == <<runs, journal, inputRun, transcript>>
vars == <<runs, journal, inputRun, transcript, clock, queue, intake, task, active,
          canceller, begun, presented, spent, crashes>>

\* A journal entry. out/id name an output; reason is why a run was canceled.
Entry(kind, record, out, id, reason) ==
    [kind |-> kind, input |-> record.input, attempt |-> record.attempt, out |-> out,
     id |-> id, reason |-> reason]
Outputs == {"part", "final"}

\* Delivery ids are unique among the outputs of the run: a colliding base is escaped.
DeliveryId(used, attempt, out) ==
    LET free == {n \in 0..Cardinality(used) : <<attempt, out, n>> \notin used}
    IN  <<attempt, out, CHOOSE n \in free : \A m \in free : n <= m>>

\* The outputs of a journal as reconcileRecordedOutputs and executeRun read them.
Ids(events) == {events[k].id : k \in {j \in DOMAIN events : events[j].kind \in Outputs}}
Deltas(events, id) == {k \in DOMAIN events : events[k].kind \in Outputs /\ events[k].id = id}
LastDelta(events, id) == CHOOSE k \in Deltas(events, id) : \A j \in Deltas(events, id) : j <= k
ClosedIds(events) == {id \in Ids(events) : events[LastDelta(events, id)].kind = "final"}
TextOf(events, id) == Cardinality(Deltas(events, id))
\* reconcileRecordedOutputs: the entries the closed outputs of a journal belong in
Recorded(events, r) ==
    {[id |-> <<r, id>>, text |-> TextOf(events, id)] : id \in ClosedIds(events)}
\* Mutant: a recovery looks for the outputs of its own attempt only.
ClosedOfThisAttempt(events, record) ==
    {o \in Outs : \E k \in DOMAIN events :
        /\ events[k].kind = "final" /\ events[k].out = o
        /\ events[k].input = record.input /\ events[k].attempt = record.attempt}
ClosedRecovered(events, record) ==
    {o \in Outs : \E k \in DOMAIN events :
        /\ events[k].kind = "final" /\ events[k].out = o
        /\ events[k].input = record.input /\ events[k].attempt < record.attempt}

Exists(r) == runs[r] # NoRun
Spend == spent < MaxWork /\ spent' = spent + 1
Idle == [pc |-> "idle"]
FreeTask == [pc |-> "free"]
Live(t) == task[t].pc \notin {"free", "dead"}
Executes(t, r) == Live(t) /\ task[t].id = r

Init ==
    /\ runs = [r \in RunIds |-> NoRun]
    /\ journal = [r \in RunIds |-> <<>>]
    /\ inputRun = [i \in Inputs |-> NoRun]
    /\ transcript = {}
    /\ clock = 0
    /\ queue = <<>>
    /\ intake = Idle
    /\ task = [t \in Slots |-> FreeTask]
    /\ active = None
    /\ canceller = Idle
    /\ begun = {}
    /\ presented = [k \in RunIds \X Inputs \X Outs |-> 0]
    /\ spent = 0 /\ crashes = 0

-----------------------------------------------------------------------------
\* The store

\* Mutant: the store takes any record.
FreshAssumed(r, record) == Exists(r)
\* commitRunEvent: refused as stale unless nothing was appended since record was read.
Fresh(r, record) == runs[r].seq = record.seq
\* Mutant: the record keeps the sequence number it was read with.
AppendedUncounted(r, record, entry) ==
    /\ journal' = [journal EXCEPT ![r] = Append(@, entry)]
    /\ runs' = [runs EXCEPT ![r] = record]
    /\ UNCHANGED <<inputRun, transcript>>
Appended(r, record, entry) ==
    /\ journal' = [journal EXCEPT ![r] = Append(@, entry)]
    /\ runs' = [runs EXCEPT ![r] = [record EXCEPT !.seq = Len(journal[r]) + 1]]
    /\ UNCHANGED <<inputRun, transcript>>

\* finishRun's transition of a record that was read before.
Closed(r, record, status, reason) ==
    Appended(r, [record EXCEPT !.status = status, !.token = 0],
             Entry(status, record, None, None, reason))

\* admitRunInput takes a new run, or the next attempt of the waiting run it was built from.
Admissible(r, record) ==
    IF Exists(r)
    THEN /\ runs[r].status = "waiting_for_input"
         /\ record.root = runs[r].root
         /\ record.attempt = runs[r].attempt + 1
         /\ Fresh(r, record)
    ELSE record.seq = 0

\* saveRun's comparison: the next attempt of the same active run, nothing appended since
Acquirable(current, record) ==
    /\ current.status = "active"
    /\ current.input = record.input /\ current.root = record.root
    /\ record.attempt = current.attempt + 1
    /\ current.seq = record.seq

\* appendTranscript refuses an id that was used with another text.
Appendable(id, text) == \A e \in transcript : e.id = id => e.text = text

AbortAll(tasks, which, reason) ==
    [t \in Slots |-> IF t \in which /\ tasks[t].aborted = None
                     THEN [tasks[t] EXCEPT !.aborted = reason] ELSE tasks[t]]
ActiveOf(r) == {t \in Slots : t = active /\ Executes(t, r)}
ActiveNotOf(r) == {t \in Slots : t = active /\ Live(t) /\ ~Executes(t, r)}

-----------------------------------------------------------------------------
\* Intake: one request at a time, in order of arrival

Request == [input : Inputs, supersedes : RunIds \cup {NoRun},
            token : {NoRun} \cup (RunIds \X (1..MaxAttempt))]

\* Clients name only runs and tokens they saw; continuation and supersession exclude
\* each other.
Submit(q) ==
    /\ Len(queue) < MaxQueue
    /\ q.supersedes = NoRun \/ q.token = NoRun
    /\ q.supersedes # NoRun => Exists(q.supersedes)
    /\ q.token # NoRun => Exists(q.token[1]) /\ q.token[2] <= runs[q.token[1]].attempt
    /\ Spend
    /\ queue' = Append(queue, q)
    /\ UNCHANGED <<durable, clock, intake, task, active, canceller, begun, presented, crashes>>

\* The lane moves on; an execution waits for the admissions queued when it was admitted.
Dequeue(tasks) ==
    /\ intake' = Idle
    /\ queue' = Tail(queue)
    /\ task' = [t \in Slots |-> IF tasks[t].pc = "wait" /\ tasks[t].wait > 0
                                THEN [tasks[t] EXCEPT !.wait = @ - 1] ELSE tasks[t]]
Rejected == Dequeue(task) /\ UNCHANGED <<durable, active>>

\* The record and the next step once the open run (or NoRun) of the channel is known.
Continues(q, open) ==
    /\ open # NoRun /\ runs[open].status = "waiting_for_input"
    /\ SpeakerOf[runs[open].input] = SpeakerOf[q.input]

Build(q, open) ==
    LET deadline == IF DeadlineMs = 0 THEN 0 ELSE clock + DeadlineMs
        continued == [runs[open] EXCEPT !.status = "active", !.attempt = @ + 1,
                          !.input = q.input, !.disc = @ \cap DiscOf[q.input],
                          !.deadline = deadline, !.token = 0]
        fresh == [status |-> "active", attempt |-> 1, root |-> q.input, input |-> q.input,
                  disc |-> DiscOf[q.input], deadline |-> deadline, seq |-> 0,
                  checkpoint |-> IF q.supersedes = NoRun THEN 0 ELSE 1, token |-> 0]
    IN  \/ /\ Continues(q, open)
           /\ continued.disc # {}
           /\ intake' = [pc |-> "admit", id |-> open, record |-> continued]
        \/ /\ ~Continues(q, open)
           /\ q.token = NoRun
           /\ ~(q.supersedes # NoRun /\ open # NoRun)
           /\ \E r \in RunIds :
                /\ ~Exists(r)
                /\ intake' = IF open = NoRun
                             THEN [pc |-> "admit", id |-> r, record |-> fresh]
                             ELSE [pc |-> "cancel", id |-> r, record |-> fresh, open |-> open]

BuildRefused(q, open) ==
    \/ Continues(q, open) /\ runs[open].disc \cap DiscOf[q.input] = {}
    \/ ~Continues(q, open) /\ (q.token # NoRun \/ (q.supersedes # NoRun /\ open # NoRun))

Proceed(q, open) ==
    \/ /\ Build(q, open)
       /\ UNCHANGED <<durable, queue, task, active>>
    \/ /\ BuildRefused(q, open)
       /\ Rejected

\* loadRunByInput: an exact retry answers with the admitted run and changes nothing.
IntakeLook ==
    /\ intake.pc = "idle" /\ queue # <<>>
    /\ \/ /\ inputRun[Head(queue).input] # NoRun
          /\ Rejected
       \/ /\ inputRun[Head(queue).input] = NoRun
          /\ intake' = [pc |-> "open"]
          /\ UNCHANGED <<durable, queue, task, active>>
    /\ UNCHANGED <<clock, canceller, begun, presented, spent, crashes>>

\* Mutant: a run that waits for its speaker does not count as open.
OpenRunsActive == {r \in RunIds : Exists(r) /\ runs[r].status = "active"}
OpenRuns == {r \in RunIds : Exists(r) /\ runs[r].status \in Open}

\* The proof a retried supersession needs when the channel has no open run.
SupersededDurably(r) ==
    /\ runs[r].status = "canceled"
    /\ journal[r][Len(journal[r])].reason = "input"

\* A continuation names the waiting run and the token of its last request.
TokenAdmits(q, open) ==
    q.token # NoRun =>
        /\ open = q.token[1]
        /\ runs[open].status = "waiting_for_input" /\ runs[open].token = q.token[2]

\* loadOpenRun, and loadRun of the run a supersession names
IntakeOpen ==
    LET q == Head(queue) IN
    /\ intake.pc = "open"
    /\ \E open \in IF OpenRuns = {} THEN {NoRun} ELSE OpenRuns :
        \/ ~TokenAdmits(q, open) /\ Rejected
        \/ /\ TokenAdmits(q, open)
           /\ \/ q.supersedes = NoRun /\ Proceed(q, open)
              \/ /\ q.supersedes # NoRun
                 /\ \/ open \notin {NoRun, q.supersedes} /\ Rejected
                    \/ open = NoRun /\ ~SupersededDurably(q.supersedes) /\ Rejected
                    \/ open = NoRun /\ SupersededDurably(q.supersedes) /\ Proceed(q, NoRun)
                    \/ /\ open = q.supersedes
                       /\ runs[open].status = "waiting_for_input"
                       /\ Proceed(q, open)
                    \/ /\ open = q.supersedes /\ runs[open].status = "active"
                       /\ intake' = [pc |-> "supersede", open |-> open, record |-> runs[open]]
                       /\ UNCHANGED <<durable, queue, task, active>>
    /\ UNCHANGED <<clock, canceller, begun, presented, spent, crashes>>

\* cancelActiveRunForSupersession: retried while the run moves on, given up to a
\* waiting transition that won. Stopping the speech or publishing the cancellation may
\* fail and reject the request.
IntakeSupersede ==
    LET q == Head(queue)
        r == intake.open
    IN
    /\ intake.pc = "supersede"
    /\ \/ /\ Fresh(r, intake.record)
          /\ intake.record.status = "active"
          /\ Closed(r, intake.record, "canceled", "input")
          /\ task' = AbortAll(task, ActiveOf(r), "input")
          /\ \E new \in RunIds :
                /\ ~Exists(new)
                /\ intake' = [pc |-> "admit", id |-> new, record |->
                     [status |-> "active", attempt |-> 1, root |-> q.input, input |-> q.input,
                      disc |-> DiscOf[q.input],
                      deadline |-> IF DeadlineMs = 0 THEN 0 ELSE clock + DeadlineMs,
                      seq |-> 0, checkpoint |-> 1, token |-> 0]]
          /\ UNCHANGED <<queue, active>>
       \/ /\ Fresh(r, intake.record)
          /\ intake.record.status = "active"
          /\ Closed(r, intake.record, "canceled", "input")
          /\ Dequeue(AbortAll(task, ActiveOf(r), "input"))
          /\ UNCHANGED active
       \/ /\ ~Fresh(r, intake.record)
          /\ \/ runs[r].status = "waiting_for_input" /\ Proceed(q, r)
             \/ /\ runs[r].status = "active"
                /\ intake' = [intake EXCEPT !.record = runs[r]]
                /\ UNCHANGED <<durable, queue, task, active>>
             \/ runs[r].status \in Terminal /\ Rejected
    /\ UNCHANGED <<clock, canceller, begun, presented, spent, crashes>>

\* cancelRun of the run a new input replaces. A transition that loses to another event
\* fails the admission, and so do a speech that cannot be stopped and a cancellation that
\* cannot be published.
IntakeCancel ==
    LET r == intake.open IN
    /\ intake.pc = "cancel"
    /\ \/ /\ runs[r].status \in Terminal
          /\ intake' = [pc |-> "admit", id |-> intake.id, record |-> intake.record]
          /\ UNCHANGED <<durable, queue, task, active>>
       \/ /\ runs[r].status \in Open
          /\ task' = AbortAll(task, ActiveOf(r), "input")
          /\ intake' = [pc |-> "close", id |-> intake.id, record |-> intake.record,
                        open |-> r, read |-> runs[r]]
          /\ UNCHANGED <<durable, queue, active>>
       \/ /\ ActiveOf(r) # {} /\ runs[r].status \in Open
          /\ Dequeue(AbortAll(task, ActiveOf(r), "input"))
          /\ UNCHANGED <<durable, active>>
    /\ UNCHANGED <<clock, canceller, begun, presented, spent, crashes>>

IntakeClose ==
    LET r == intake.open IN
    /\ intake.pc = "close"
    /\ \/ /\ Fresh(r, intake.read)
          /\ Closed(r, intake.read, "canceled", "input")
          /\ \/ /\ intake' = [pc |-> "admit", id |-> intake.id, record |-> intake.record]
                /\ UNCHANGED <<queue, task>>
             \/ Dequeue(task)
          /\ UNCHANGED active
       \/ ~Fresh(r, intake.read) /\ Rejected
    /\ UNCHANGED <<clock, canceller, begun, presented, spent, crashes>>

\* admitRunInput: transcript, run and index in one transaction
IntakeAdmit ==
    LET q == Head(queue)
        r == intake.id
        admissible == Admissible(r, intake.record)
    IN
    /\ intake.pc = "admit"
    /\ \/ /\ admissible
          /\ runs' = [runs EXCEPT ![r] = intake.record]
          /\ inputRun' = [inputRun EXCEPT ![q.input] = r]
          /\ transcript' = transcript \cup {[id |-> q.input, text |-> 1]}
          /\ intake' = [intake EXCEPT !.pc = "handoff"]
          /\ begun' = begun \ {r}
          /\ UNCHANGED <<journal, queue, task, active>>
       \/ ~admissible /\ Rejected /\ UNCHANGED begun
    /\ UNCHANGED <<clock, canceller, presented, spent, crashes>>

NewTask(pc, r, record, wait, resumed) ==
    [pc |-> pc, id |-> r, run |-> record, wait |-> wait, resumed |-> resumed, aborted |-> None,
     timer |-> 0, closed |-> {}, used |-> {}, out |-> [o \in Outs |-> [id |-> None, text |-> 0, final |-> FALSE]],
     pend |-> None]

\* The store fails before it changed anything, which rejects the request.
IntakeFails ==
    /\ intake.pc \in {"open", "supersede", "cancel", "close", "admit"}
    /\ Rejected
    /\ UNCHANGED <<clock, canceller, begun, presented, spent, crashes>>

\* The admission ends by taking the channel over: another run is interrupted, the new
\* execution waits for the admissions that are already queued. An interruption that fails
\* rejects the request although its run is stored as active.
IntakeHandoff ==
    /\ intake.pc = "handoff"
    /\ \/ \E t \in Slots :
           /\ task[t].pc = "free"
           /\ active' = t
           /\ Dequeue([AbortAll(task, ActiveNotOf(intake.id), "input") EXCEPT ![t] =
                  NewTask("wait", intake.id, intake.record, Len(queue), FALSE)])
       \/ /\ active # None /\ task[active].id # intake.id
          /\ Dequeue(AbortAll(task, ActiveNotOf(intake.id), "input"))
          /\ UNCHANGED active
    /\ UNCHANGED <<durable, clock, canceller, begun, presented, spent, crashes>>

-----------------------------------------------------------------------------
\* Executions

\* An execution ends: its controller is cleared if it still holds the channel.
EndTask(t) ==
    /\ task' = [task EXCEPT ![t] = FreeTask]
    /\ active' = IF active = t THEN None ELSE active

\* executeRun's beginning: read the journal, repair the transcript, look at the abort
\* signal and the deadline. An error here is caught by nothing: a store that fails, or a
\* transcript that holds an output otherwise, leaves the run as it is and the controller
\* on the channel.
Start(t) ==
    LET k == task[t]
        events == journal[k.id]
        unrepaired == Recorded(events, k.id)
    IN
    /\ k.pc = "wait" /\ k.wait = 0
    /\ \/ /\ task' = [task EXCEPT ![t] = [k EXCEPT !.pc = "dead"]]
          /\ UNCHANGED <<transcript, begun>>
       \/ /\ \A e \in unrepaired : Appendable(e.id, e.text)
          /\ transcript' = transcript \cup unrepaired
          /\ begun' = begun \cup {k.id}
          /\ task' = [task EXCEPT ![t] =
                 [k EXCEPT !.closed = ClosedRecovered(events, k.run), !.used = Ids(events),
                           !.timer = k.run.deadline,
                           !.pc = IF k.aborted = None /\ (k.run.deadline = 0 \/ clock < k.run.deadline)
                                  THEN "drive" ELSE "settle",
                           !.pend = IF k.aborted = None THEN "deadline_exceeded" ELSE "aborted"]]
    /\ UNCHANGED <<runs, journal, inputRun, clock, queue, intake, active, canceller,
                   presented, spent, crashes>>

\* A driver yields an event; the abort signal was looked at when it did.
Yield(t, kind, o) ==
    LET k == task[t]
        id == IF k.out[o].id = None THEN DeliveryId(k.used, k.run.attempt, o) ELSE k.out[o].id
    IN
    /\ k.pc = "drive" /\ k.aborted = None
    /\ Spend
    /\ kind = "input_requested" => k.run.attempt < MaxAttempt
    /\ kind \in Outputs => ~(k.resumed /\ o \in k.closed)
    /\ \/ /\ kind \in {"input_requested", "completed"}
          /\ \E p \in Outs : k.out[p].text > 0 /\ ~k.out[p].final
          /\ task' = [task EXCEPT ![t] = [k EXCEPT !.pc = "settle", !.pend = "failed"]]
       \/ /\ kind \in {"input_requested", "completed"} =>
                \A p \in Outs : k.out[p].text = 0 \/ k.out[p].final
          /\ task' = [task EXCEPT ![t] =
                 [k EXCEPT !.pc = "commit", !.pend = Entry(kind, k.run, o,
                                                           IF kind \in Outputs THEN id ELSE None, None),
                           !.used = IF kind \in Outputs THEN @ \cup {id} ELSE @,
                           !.out[o].id = IF kind \in Outputs THEN id ELSE @]]
    /\ UNCHANGED <<durable, clock, queue, intake, active, canceller, begun, presented, crashes>>

\* The iterator ends: an open output is an error, otherwise completion is implicit.
DriverEnds(t) ==
    LET k == task[t] IN
    /\ k.pc = "drive" /\ k.aborted = None
    /\ task' = [task EXCEPT ![t] =
           IF \E p \in Outs : k.out[p].text > 0 /\ ~k.out[p].final
           THEN [k EXCEPT !.pc = "settle", !.pend = "failed"]
           ELSE [k EXCEPT !.pc = "commit", !.pend = Entry("completed", k.run, None, None, None)]]
    /\ UNCHANGED <<durable, clock, queue, intake, active, canceller, begun, presented, spent, crashes>>

\* The catch of executeRun: the abort explains the error, else the run failed.
Failing(k) == [k EXCEPT !.pc = "settle", !.pend = IF k.aborted = None THEN "failed" ELSE "aborted"]

\* The driver, the context source, a presenter or the speech adapter throws, the store at an
\* event or an output, or an observer once an event is stored.
DriverThrows(t) ==
    /\ task[t].pc \in {"drive", "commit", "utter", "record", "return"}
    /\ task' = [task EXCEPT ![t] = Failing(task[t])]
    /\ UNCHANGED <<durable, clock, queue, intake, active, canceller, begun, presented, spent, crashes>>

\* Mutant: an aborted execution returns without finishing its run.
SeesAbortAndLeaves(t) ==
    /\ task[t].pc = "drive" /\ task[t].aborted # None
    /\ EndTask(t)
    /\ UNCHANGED <<durable, clock, queue, intake, canceller, begun, presented, spent, crashes>>

\* The loop sees the signal between two events.
SeesAbort(t) ==
    /\ task[t].pc = "drive" /\ task[t].aborted # None
    /\ task' = [task EXCEPT ![t] = Failing(task[t])]
    /\ UNCHANGED <<durable, clock, queue, intake, active, canceller, begun, presented, spent, crashes>>

\* commitRunEvent for an execution: the event and the transition of its run, or a refusal.
CommitEvent(t) ==
    LET k == task[t]
        e == k.pend
        next == CASE e.kind = "completed" -> [k.run EXCEPT !.status = "completed", !.token = 0]
                  [] e.kind = "input_requested" ->
                       [k.run EXCEPT !.status = "waiting_for_input", !.deadline = 0,
                                     !.token = k.run.attempt]
                  [] e.kind = "checkpoint" -> [k.run EXCEPT !.checkpoint = k.run.attempt]
                  [] OTHER -> k.run
        settled == [next EXCEPT !.seq = Len(journal[k.id]) + 1]
        out == IF e.kind \in Outputs /\ e.out # None
               THEN [k.out EXCEPT ![e.out].text = @ + 1, ![e.out].final = (e.kind = "final")]
               ELSE k.out
    IN
    /\ k.pc = "commit"
    /\ \/ /\ ~Fresh(k.id, k.run)
          /\ task' = [task EXCEPT ![t] = Failing(k)]
          /\ UNCHANGED durable
       \/ /\ Fresh(k.id, k.run)
          /\ Appended(k.id, next, e)
          /\ task' = [task EXCEPT ![t] =
                 IF e.kind \in Outputs /\ e.out # None /\ k.out[e.out].final
                 THEN Failing([k EXCEPT !.run = settled])
                 ELSE [k EXCEPT !.run = settled, !.out = out,
                          !.pc = CASE e.kind = "final" -> "record"
                                   [] e.kind = "decision" -> "utter"
                                   [] e.kind \in {"completed", "input_requested"} -> "return"
                                   [] OTHER -> "drive"]]
    /\ UNCHANGED <<clock, queue, intake, active, canceller, begun, presented, spent, crashes>>

\* The utterance of a decision is an output of the runtime, closed at once and under an
\* id of its own.
Utter(t) ==
    LET k == task[t] IN
    /\ k.pc = "utter"
    /\ task' = [task EXCEPT ![t] = [k EXCEPT !.pc = "commit", !.pend =
           Entry("final", k.run, None, <<k.run.attempt, None, Len(journal[k.id])>>, None)]]
    /\ UNCHANGED <<durable, clock, queue, intake, active, canceller, begun, presented, spent, crashes>>

\* A closed output goes to the transcript, then to the speech arbiter, which refuses it
\* once the turn is aborted.
RecordOutput(t) ==
    LET k == task[t]
        id == <<k.id, k.pend.id>>
        text == IF k.pend.out = None THEN 1 ELSE k.out[k.pend.out].text
        speaks == k.aborted = None /\ k.pend.out # None
    IN
    /\ k.pc = "record"
    /\ IF Appendable(id, text)
       THEN /\ transcript' = transcript \cup {[id |-> id, text |-> text]}
            /\ task' = [task EXCEPT ![t] = [k EXCEPT !.pc = "drive"]]
            /\ presented' = IF speaks THEN [presented EXCEPT ![<<k.id, k.run.input, k.pend.out>>] = @ + 1]
                            ELSE presented
       ELSE task' = [task EXCEPT ![t] = Failing(k)] /\ UNCHANGED <<transcript, presented, crashes>>
    /\ UNCHANGED <<runs, journal, inputRun, clock, queue, intake, active, canceller, begun, spent, crashes>>

\* After a terminal or waiting event the signal is looked at once more; the timer runs
\* until the execution returns.
Return(t) ==
    /\ task[t].pc = "return"
    /\ \/ task[t].aborted = None /\ EndTask(t)
       \/ /\ task[t].aborted # None
          /\ task' = [task EXCEPT ![t] = Failing(task[t])]
          /\ UNCHANGED active
    /\ UNCHANGED <<durable, clock, queue, intake, canceller, begun, presented, spent, crashes>>

\* The store fails at the end of a run: nobody is left to try again.
EndLost(t) ==
    /\ EndTask(t)
    /\ begun' = begun \ {task[t].id}
    /\ UNCHANGED durable

\* finishRun: the run is read again and left alone if it is terminal ...
Settle(t) ==
    LET k == task[t] IN
    /\ k.pc = "settle"
    /\ \/ runs[k.id].status \in Terminal /\ EndTask(t) /\ UNCHANGED <<durable, begun>>
       \/ /\ runs[k.id].status \in Open
          /\ task' = [task EXCEPT ![t] = [k EXCEPT !.pc = "finish", !.run = runs[k.id]]]
          /\ UNCHANGED <<durable, active, begun>>
       \/ EndLost(t)
    /\ UNCHANGED <<clock, queue, intake, canceller, presented, spent, crashes>>

\* ... and closed otherwise, unless another event came in between.
Finish(t) ==
    LET k == task[t]
        status == CASE k.pend # "aborted" -> k.pend
                    [] k.aborted = "deadline" -> "deadline_exceeded"
                    [] OTHER -> "canceled"
    IN
    /\ k.pc = "finish"
    /\ \/ /\ Fresh(k.id, k.run)
          /\ Closed(k.id, k.run, status, IF status = "canceled" THEN k.aborted ELSE None)
          /\ EndTask(t) /\ UNCHANGED begun
       \/ ~Fresh(k.id, k.run) /\ EndTask(t) /\ UNCHANGED <<durable, begun>>
       \/ EndLost(t)
    /\ UNCHANGED <<clock, queue, intake, canceller, presented, spent, crashes>>

\* The deadline timer of an execution
Timer(t) ==
    /\ task[t].pc \in {"drive", "commit", "record", "return", "settle", "finish"}
    /\ task[t].aborted = None
    /\ task[t].timer # 0 /\ clock >= task[t].timer
    /\ task' = [task EXCEPT ![t].aborted = "deadline"]
    /\ UNCHANGED <<durable, clock, queue, intake, active, canceller, begun, presented, spent, crashes>>

-----------------------------------------------------------------------------
\* The host: resume, cancel, interrupt

\* resumeRun reads the run, interrupts the channel, which may fail, and takes its
\* controller ...
ResumeRun(t, r) ==
    /\ Spend
    /\ task[t].pc = "free"
    /\ Exists(r) /\ runs[r].status = "active" /\ runs[r].attempt < MaxAttempt
    /\ task' = [task EXCEPT ![t] = NewTask("resume", r, runs[r], 0, TRUE)]
    /\ UNCHANGED <<durable, clock, queue, intake, active, canceller, begun, presented, crashes>>

TakeChannel(t) ==
    LET k == task[t] IN
    /\ k.pc = "resume"
    /\ \/ /\ task' = [AbortAll(task, {active} \cap Slots, "resumed") EXCEPT ![t] =
                  [k EXCEPT !.pc = "save", !.run.attempt = @ + 1]]
          /\ active' = t
       \/ /\ active # None
          /\ task' = [AbortAll(task, {active}, "resumed") EXCEPT ![t] = FreeTask]
          /\ UNCHANGED active
    /\ UNCHANGED <<durable, clock, queue, intake, canceller, begun, presented, spent, crashes>>

\* ... and acquires the run by compare-and-set. A refusal leaves the run to its owner, a
\* store that fails leaves the controller on the channel.
SaveRun(t) ==
    LET k == task[t]
        acquired == Acquirable(runs[k.id], k.run)
    IN
    /\ k.pc = "save"
    /\ \/ /\ acquired
          /\ runs' = [runs EXCEPT ![k.id] = k.run]
          /\ task' = [task EXCEPT ![t].pc = "wait"]
          /\ UNCHANGED active
       \/ ~acquired /\ EndTask(t) /\ UNCHANGED runs
       \/ task' = [task EXCEPT ![t].pc = "dead"] /\ UNCHANGED <<runs, active>>
    /\ UNCHANGED <<journal, inputRun, transcript, clock, queue, intake, canceller, begun,
                   presented, spent, crashes>>

\* cancelRun: abort the run's own controller, then finishRun unless its speech cannot be
\* stopped
CancelRun(r) ==
    /\ Spend
    /\ canceller = Idle
    /\ Exists(r) /\ runs[r].status \in Open
    /\ task' = AbortAll(task, ActiveOf(r), "host")
    /\ \/ canceller' = [pc |-> "close", id |-> r, read |-> runs[r]]
       \/ ActiveOf(r) # {} /\ UNCHANGED canceller
    /\ UNCHANGED <<durable, clock, queue, intake, active, begun, presented, crashes>>

CancelClose ==
    /\ canceller.pc = "close"
    /\ canceller' = Idle
    /\ \/ /\ Fresh(canceller.id, canceller.read)
          /\ Closed(canceller.id, canceller.read, "canceled", "host")
       \/ UNCHANGED durable   \* refused, or the store failed
    /\ UNCHANGED <<clock, queue, intake, task, active, begun, presented, spent, crashes>>

\* interrupt: every active turn of the room
Interrupt ==
    /\ Spend
    /\ active # None /\ Live(active) /\ task[active].aborted = None
    /\ task' = AbortAll(task, {active}, "host")
    /\ UNCHANGED <<durable, clock, queue, intake, active, canceller, begun, presented, crashes>>

-----------------------------------------------------------------------------
\* The environment

\* The process stops: only the store remains.
Crash ==
    /\ crashes < MaxCrashes
    /\ crashes' = crashes + 1
    /\ queue' = <<>> /\ intake' = Idle /\ canceller' = Idle
    /\ task' = [t \in Slots |-> FreeTask]
    /\ active' = None
    /\ begun' = {}
    /\ UNCHANGED <<durable, clock, presented, spent>>

Tick ==
    /\ clock < MaxClock
    /\ clock' = clock + 1
    /\ Spend
    /\ UNCHANGED <<durable, queue, intake, task, active, canceller, begun, presented, crashes>>

Serve == IntakeLook \/ IntakeOpen \/ IntakeSupersede \/ IntakeCancel \/ IntakeClose
         \/ IntakeAdmit \/ IntakeFails \/ IntakeHandoff

Drive(t) ==
    \/ \E kind \in {"part", "final", "checkpoint", "decision", "input_requested", "completed"},
          o \in Outs : Yield(t, kind, o)
    \/ DriverEnds(t)
    \/ DriverThrows(t)

Run(t) ==
    \/ Start(t) \/ SeesAbort(t) \/ CommitEvent(t) \/ Utter(t) \/ RecordOutput(t)
    \/ Return(t) \/ Settle(t) \/ Finish(t) \/ TakeChannel(t) \/ SaveRun(t)

Next ==
    \/ \E q \in Request : Submit(q)
    \/ Serve
    \/ \E t \in Slots : Drive(t) \/ Run(t) \/ Timer(t)
    \/ \E t \in Slots, r \in RunIds : ResumeRun(t, r)
    \/ \E r \in RunIds : CancelRun(r)
    \/ CancelClose \/ Interrupt \/ Crash \/ Tick

Spec == Init /\ [][Next]_vars

-----------------------------------------------------------------------------
\* Properties

\* The stored records are well formed and name admitted inputs.
TypeOK ==
    /\ \A r \in RunIds : Exists(r) =>
         /\ runs[r] \in RunRecord
         /\ runs[r].seq = Len(journal[r])
         /\ inputRun[runs[r].input] = r /\ inputRun[runs[r].root] = r
    /\ inputRun \in [Inputs -> RunIds \cup {NoRun}]
    /\ active \in Slots \cup {None}
    /\ clock \in 0..MaxClock /\ spent \in 0..MaxWork /\ crashes \in 0..MaxCrashes

\* However admissions, resumptions and cancellations interleave, and wherever the process
\* stops, a channel never has two open runs.
OneOpenRun ==
    Cardinality({r \in RunIds : Exists(r) /\ runs[r].status \in {"active", "waiting_for_input"}}) <= 1

\* The transcript holds every closed output of a run that completed or waits, whichever
\* attempt closed it and although a crash may fall between the journal and the transcript.
RecordedOutputs ==
    \A r \in RunIds :
        Exists(r) /\ runs[r].status \in {"completed", "waiting_for_input"} =>
            \A id \in ClosedIds(journal[r]) : \E e \in transcript : e.id = <<r, id>>

\* A logical output is handed to speech at most once for an input, over all the attempts
\* a recovery makes.
PresentedOnce ==
    \A k \in DOMAIN presented : presented[k] <= 1

\* A recovery loses no output and repeats none.
OutputsOnce == RecordedOutputs /\ PresentedOnce

\* Once an execution has begun to drive a run, the run is active only while an execution
\* will bring it to an end, whatever the driver, its observers, the speech adapter and the
\* store fail at and however newer inputs, resumptions and cancellations interleave: only a
\* crash and a store that fails while the end itself is read or written leave one behind.
BegunRunsTended ==
    \A r \in RunIds \cap begun :
        Exists(r) /\ runs[r].status = "active" =>
            \E t \in Slots :
                /\ task[t].pc \in {"drive", "commit", "utter", "record", "settle", "finish"}
                /\ task[t].id = r

\* A terminal run stays as it is: what an older execution, a cancellation or a resumption
\* read before the run ended is never written over it.
TerminalStays ==
    [][\A r \in RunIds : Exists(r) /\ runs[r].status \in Terminal =>
           runs'[r] = runs[r] /\ journal'[r] = journal[r]]_vars

\* Not kept by the code, TLC finds a run that breaks it: the deadline of a run goes on while
\* the run waits for its speaker, and its timer ends the waiting run.
WaitingHasNoDeadline ==
    [][\A r \in RunIds : Exists(r) /\ runs[r].status = "waiting_for_input" =>
           runs'[r].status # "deadline_exceeded"]_vars

\* Not kept by the code, TLC finds a run that breaks it: resumeRun interrupts what is active
\* on the channel before it looks at the run it was given, and cancels a run begun since.
ResumeKeepsRuns ==
    \A r \in RunIds : \A k \in DOMAIN journal[r] : journal[r][k].reason # "resumed"

\* Not kept by the code, TLC finds a run that breaks it: without a crash an admitted run may
\* have no execution. Its admission stores it and then fails to interrupt the channel
\* (room-agent-runtime.ts:1490), its execution fails before it begins (:1517), or the store
\* fails where its end is written (:1936); nothing but a newer input or the host's resumeRun
\* or cancelRun takes it up again.
NoRunForgotten ==
    \A r \in RunIds :
        Exists(r) /\ runs[r].status = "active" /\ crashes = 0 =>
            \/ \E t \in Slots : Executes(t, r)
            \/ intake.pc = "handoff" /\ intake.id = r

-----------------------------------------------------------------------------
\* The instance of the runs: every input is a visitor's, and inputs, runs and slots are
\* interchangeable.
MCSpeaker == [i \in Inputs |-> "visitor"]
MCDisc == [i \in Inputs |-> {"visitor"}]
MCSymmetry == Permutations(Inputs) \cup Permutations(RunIds) \cup Permutations(Slots)
=============================================================================
