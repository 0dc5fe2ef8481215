---------------------------- MODULE RoomRuns_proofs ----------------------------
(***************************************************************************)
(* Theorems about RoomRuns for any inputs, runs, executions, outputs and   *)
(* bounds.  Three invariants build on each other.                          *)
(*                                                                         *)
(* RunsInv: whatever anybody read of a run and still holds (an execution,  *)
(* the intake, a cancellation) is a Snapshot: older than the run, or, when *)
(* nothing was appended since, of a run that is still open.  So a          *)
(* transition that the store takes never starts from an ended run.         *)
(*                                                                         *)
(* RunsKept: a run that was begun and is active has an execution past its  *)
(* beginning that will end it.                                             *)
(*                                                                         *)
(* OutputsInv: an execution that the store still listens to has seen every *)
(* output of its input, and the transcript holds all that are closed but   *)
(* the one it is about to record.                                          *)
(***************************************************************************)
EXTENDS RoomRuns, SequenceFilter

-----------------------------------------------------------------------------
\* The runs and what was read of them

TaskFields == {"pc", "id", "run", "wait", "resumed", "aborted", "timer", "closed",
               "used", "out", "pend"}
\* Executions that still act on what they read when the run was active
Driving == {"drive", "commit", "utter", "record"}
Working == {"wait", "resume", "save"} \cup Driving
Failures == {"failed", "aborted", "deadline_exceeded"}

\* What is known of a record that was read of run r before.
Snapshot(r, rec) ==
    /\ r \in RunIds /\ rec \in RunRecord
    /\ Exists(r)
    /\ inputRun[rec.input] = r /\ inputRun[rec.root] = r
    /\ rec.attempt <= MaxAttempt
    /\ rec.seq <= runs[r].seq
    /\ rec.status \in Open
    /\ Fresh(r, rec) => runs[r].status \in Open
    /\ Fresh(r, rec) /\ rec.status = "active" => runs[r].status = "active"

\* A journal is a sequence.
Listed(events) == events \in Seq(Elements(events))

RunOK(r) ==
    /\ runs[r] \in RunRecord \cup {NoRun}
    /\ Listed(journal[r])
    /\ ~Exists(r) => journal[r] = <<>>
    /\ Exists(r) =>
        /\ runs[r].seq = Len(journal[r])
        /\ inputRun[runs[r].input] = r /\ inputRun[runs[r].root] = r
        /\ runs[r].attempt <= MaxAttempt
        /\ runs[r].status = "waiting_for_input" => runs[r].attempt < MaxAttempt

TaskOK(k) ==
    /\ "pc" \in DOMAIN k
    /\ k.pc # "free" =>
        /\ DOMAIN k = TaskFields
        /\ k.id \in RunIds /\ Exists(k.id)
    /\ k.pc \in Working => Snapshot(k.id, k.run) /\ k.run.status = "active"
    /\ k.pc = "resume" => k.run.attempt < MaxAttempt
    /\ k.pc = "commit" /\ k.pend.kind = "input_requested" => k.run.attempt < MaxAttempt
    /\ k.pc \in {"settle", "finish"} => k.pend \in Failures
    /\ k.pc = "finish" => Snapshot(k.id, k.run)

CancellerOK ==
    \/ canceller = Idle
    \/ /\ canceller.pc = "close"
       /\ Snapshot(canceller.id, canceller.read)

\* The record of a run that is to be admitted for an input
NewRecord(rec, input) ==
    /\ rec \in RunRecord
    /\ rec.status = "active" /\ rec.attempt = 1 /\ rec.seq = 0
    /\ rec.input = input /\ rec.root = input

IntakeOK ==
    LET input == Head(queue).input IN
    \/ intake = Idle
    \/ /\ queue # <<>>
       /\ \/ intake.pc = "handoff"
          \/ inputRun[input] = NoRun
       /\ \/ intake.pc = "open"
          \/ /\ intake.pc = "supersede"
             /\ intake = [pc |-> "supersede", open |-> intake.open, record |-> intake.record]
             /\ Snapshot(intake.open, intake.record)
             /\ OpenRuns \subseteq {intake.open}
          \/ /\ intake.pc = "cancel"
             /\ intake = [pc |-> "cancel", id |-> intake.id, record |-> intake.record,
                          open |-> intake.open]
             /\ intake.id \in RunIds /\ ~Exists(intake.id)
             /\ NewRecord(intake.record, input)
             /\ intake.open \in RunIds /\ Exists(intake.open)
             /\ OpenRuns \subseteq {intake.open}
          \/ /\ intake.pc = "close"
             /\ intake = [pc |-> "close", id |-> intake.id, record |-> intake.record,
                          open |-> intake.open, read |-> intake.read]
             /\ intake.id \in RunIds /\ ~Exists(intake.id)
             /\ NewRecord(intake.record, input)
             /\ Snapshot(intake.open, intake.read)
             /\ OpenRuns \subseteq {intake.open}
          \/ /\ intake.pc = "admit"
             /\ intake = [pc |-> "admit", id |-> intake.id, record |-> intake.record]
             /\ intake.id \in RunIds /\ ~Exists(intake.id)
             /\ NewRecord(intake.record, input)
             /\ OpenRuns = {}
          \/ /\ intake.pc = "admit"
             /\ intake = [pc |-> "admit", id |-> intake.id, record |-> intake.record]
             /\ intake.id \in RunIds /\ Exists(intake.id)
             /\ intake.record \in RunRecord /\ intake.record.status = "active"
             /\ intake.record.input = input
             /\ intake.record.attempt <= MaxAttempt
          \/ /\ intake.pc = "handoff"
             /\ Snapshot(intake.id, intake.record)
             /\ intake.record.status = "active"

Stored ==
    /\ runs \in [RunIds -> RunRecord \cup {NoRun}]
    /\ DOMAIN journal = RunIds
    /\ inputRun \in [Inputs -> RunIds \cup {NoRun}]
    /\ \A r \in RunIds : RunOK(r)
    /\ \A r, s \in OpenRuns : r = s

Typed ==
    /\ queue \in Seq(Request)
    /\ DOMAIN task = Slots
    /\ active \in Slots \cup {None}
    /\ clock \in 0..MaxClock /\ spent \in 0..MaxWork /\ crashes \in 0..MaxCrashes

RunsInv ==
    /\ Stored /\ Typed
    /\ \A t \in Slots : TaskOK(task[t])
    /\ CancellerOK
    /\ IntakeOK

-----------------------------------------------------------------------------
\* Who will end a run

\* Execution t will bring run r to an end, or see that somebody did.
Keeper(t, r) ==
    /\ task[t].pc \in {"settle", "finish"} \cup Driving
    /\ task[t].id = r
    /\ task[t].pc = "finish" => Fresh(r, task[t].run)

IsActive(r) == Exists(r) /\ runs[r].status = "active"
Tended(r) ==
    \/ r \notin begun
    \/ \E t \in Slots : Keeper(t, r)
RunsKept == \A r \in RunIds : IsActive(r) => Tended(r)

-----------------------------------------------------------------------------
\* Outputs

\* The closing entries of an output for an input
Finals(events, input, o) ==
    {n \in DOMAIN events : /\ events[n].kind = "final" /\ events[n].out = o
                           /\ events[n].input = input}
Noted(r) == \A id \in ClosedIds(journal[r]) : \E e \in transcript : e.id = <<r, id>>
NotedBut(r, last) ==
    \A id \in ClosedIds(journal[r]) \ {last} : \E e \in transcript : e.id = <<r, id>>
AttemptsUpTo(r, n) == \A j \in DOMAIN journal[r] : journal[r][j].attempt <= n
AttemptsBelow(r, n) == \A j \in DOMAIN journal[r] : journal[r][j].attempt < n
NothingFor(r, input) == \A j \in DOMAIN journal[r] : journal[r][j].input # input

\* What execution k knows of the outputs of its input while the store still listens to it.
Aware(k) ==
    \A o \in Outs :
        Finals(journal[k.id], k.run.input, o) # {} =>
            (k.resumed /\ o \in k.closed) \/ k.out[o].final

PendOK(k) ==
    /\ k.pend.input = k.run.input /\ k.pend.attempt = k.run.attempt
    /\ k.pend.out \in Outs \cup {None}
    /\ k.pend.kind \in Outputs /\ k.pend.out # None =>
         ~(k.resumed /\ k.pend.out \in k.closed)

WriterOK(k) ==
    /\ k.resumed \in BOOLEAN
    /\ DOMAIN k.out = Outs /\ \A o \in Outs : DOMAIN k.out[o] = {"id", "text", "final"}
    /\ k.pc \in {"resume", "save"} => k.resumed
    /\ k.pc \in {"commit", "record"} => PendOK(k)
    /\ Fresh(k.id, k.run) =>
        /\ k.pc = "resume" => AttemptsUpTo(k.id, k.run.attempt)
        /\ k.pc = "save" => AttemptsBelow(k.id, k.run.attempt)
        /\ k.pc = "wait" =>
             /\ k.resumed => AttemptsBelow(k.id, k.run.attempt)
             /\ ~k.resumed => /\ AttemptsUpTo(k.id, k.run.attempt)
                              /\ NothingFor(k.id, k.run.input)
        /\ k.pc \in Driving => AttemptsUpTo(k.id, k.run.attempt) /\ Aware(k)
        /\ k.pc \in Driving \ {"record"} => Noted(k.id)
        /\ k.pc = "record" => NotedBut(k.id, k.pend.id)

JournalOK ==
    \A r \in RunIds : \A n \in DOMAIN journal[r] :
        /\ journal[r][n].attempt \in Nat /\ journal[r][n].input \in Inputs
        /\ inputRun[journal[r][n].input] = r
AttemptsOK ==
    \A r \in RunIds :
        Exists(r) /\ runs[r].status \in Open => AttemptsUpTo(r, runs[r].attempt)
WritersOK == \A t \in Slots : task[t].pc \in Working => WriterOK(task[t])
HandoffOK ==
    intake.pc = "handoff" /\ Fresh(intake.id, intake.record) =>
        /\ AttemptsUpTo(intake.id, intake.record.attempt)
        /\ NothingFor(intake.id, intake.record.input)
PresentedOK ==
    /\ DOMAIN presented = RunIds \X Inputs \X Outs
    /\ \A r \in RunIds, i \in Inputs, o \in Outs :
        /\ presented[<<r, i, o>>] \in {0, 1}
        /\ presented[<<r, i, o>>] = 1 => Finals(journal[r], i, o) # {}

\* An output that is about to be recorded and spoken
Speaking(t) == task[t].pc = "record" /\ task[t].pend.out # None
KeyOf(k) == <<k.id, k.run.input, k.pend.out>>
SpeakersOK ==
    \A t \in Slots : Speaking(t) =>
        /\ presented[KeyOf(task[t])] = 0
        /\ Finals(journal[task[t].id], task[t].run.input, task[t].pend.out) # {}
        /\ \A u \in Slots : Speaking(u) /\ KeyOf(task[u]) = KeyOf(task[t]) => u = t

OutputsInv ==
    /\ JournalOK /\ AttemptsOK /\ RecordedOutputs
    /\ WritersOK /\ HandoffOK
    /\ PresentedOK /\ SpeakersOK

-----------------------------------------------------------------------------
(* What a step may do to the stored runs.                                  *)

RunMoves(r) ==
    Exists(r) =>
        /\ Exists(r)'
        /\ \/ runs'[r].seq = runs[r].seq /\ journal'[r] = journal[r]
           \/ runs'[r].seq > runs[r].seq
        /\ runs[r].status \in Terminal => runs'[r] = runs[r] /\ journal'[r] = journal[r]
        /\ runs'[r].seq = runs[r].seq =>
             /\ runs[r].status \in Open => runs'[r].status \in Open
             /\ runs[r].status = "active" => runs'[r].status = "active"
Moves ==
    /\ \A r \in RunIds : RunMoves(r)
    /\ \A i \in Inputs : inputRun[i] # NoRun => inputRun'[i] = inputRun[i]

\* No run begins and none is opened again, as in every step but an admission.
Quiet ==
    /\ inputRun' = inputRun
    /\ OpenRuns' \subseteq OpenRuns
    /\ \A r \in RunIds : ~Exists(r) => ~Exists(r)'

LEMMA RecordFields ==
    ASSUME NEW rec \in RunRecord
    PROVE  /\ rec.status \in Terminal \cup Open /\ rec.attempt \in 1..(MaxAttempt + 1)
           /\ rec.attempt \in Nat /\ MaxAttempt \in Nat
           /\ rec.root \in Inputs /\ rec.input \in Inputs /\ rec.seq \in Nat
           /\ rec.checkpoint \in 0..(MaxAttempt + 1) /\ rec.token \in 0..(MaxAttempt + 1)
           /\ rec.deadline \in 0..(MaxClock + DeadlineMs)
           /\ rec # NoRun
BY RoomRunsAssumption DEF RunRecord

LEMMA JournalAppend ==
    ASSUME NEW events, Listed(events), NEW e
    PROVE  /\ Listed(Append(events, e))
           /\ Len(events) \in Nat
           /\ Len(Append(events, e)) = Len(events) + 1
           /\ DOMAIN events = 1..Len(events)
           /\ DOMAIN Append(events, e) = 1..(Len(events) + 1)
           /\ \A j \in 1..Len(events) : Append(events, e)[j] = events[j]
           /\ Append(events, e)[Len(events) + 1] = e
<1> DEFINE S == Elements(events) \cup {e}
<1>1. events \in Seq(S)
  <2>1. events \in Seq(Elements(events)) /\ Elements(events) \subseteq S
    BY DEF Listed
  <2>q. QED  BY <2>1
<1>2. e \in S
  OBVIOUS
<1> HIDE DEF S
<1>3. Elements(Append(events, e)) = Elements(events) \cup {e}
  BY <1>1, <1>2, ElementsAppend
<1>4. Append(events, e) \in Seq(S)
  BY <1>1, <1>2
<1>5. Listed(Append(events, e))
  BY <1>3, <1>4 DEF S, Listed
<1>q. QED  BY <1>1, <1>2, <1>5

LEMMA SnapshotMoves ==
    ASSUME Stored, Moves, Stored', NEW r, NEW rec, Snapshot(r, rec)
    PROVE  Snapshot(r, rec)'
<1>1. /\ r \in RunIds /\ rec \in RunRecord /\ Exists(r) /\ runs[r] \in RunRecord
      /\ inputRun[rec.input] = r /\ inputRun[rec.root] = r
      /\ rec.attempt <= MaxAttempt /\ rec.seq <= runs[r].seq /\ rec.status \in Open
      /\ runs[r].seq = rec.seq => runs[r].status \in Open
      /\ runs[r].seq = rec.seq /\ rec.status = "active" => runs[r].status = "active"
  BY DEF Snapshot, Fresh, Stored, Exists
<1>2. RunMoves(r)
  BY <1>1 DEF Moves
<1>3. runs'[r] # NoRun /\ runs'[r] \in RunRecord
  BY <1>1, <1>2 DEF RunMoves, Exists, Stored
<1>4. rec.seq \in Nat /\ runs[r].seq \in Nat /\ runs'[r].seq \in Nat
  BY <1>1, <1>3, RecordFields
<1>5. runs'[r].seq >= runs[r].seq
  BY <1>1, <1>2, <1>4 DEF RunMoves
<1>6. rec.seq <= runs'[r].seq
  BY <1>1, <1>4, <1>5
<1>7. runs'[r].seq = rec.seq => runs'[r].seq = runs[r].seq /\ runs[r].seq = rec.seq
  BY <1>1, <1>4, <1>5
<1>8. inputRun'[rec.input] = r /\ inputRun'[rec.root] = r
  <2>1. rec.input \in Inputs /\ rec.root \in Inputs /\ r # NoRun
    BY <1>1, RecordFields, RoomRunsAssumption
  <2>q. QED  BY <1>1, <2>1 DEF Moves
<1>9. runs'[r].seq = rec.seq => runs'[r].status \in Open
  BY <1>1, <1>2, <1>7 DEF RunMoves
<1>10. runs'[r].seq = rec.seq /\ rec.status = "active" => runs'[r].status = "active"
  BY <1>1, <1>2, <1>7 DEF RunMoves
<1>q. QED  BY <1>1, <1>3, <1>6, <1>8, <1>9, <1>10 DEF Snapshot, Fresh, Exists

LEMMA UnchangedRuns ==
    ASSUME Stored, UNCHANGED <<runs, journal, inputRun>>
    PROVE  Stored' /\ Moves /\ Quiet
<1>1. runs' = runs /\ journal' = journal /\ inputRun' = inputRun
  OBVIOUS
<1>2. OpenRuns' = OpenRuns /\ \A r \in RunIds : Exists(r)' = Exists(r) /\ RunOK(r)' = RunOK(r)
  BY <1>1 DEF OpenRuns, Exists, RunOK
<1>3. Stored'
  BY <1>1, <1>2 DEF Stored
<1>4. Moves
  BY <1>1, <1>2 DEF Moves, RunMoves
<1>q. QED  BY <1>1, <1>2, <1>3, <1>4 DEF Quiet

\* A transition written over run r from a record that the store still takes for it.
AppendedFrom(r, rec, next, e) ==
    /\ Snapshot(r, rec) /\ Fresh(r, rec)
    /\ next \in RunRecord
    /\ next.input = rec.input /\ next.root = rec.root /\ next.attempt = rec.attempt
    /\ next.status = "waiting_for_input" => next.attempt < MaxAttempt
    /\ next.status = "active" => rec.status = "active"
    /\ Appended(r, next, e)

\* What that makes of the stored runs.
AppendedRun(r, rec, next, e) ==
    /\ r \in RunIds /\ Exists(r) /\ runs[r].status \in Open
    /\ Len(journal[r]) \in Nat /\ runs[r].seq = Len(journal[r])
    /\ rec.seq = runs[r].seq
    /\ DOMAIN runs' = RunIds /\ DOMAIN journal' = RunIds
    /\ runs'[r] = [next EXCEPT !.seq = Len(journal[r]) + 1]
    /\ runs'[r] \in RunRecord
    /\ runs'[r].seq = Len(journal[r]) + 1 /\ runs'[r].status = next.status
    /\ runs'[r].input = rec.input /\ runs'[r].root = rec.root
    /\ runs'[r].attempt = rec.attempt
    /\ journal'[r] = Append(journal[r], e)
    /\ \A s \in RunIds \ {r} : runs'[s] = runs[s] /\ journal'[s] = journal[s]
    /\ inputRun' = inputRun /\ transcript' = transcript

LEMMA AppendedGives ==
    ASSUME Stored, NEW r, NEW rec, NEW next, NEW e, AppendedFrom(r, rec, next, e)
    PROVE  AppendedRun(r, rec, next, e)
<1>1. /\ r \in RunIds /\ Exists(r) /\ runs[r].status \in Open /\ rec.seq = runs[r].seq
  BY DEF AppendedFrom, Snapshot, Fresh
<1>2. runs[r].seq = Len(journal[r]) /\ Listed(journal[r])
  BY <1>1 DEF Stored, RunOK
<1>3. Len(journal[r]) \in Nat
  BY <1>2, JournalAppend
<1>4. [next EXCEPT !.seq = Len(journal[r]) + 1] \in RunRecord
  BY <1>3 DEF AppendedFrom, RunRecord
<1>5. /\ runs' = [runs EXCEPT ![r] = [next EXCEPT !.seq = Len(journal[r]) + 1]]
      /\ journal' = [journal EXCEPT ![r] = Append(@, e)]
      /\ inputRun' = inputRun /\ transcript' = transcript
  BY DEF AppendedFrom, Appended
<1>6. DOMAIN runs = RunIds /\ DOMAIN journal = RunIds
  BY DEF Stored
<1>7. /\ runs'[r] = [next EXCEPT !.seq = Len(journal[r]) + 1]
      /\ journal'[r] = Append(journal[r], e)
      /\ \A s \in RunIds \ {r} : runs'[s] = runs[s] /\ journal'[s] = journal[s]
      /\ DOMAIN runs' = RunIds /\ DOMAIN journal' = RunIds
  BY <1>1, <1>5, <1>6
<1>8. /\ [next EXCEPT !.seq = Len(journal[r]) + 1].seq = Len(journal[r]) + 1
      /\ [next EXCEPT !.seq = Len(journal[r]) + 1].status = next.status
      /\ [next EXCEPT !.seq = Len(journal[r]) + 1].input = next.input
      /\ [next EXCEPT !.seq = Len(journal[r]) + 1].root = next.root
      /\ [next EXCEPT !.seq = Len(journal[r]) + 1].attempt = next.attempt
  BY DEF AppendedFrom, RunRecord
<1>9. next.input = rec.input /\ next.root = rec.root /\ next.attempt = rec.attempt
  BY DEF AppendedFrom
<1>q. QED  BY <1>1, <1>2, <1>3, <1>4, <1>5, <1>7, <1>8, <1>9 DEF AppendedRun

LEMMA AppendedKeeps ==
    ASSUME Stored, NEW r, NEW rec, NEW next, NEW e, AppendedFrom(r, rec, next, e)
    PROVE  Stored' /\ Moves /\ Quiet
<1>1. AppendedRun(r, rec, next, e)
  BY AppendedGives
<1>1a. /\ r \in RunIds /\ Exists(r) /\ runs[r].status \in Open
       /\ Len(journal[r]) \in Nat /\ runs[r].seq = Len(journal[r])
       /\ runs'[r] \in RunRecord
       /\ runs'[r].seq = Len(journal[r]) + 1 /\ runs'[r].status = next.status
       /\ runs'[r].input = rec.input /\ runs'[r].root = rec.root
       /\ runs'[r].attempt = rec.attempt
       /\ journal'[r] = Append(journal[r], e)
       /\ \A s \in RunIds \ {r} : runs'[s] = runs[s] /\ journal'[s] = journal[s]
       /\ inputRun' = inputRun
  BY <1>1 DEF AppendedRun
<1>2. runs'[r] # NoRun
  BY <1>1a, RecordFields
<1>3. /\ inputRun[rec.input] = r /\ inputRun[rec.root] = r /\ rec.attempt <= MaxAttempt
      /\ next.status = "waiting_for_input" => rec.attempt < MaxAttempt
      /\ Listed(journal[r])
  BY <1>1a DEF AppendedFrom, Snapshot, Stored, RunOK
<1>4. Listed(Append(journal[r], e)) /\ Len(Append(journal[r], e)) = Len(journal[r]) + 1
  BY <1>3, JournalAppend
<1>5. \A s \in RunIds \ {r} : Exists(s)' = Exists(s)
  BY <1>1a DEF Exists
<1>6. Exists(r)'
  BY <1>2 DEF Exists
<1>7. RunOK(r)'
  BY <1>1a, <1>2, <1>3, <1>4 DEF RunOK, Exists
<1>8. \A s \in RunIds \ {r} : RunOK(s)'
  BY <1>1a, <1>5 DEF RunOK, Stored
<1>9. OpenRuns' \subseteq OpenRuns
  BY <1>1a, <1>5, <1>6 DEF OpenRuns
<1>10. runs' \in [RunIds -> RunRecord \cup {NoRun}] /\ DOMAIN journal' = RunIds
  <2>1. runs' = [runs EXCEPT ![r] = [next EXCEPT !.seq = Len(journal[r]) + 1]]
    BY DEF AppendedFrom, Appended
  <2>2. [next EXCEPT !.seq = Len(journal[r]) + 1] \in RunRecord
    BY <1>1 DEF AppendedRun
  <2>q. QED  BY <1>1, <2>1, <2>2 DEF AppendedRun, Stored
<1>11. Stored'
  <2>1. inputRun' \in [Inputs -> RunIds \cup {NoRun}]
    BY <1>1a DEF Stored
  <2>2. \A s \in RunIds : RunOK(s)'
    BY <1>7, <1>8
  <2>3. \A a, b \in OpenRuns' : a = b
    BY <1>9 DEF Stored
  <2>q. QED  BY <1>10, <2>1, <2>2, <2>3 DEF Stored
<1>12. RunMoves(r)
  <2>1. runs[r].status \notin Terminal
    BY <1>1a DEF Open, Terminal
  <2>2. runs'[r].seq > runs[r].seq /\ runs'[r].seq # runs[r].seq
    BY <1>1a
  <2>q. QED  BY <1>6, <2>1, <2>2 DEF RunMoves
<1>13. \A s \in RunIds \ {r} : RunMoves(s)
  BY <1>1a, <1>5 DEF RunMoves
<1>14. Moves
  BY <1>1a, <1>12, <1>13 DEF Moves
<1>15. Quiet
  BY <1>1a, <1>5, <1>9 DEF Quiet
<1>q. QED  BY <1>11, <1>14, <1>15

\* Records that finishRun writes over what it read (Closed).
LEMMA ClosedKeeps ==
    ASSUME Stored, NEW r, NEW rec, Snapshot(r, rec), Fresh(r, rec),
           NEW status \in Terminal, NEW reason, Closed(r, rec, status, reason)
    PROVE  AppendedFrom(r, rec, [rec EXCEPT !.status = status, !.token = 0],
                        Entry(status, rec, None, None, reason))
<1> DEFINE next == [rec EXCEPT !.status = status, !.token = 0]
<1>1. rec \in RunRecord /\ MaxAttempt \in Nat
  BY RoomRunsAssumption DEF Snapshot
<1>2. next \in RunRecord
  <2>1. 0 \in 0..(MaxAttempt + 1) /\ status \in Terminal \cup Open
    BY <1>1
  <2>q. QED  BY <1>1, <2>1 DEF RunRecord
<1>3. /\ next.input = rec.input /\ next.root = rec.root /\ next.attempt = rec.attempt
      /\ next.status = status
  BY <1>1 DEF RunRecord
<1>4. status \notin Open
  BY DEF Open, Terminal
<1>q. QED  BY <1>2, <1>3, <1>4 DEF AppendedFrom, Closed, Open

\* saveRun of a resumption that won: the next attempt of the active run.
LEMMA AcquiredKeeps ==
    ASSUME Stored, NEW r, NEW rec, Snapshot(r, rec), rec.status = "active",
           Acquirable(runs[r], rec), runs' = [runs EXCEPT ![r] = rec],
           UNCHANGED <<journal, inputRun>>
    PROVE  /\ Stored' /\ Moves /\ Quiet
           /\ runs'[r] = rec /\ \A s \in RunIds \ {r} : runs'[s] = runs[s]
<1>1. /\ r \in RunIds /\ rec \in RunRecord /\ Exists(r) /\ rec.attempt <= MaxAttempt
      /\ inputRun[rec.input] = r /\ inputRun[rec.root] = r
      /\ runs[r].status = "active" /\ runs[r].seq = rec.seq /\ RunOK(r)
  BY DEF Snapshot, Acquirable, Stored
<1>2. runs'[r] = rec /\ \A s \in RunIds \ {r} : runs'[s] = runs[s]
  BY <1>1 DEF Stored
<1>3. rec # NoRun
  BY <1>1, RecordFields
<1>4. \A s \in RunIds : Exists(s)' = Exists(s)
  BY <1>1, <1>2, <1>3 DEF Exists
<1>5. RunOK(r)'
  BY <1>1, <1>2, <1>3 DEF RunOK, Exists
<1>6. \A s \in RunIds \ {r} : RunOK(s)'
  BY <1>2, <1>4 DEF RunOK, Stored
<1>7. OpenRuns' \subseteq OpenRuns
  BY <1>1, <1>2, <1>4 DEF OpenRuns, Open
<1>8. Stored'
  <2>1. runs' \in [RunIds -> RunRecord \cup {NoRun}]
    BY <1>1 DEF Stored
  <2>2. \A s \in RunIds : RunOK(s)'
    BY <1>5, <1>6
  <2>3. \A a, b \in OpenRuns' : a = b
    BY <1>7 DEF Stored
  <2>q. QED  BY <2>1, <2>2, <2>3 DEF Stored
<1>9. Moves
  <2>1. RunMoves(r)
    BY <1>1, <1>2, <1>3 DEF RunMoves, Exists, Open, Terminal
  <2>2. \A s \in RunIds \ {r} : RunMoves(s)
    BY <1>2, <1>4 DEF RunMoves
  <2>q. QED  BY <2>1, <2>2 DEF Moves
<1>q. QED  BY <1>2, <1>4, <1>7, <1>8, <1>9 DEF Quiet

\* admitRunInput, which alone begins runs and goes on with waiting ones.
LEMMA AdmittedKeeps ==
    ASSUME Stored, NEW r \in RunIds, NEW rec, NEW input,
           inputRun[input] = NoRun, rec \in RunRecord,
           rec.status = "active", rec.input = input, rec.attempt <= MaxAttempt,
           \/ ~Exists(r) /\ NewRecord(rec, input) /\ OpenRuns = {}
           \/ Exists(r),
           Admissible(r, rec), runs' = [runs EXCEPT ![r] = rec],
           inputRun' = [inputRun EXCEPT ![input] = r], journal' = journal
    PROVE  /\ Stored' /\ Moves
           /\ runs'[r] = rec /\ \A s \in RunIds \ {r} : runs'[s] = runs[s]
           /\ Snapshot(r, rec)'
<1>1. input \in Inputs /\ rec.root \in Inputs /\ rec # NoRun /\ rec.seq \in Nat /\ r # NoRun
      /\ rec.attempt \in Nat /\ MaxAttempt \in Nat
  BY RecordFields, RoomRunsAssumption
<1>2. runs'[r] = rec /\ \A s \in RunIds \ {r} : runs'[s] = runs[s]
  BY DEF Stored
<1>3. /\ inputRun'[input] = r
      /\ \A i \in Inputs : inputRun[i] # NoRun => inputRun'[i] = inputRun[i]
  BY <1>1 DEF Stored
<1>4. Exists(r)' /\ \A s \in RunIds \ {r} : Exists(s)' = Exists(s)
  BY <1>1, <1>2 DEF Exists
<1>7. RunOK(r)' /\ RunMoves(r) /\ OpenRuns' \subseteq {r} /\ inputRun'[rec.root] = r
  <2>5. CASE ~Exists(r)
    <3>1. rec.root = input /\ rec.seq = 0 /\ OpenRuns = {}
      BY <2>5 DEF NewRecord
    <3>2. journal[r] = <<>> /\ Listed(journal[r])
      BY <2>5 DEF Stored, RunOK
    <3>3. RunOK(r)'
      BY <1>1, <1>2, <1>3, <3>1, <3>2 DEF RunOK, Exists
    <3>4. RunMoves(r)
      BY <2>5 DEF RunMoves
    <3>5. OpenRuns' \subseteq {r}
      BY <1>2, <1>4, <3>1 DEF OpenRuns
    <3>6. inputRun'[rec.root] = r
      BY <1>3, <3>1
    <3>q. QED  BY <3>3, <3>4, <3>5, <3>6
  <2>6. CASE Exists(r)
    <3>1. /\ runs[r].status = "waiting_for_input" /\ rec.root = runs[r].root
          /\ rec.seq = runs[r].seq
          /\ runs[r].seq = Len(journal[r]) /\ inputRun[runs[r].root] = r
          /\ Listed(journal[r])
      BY <2>6 DEF Admissible, Stored, RunOK, Fresh
    <3>2. inputRun'[rec.root] = r
      BY <1>1, <1>3, <3>1
    <3>3. RunOK(r)'
      BY <1>1, <1>2, <1>3, <2>6, <3>1, <3>2 DEF RunOK, Exists
    <3>4. RunMoves(r)
      BY <1>2, <1>4, <3>1 DEF RunMoves, Open, Terminal
    <3>5. OpenRuns' \subseteq {r}
      <4>1. r \in OpenRuns
        BY <2>6, <3>1 DEF OpenRuns, Open
      <4>2. OpenRuns \subseteq {r}
        BY <4>1 DEF Stored
      <4>q. QED  BY <1>2, <1>4, <4>2 DEF OpenRuns
    <3>q. QED  BY <3>2, <3>3, <3>4, <3>5
  <2>q. QED  BY <2>5, <2>6
<1>8. ASSUME NEW s \in RunIds \ {r} PROVE RunOK(s)' /\ RunMoves(s)
  <2>1. RunMoves(s)
    BY <1>2, <1>4 DEF RunMoves
  <2>2. RunOK(s)'
    <3>1. RunOK(s) /\ s # NoRun /\ runs'[s] = runs[s] /\ Exists(s)' = Exists(s)
      BY <1>2, <1>4, RoomRunsAssumption DEF Stored
    <3>2. Exists(s) => inputRun'[runs[s].input] = s /\ inputRun'[runs[s].root] = s
      <4> SUFFICES ASSUME Exists(s) PROVE inputRun'[runs[s].input] = s /\ inputRun'[runs[s].root] = s
        OBVIOUS
      <4>1. runs[s] \in RunRecord /\ inputRun[runs[s].input] = s /\ inputRun[runs[s].root] = s
        BY <3>1 DEF RunOK, Exists
      <4>2. runs[s].input \in Inputs /\ runs[s].root \in Inputs
        BY <4>1, RecordFields
      <4>q. QED  BY <1>3, <3>1, <4>1, <4>2
    <3>q. QED  BY <3>1, <3>2 DEF RunOK
  <2>q. QED  BY <2>1, <2>2
<1>9. Stored'
  <2>1. runs' \in [RunIds -> RunRecord \cup {NoRun}]
    BY DEF Stored
  <2>2. inputRun' \in [Inputs -> RunIds \cup {NoRun}] /\ DOMAIN journal' = RunIds
    BY DEF Stored
  <2>3. \A s \in RunIds : RunOK(s)'
    BY <1>7, <1>8
  <2>4. \A a, b \in OpenRuns' : a = b
    BY <1>7
  <2>q. QED  BY <2>1, <2>2, <2>3, <2>4 DEF Stored
<1>10. Moves
  BY <1>3, <1>7, <1>8 DEF Moves
<1>11. Snapshot(r, rec)'
  BY <1>1, <1>2, <1>3, <1>4, <1>7 DEF Snapshot, Fresh, Open
<1>q. QED  BY <1>2, <1>9, <1>10, <1>11

-----------------------------------------------------------------------------
(* What was read stays good while others move.                             *)

\* An execution before and after a step that only lets it wait less or aborts it.
Alike(k, l) ==
    /\ DOMAIN l = DOMAIN k
    /\ \A f \in DOMAIN k \ {"wait", "aborted"} : l[f] = k[f]

LEMMA AlikeFields ==
    ASSUME NEW k, NEW l, Alike(k, l), "pc" \in DOMAIN k,
           k.pc # "free" => DOMAIN k = TaskFields
    PROVE  /\ "pc" \in DOMAIN l /\ l.pc = k.pc
           /\ k.pc # "free" =>
                /\ DOMAIN l = TaskFields
                /\ l.id = k.id /\ l.run = k.run /\ l.resumed = k.resumed
                /\ l.timer = k.timer /\ l.closed = k.closed /\ l.used = k.used
                /\ l.out = k.out /\ l.pend = k.pend
BY DEF Alike, TaskFields

LEMMA TaskMoves ==
    ASSUME Stored, Moves, Stored', NEW k, TaskOK(k)
    PROVE  TaskOK(k)'
<1>1. \A r \in RunIds : Exists(r) => Exists(r)'
  BY DEF Moves, RunMoves
<1>2. k.pc \in Working \/ k.pc = "finish" => Snapshot(k.id, k.run)'
  BY SnapshotMoves DEF TaskOK
<1>q. QED  BY <1>1, <1>2 DEF TaskOK

LEMMA TaskAlike ==
    ASSUME NEW k, NEW l, TaskOK(k), Alike(k, l)
    PROVE  TaskOK(l)
<1>1. /\ "pc" \in DOMAIN l /\ l.pc = k.pc
      /\ k.pc # "free" =>
           /\ DOMAIN l = TaskFields
           /\ l.id = k.id /\ l.run = k.run /\ l.pend = k.pend
  BY AlikeFields DEF TaskOK
<1>2. CASE k.pc = "free"
  BY <1>1, <1>2 DEF TaskOK, Working, Driving
<1>3. CASE k.pc # "free"
  BY <1>1, <1>3 DEF TaskOK
<1>q. QED  BY <1>2, <1>3

\* Every execution is as it was, or known to be in order.
LEMMA TasksKeep ==
    ASSUME Stored, Moves, Stored', \A t \in Slots : TaskOK(task[t]),
           \A t \in Slots : Alike(task[t], task'[t]) \/ TaskOK(task[t])'
    PROVE  \A t \in Slots : TaskOK(task[t])'
<1> SUFFICES ASSUME NEW t \in Slots, Alike(task[t], task'[t]) PROVE TaskOK(task[t])'
  OBVIOUS
<1>1. PICK l : l = task'[t]
  OBVIOUS
<1>2. TaskOK(l)
  BY <1>1, TaskAlike
<1>3. TaskOK(l)'
  BY <1>2, TaskMoves
<1>q. QED  BY <1>1, <1>3 DEF TaskOK

LEMMA CancellerKeeps ==
    ASSUME Stored, Moves, Stored', CancellerOK, UNCHANGED canceller
    PROVE  CancellerOK'
<1>1. CASE canceller = Idle
  BY <1>1 DEF CancellerOK, Idle
<1>2. CASE canceller # Idle
  <2>1. PICK r, rec : r = canceller.id /\ rec = canceller.read
    OBVIOUS
  <2>2. Snapshot(r, rec) /\ canceller.pc = "close"
    BY <1>2, <2>1 DEF CancellerOK
  <2>3. Snapshot(r, rec)'
    BY <2>2, SnapshotMoves
  <2>q. QED  BY <2>1, <2>2, <2>3 DEF CancellerOK
<1>q. QED  BY <1>1, <1>2

LEMMA IntakeKeeps ==
    ASSUME Stored, Moves, Stored', Quiet, IntakeOK, UNCHANGED intake,
           queue # <<>> => queue' # <<>> /\ Head(queue') = Head(queue)
    PROVE  IntakeOK'
<1>1. CASE intake = Idle
  BY <1>1 DEF IntakeOK, Idle
<1>2. CASE intake # Idle
  <2> DEFINE input == Head(queue).input
  <2>1. /\ queue # <<>> /\ queue' # <<>> /\ Head(queue').input = input
        /\ intake' = intake
        /\ intake.pc = "handoff" \/ inputRun[input] = NoRun
    BY <1>2 DEF IntakeOK
  <2>2. intake'.pc = "handoff" \/ inputRun'[Head(queue').input] = NoRun
    BY <2>1 DEF Quiet
  <2>3. /\ OpenRuns' \subseteq OpenRuns
        /\ \A r \in RunIds : Exists(r) => Exists(r)'
        /\ \A r \in RunIds : ~Exists(r) => ~Exists(r)'
    BY DEF Quiet, Moves, RunMoves
  <2> HIDE DEF input
  <2>4. CASE intake.pc = "open"
    BY <2>1, <2>2, <2>4 DEF IntakeOK
  <2>5. CASE intake.pc = "supersede"
    <3>1. /\ intake = [pc |-> "supersede", open |-> intake.open, record |-> intake.record]
          /\ Snapshot(intake.open, intake.record)
          /\ OpenRuns \subseteq {intake.open}
      BY <1>2, <2>5 DEF IntakeOK
    <3>2. Snapshot(intake.open, intake.record)'
      <4>1. PICK r, rec : r = intake.open /\ rec = intake.record
        OBVIOUS
      <4>2. Snapshot(r, rec)'
        BY <3>1, <4>1, SnapshotMoves
      <4>q. QED  BY <2>1, <4>1, <4>2
    <3>q. QED  BY <2>1, <2>2, <2>3, <2>5, <3>1, <3>2 DEF IntakeOK
  <2>6. CASE intake.pc = "cancel"
    <3>1. /\ intake = [pc |-> "cancel", id |-> intake.id, record |-> intake.record,
                       open |-> intake.open]
          /\ intake.id \in RunIds /\ ~Exists(intake.id)
          /\ NewRecord(intake.record, input)
          /\ intake.open \in RunIds /\ Exists(intake.open)
          /\ OpenRuns \subseteq {intake.open}
      BY <1>2, <2>6 DEF IntakeOK, input
    <3>2. Exists(intake.open)' /\ ~Exists(intake.id)'
      BY <2>1, <2>3, <3>1 DEF Exists
    <3>q. QED  BY <2>1, <2>2, <2>3, <2>6, <3>1, <3>2 DEF IntakeOK, NewRecord
  <2>7. CASE intake.pc = "close"
    <3>1. /\ intake = [pc |-> "close", id |-> intake.id, record |-> intake.record,
                       open |-> intake.open, read |-> intake.read]
          /\ intake.id \in RunIds /\ ~Exists(intake.id)
          /\ NewRecord(intake.record, input)
          /\ Snapshot(intake.open, intake.read)
          /\ OpenRuns \subseteq {intake.open}
      BY <1>2, <2>7 DEF IntakeOK, input
    <3>2. Snapshot(intake.open, intake.read)'
      <4>1. PICK r, rec : r = intake.open /\ rec = intake.read
        OBVIOUS
      <4>2. Snapshot(r, rec)'
        BY <3>1, <4>1, SnapshotMoves
      <4>q. QED  BY <2>1, <4>1, <4>2
    <3>3. ~Exists(intake.id)'
      BY <2>1, <2>3, <3>1 DEF Exists
    <3>q. QED  BY <2>1, <2>2, <2>3, <2>7, <3>1, <3>2, <3>3 DEF IntakeOK, NewRecord
  <2>8. CASE intake.pc = "admit" /\ ~Exists(intake.id)
    <3>1. /\ intake = [pc |-> "admit", id |-> intake.id, record |-> intake.record]
          /\ intake.id \in RunIds
          /\ NewRecord(intake.record, input) /\ OpenRuns = {}
      BY <1>2, <2>8 DEF IntakeOK, input
    <3>2. ~Exists(intake.id)'
      BY <2>1, <2>3, <2>8, <3>1 DEF Exists
    <3>q. QED  BY <2>1, <2>2, <2>3, <2>8, <3>1, <3>2 DEF IntakeOK, NewRecord
  <2>9. CASE intake.pc = "admit" /\ Exists(intake.id)
    <3>1. /\ intake = [pc |-> "admit", id |-> intake.id, record |-> intake.record]
          /\ intake.id \in RunIds
          /\ intake.record \in RunRecord /\ intake.record.status = "active"
          /\ intake.record.input = input
          /\ intake.record.attempt <= MaxAttempt
      BY <1>2, <2>9 DEF IntakeOK, input
    <3>2. Exists(intake.id)'
      BY <2>1, <2>3, <2>9, <3>1 DEF Exists
    <3>q. QED  BY <2>1, <2>2, <2>9, <3>1, <3>2 DEF IntakeOK
  <2>10. CASE intake.pc = "handoff"
    <3>1. Snapshot(intake.id, intake.record) /\ intake.record.status = "active"
      BY <1>2, <2>10 DEF IntakeOK
    <3>2. Snapshot(intake.id, intake.record)'
      <4>1. PICK r, rec : r = intake.id /\ rec = intake.record
        OBVIOUS
      <4>2. Snapshot(r, rec)'
        BY <3>1, <4>1, SnapshotMoves
      <4>q. QED  BY <2>1, <4>1, <4>2
    <3>q. QED  BY <2>1, <2>10, <3>1, <3>2 DEF IntakeOK
  <2>11. intake.pc \in {"open", "supersede", "cancel", "close", "admit", "handoff"}
    BY <1>2 DEF IntakeOK
  <2>q. QED  BY <2>4, <2>5, <2>6, <2>7, <2>8, <2>9, <2>10, <2>11
<1>q. QED  BY <1>1, <1>2

-----------------------------------------------------------------------------
(* Steps of one execution.                                                 *)

\* An execution goes on as l, whatever it wrote.
LEMMA TaskWrites ==
    ASSUME RunsInv, Stored', Moves, Quiet, NEW t \in Slots, NEW l, TaskOK(l)',
           task' = [task EXCEPT ![t] = l],
           UNCHANGED <<clock, queue, intake, canceller, crashes>>,
           active' \in Slots \cup {None}, spent' \in 0..MaxWork
    PROVE  RunsInv'
<1>1. Typed'
  BY DEF RunsInv, Typed
<1>2. CancellerOK'
  BY CancellerKeeps DEF RunsInv
<1>3. IntakeOK'
  BY IntakeKeeps DEF RunsInv
<1>4. \A u \in Slots : TaskOK(task[u])'
  <2>1. task'[t] = l /\ \A u \in Slots \ {t} : task'[u] = task[u]
    BY DEF RunsInv, Typed
  <2>2. TaskOK(task[t])'
    BY <2>1 DEF TaskOK
  <2>3. \A u \in Slots \ {t} : Alike(task[u], task'[u])
    BY <2>1 DEF Alike
  <2>q. QED  BY <2>2, <2>3, TasksKeep DEF RunsInv
<1>q. QED  BY <1>1, <1>2, <1>3, <1>4 DEF RunsInv

\* ... and when it wrote nothing.
LEMMA TaskStep ==
    ASSUME RunsInv, NEW t \in Slots, NEW l, TaskOK(l),
           task' = [task EXCEPT ![t] = l],
           UNCHANGED <<runs, journal, inputRun, clock, queue, intake, canceller, crashes>>,
           active' \in Slots \cup {None}, spent' \in 0..MaxWork
    PROVE  RunsInv' /\ Moves
<1>1. Stored' /\ Moves /\ Quiet
  BY UnchangedRuns DEF RunsInv
<1>2. TaskOK(l)'
  BY <1>1, TaskMoves DEF RunsInv
<1>q. QED  BY <1>1, <1>2, TaskWrites

LEMMA FreeOK == TaskOK(FreeTask)
BY DEF TaskOK, FreeTask, Working, Driving

\* What is known of a live execution.
LEMMA TaskFacts ==
    ASSUME RunsInv, NEW t \in Slots, task[t].pc # "free"
    PROVE  /\ TaskOK(task[t]) /\ DOMAIN task[t] = TaskFields
           /\ task[t].id \in RunIds /\ Exists(task[t].id)
           /\ DOMAIN task = Slots
BY DEF RunsInv, Typed, TaskOK

\* An execution that stays with the run it works on.
LEMMA StaysOK ==
    ASSUME NEW k, NEW l, TaskOK(k), k.pc \in Working, DOMAIN l = TaskFields,
           l.id = k.id, l.run = k.run,
           \/ l.pc \in Driving \ {"commit"}
           \/ l.pc = "commit" /\ (l.pend.kind = "input_requested" => k.run.attempt < MaxAttempt)
           \/ l.pc \in {"dead", "return"}
           \/ l.pc = "settle" /\ l.pend \in Failures
    PROVE  TaskOK(l)
BY DEF TaskOK, TaskFields, Working, Driving

LEMMA FailingOK ==
    ASSUME NEW k, TaskOK(k), k.pc # "free"
    PROVE  TaskOK(Failing(k))
BY DEF TaskOK, Failing, TaskFields, Working, Driving, Failures

LEMMA StaysKeeps ==
    ASSUME RunsInv, NEW t \in Slots, task[t].pc \in Working, NEW l,
           task' = [task EXCEPT ![t] = l],
           DOMAIN l = TaskFields, l.id = task[t].id, l.run = task[t].run,
           \/ l.pc \in Driving \ {"commit"}
           \/ l.pc = "commit" /\ (l.pend.kind = "input_requested" => l.run.attempt < MaxAttempt)
           \/ l.pc \in {"dead", "return"}
           \/ l.pc = "settle" /\ l.pend \in Failures,
           UNCHANGED <<runs, journal, inputRun, clock, queue, intake, canceller, crashes>>,
           active' \in Slots \cup {None}, spent' \in 0..MaxWork
    PROVE  RunsInv' /\ Moves
<1>1. PICK k : k = task[t]
  OBVIOUS
<1>2. TaskOK(k) /\ k.pc \in Working
  BY <1>1, TaskFacts DEF Working, Driving
<1>3. TaskOK(l)
  BY <1>1, <1>2, StaysOK
<1>q. QED  BY <1>3, TaskStep

LEMMA StartKeeps ==
    ASSUME RunsInv, NEW t \in Slots, Start(t)
    PROVE  RunsInv' /\ Moves
<1> DEFINE k == task[t]
<1>1. /\ DOMAIN k = TaskFields /\ k.pc = "wait"
  BY TaskFacts DEF Start
<1>2. /\ UNCHANGED <<runs, journal, inputRun, clock, queue, intake, canceller, crashes>>
      /\ active' \in Slots \cup {None} /\ spent' \in 0..MaxWork
  BY DEF Start, RunsInv, Typed
<1>3. \/ task' = [task EXCEPT ![t] = [k EXCEPT !.pc = "dead"]]
      \/ task' = [task EXCEPT ![t] =
                 [k EXCEPT !.closed = ClosedRecovered(journal[k.id], k.run),
                           !.used = Ids(journal[k.id]), !.timer = k.run.deadline,
                           !.pc = IF k.aborted = None /\ (k.run.deadline = 0 \/ clock < k.run.deadline)
                                  THEN "drive" ELSE "settle",
                           !.pend = IF k.aborted = None THEN "deadline_exceeded" ELSE "aborted"]]
  BY DEF Start
<1>4. CASE task' = [task EXCEPT ![t] = [k EXCEPT !.pc = "dead"]]
  <2>1. PICK l : l = [k EXCEPT !.pc = "dead"]
    OBVIOUS
  <2>2. DOMAIN l = TaskFields /\ l.id = k.id /\ l.run = k.run /\ l.pc = "dead"
    BY <1>1, <2>1 DEF TaskFields
  <2>3. task[t].pc \in Working
    BY <1>1 DEF Working
  <2>q. QED  BY <1>2, <1>4, <2>1, <2>2, <2>3, StaysKeeps
<1>5. CASE task' = [task EXCEPT ![t] =
                 [k EXCEPT !.closed = ClosedRecovered(journal[k.id], k.run),
                           !.used = Ids(journal[k.id]), !.timer = k.run.deadline,
                           !.pc = IF k.aborted = None /\ (k.run.deadline = 0 \/ clock < k.run.deadline)
                                  THEN "drive" ELSE "settle",
                           !.pend = IF k.aborted = None THEN "deadline_exceeded" ELSE "aborted"]]
  <2>1. PICK l : l = [k EXCEPT !.closed = ClosedRecovered(journal[k.id], k.run),
                           !.used = Ids(journal[k.id]), !.timer = k.run.deadline,
                           !.pc = IF k.aborted = None /\ (k.run.deadline = 0 \/ clock < k.run.deadline)
                                  THEN "drive" ELSE "settle",
                           !.pend = IF k.aborted = None THEN "deadline_exceeded" ELSE "aborted"]
    OBVIOUS
  <2>2. /\ DOMAIN l = TaskFields /\ l.id = k.id /\ l.run = k.run
        /\ l.pc \in {"drive", "settle"} /\ l.pend \in Failures
    BY <1>1, <2>1 DEF TaskFields, Failures
  <2>3. task[t].pc \in Working /\ (l.pc \in Driving \ {"commit"} \/ l.pc = "settle")
    BY <1>1, <2>2 DEF Working, Driving
  <2>q. QED  BY <1>2, <1>5, <2>1, <2>2, <2>3, StaysKeeps
<1>q. QED  BY <1>3, <1>4, <1>5

LEMMA YieldKeeps ==
    ASSUME RunsInv, NEW t \in Slots, NEW kind, NEW o, Yield(t, kind, o)
    PROVE  RunsInv' /\ Moves
<1> DEFINE k == task[t]
           id == IF k.out[o].id = None THEN DeliveryId(k.used, k.run.attempt, o)
                 ELSE k.out[o].id
           entry == Entry(kind, k.run, o, IF kind \in Outputs THEN id ELSE None, None)
           fails == [k EXCEPT !.pc = "settle", !.pend = "failed"]
           commits == [k EXCEPT !.pc = "commit", !.pend = entry,
                           !.used = IF kind \in Outputs THEN @ \cup {id} ELSE @,
                           !.out[o].id = IF kind \in Outputs THEN id ELSE @]
<1>1. /\ DOMAIN k = TaskFields /\ k.pc = "drive" /\ task[t].pc \in Working
      /\ kind = "input_requested" => k.run.attempt < MaxAttempt
  BY TaskFacts DEF Yield, Working, Driving
<1>2. /\ UNCHANGED <<runs, journal, inputRun, clock, queue, intake, canceller, crashes>>
      /\ active' \in Slots \cup {None} /\ spent' \in 0..MaxWork
  BY RoomRunsAssumption DEF Yield, durable, Spend, RunsInv, Typed
<1>3. task' = [task EXCEPT ![t] = fails] \/ task' = [task EXCEPT ![t] = commits]
  BY DEF Yield
<1>4. CASE task' = [task EXCEPT ![t] = fails]
  <2>1. PICK l : l = fails
    OBVIOUS
  <2>2. /\ DOMAIN l = TaskFields /\ l.id = k.id /\ l.run = k.run
        /\ l.pc = "settle" /\ l.pend \in Failures
    BY <1>1, <2>1 DEF TaskFields, Failures
  <2>q. QED  BY <1>1, <1>2, <1>4, <2>1, <2>2, StaysKeeps
<1>5. CASE task' = [task EXCEPT ![t] = commits]
  <2>1. PICK l : l = commits
    OBVIOUS
  <2>2. entry.kind = kind
    BY DEF Entry
  <2>3. /\ DOMAIN l = TaskFields /\ l.id = k.id /\ l.run = k.run
        /\ l.pc = "commit" /\ l.pend = entry
    <3> HIDE DEF k, id, entry
    <3>q. QED  BY <1>1, <2>1 DEF TaskFields
  <2>4. task' = [task EXCEPT ![t] = l]
    BY <1>5, <2>1
  <2> HIDE DEF id, entry, fails, commits
  <2>5. /\ l.id = task[t].id /\ l.run = task[t].run
        /\ l.pend.kind = "input_requested" => l.run.attempt < MaxAttempt
    BY <1>1, <2>2, <2>3
  <2>q. QED  BY <1>1, <1>2, <2>3, <2>4, <2>5, StaysKeeps
<1>q. QED  BY <1>3, <1>4, <1>5

LEMMA DriverEndsKeeps ==
    ASSUME RunsInv, NEW t \in Slots, DriverEnds(t)
    PROVE  RunsInv' /\ Moves
<1> DEFINE k == task[t]
           entry == Entry("completed", k.run, None, None, None)
<1>1. /\ TaskOK(k) /\ DOMAIN k = TaskFields /\ k.pc = "drive" /\ task[t].pc \in Working
  BY TaskFacts DEF DriverEnds, Working, Driving
<1>2. /\ UNCHANGED <<runs, journal, inputRun, clock, queue, intake, canceller, crashes>>
      /\ active' \in Slots \cup {None} /\ spent' \in 0..MaxWork
  BY DEF DriverEnds, durable, RunsInv, Typed
<1>3. PICK l : /\ task' = [task EXCEPT ![t] = l]
               /\ \/ l = [k EXCEPT !.pc = "settle", !.pend = "failed"]
                  \/ l = [k EXCEPT !.pc = "commit", !.pend = entry]
  BY DEF DriverEnds
<1>4. entry.kind = "completed"
  BY DEF Entry
<1> HIDE DEF entry
<1>5. CASE l = [k EXCEPT !.pc = "settle", !.pend = "failed"]
  <2>1. /\ DOMAIN l = TaskFields /\ l.id = task[t].id /\ l.run = task[t].run
        /\ l.pc = "settle" /\ l.pend \in Failures
    BY <1>1, <1>5 DEF TaskFields, Failures
  <2>q. QED  BY <1>1, <1>2, <1>3, <2>1, StaysKeeps
<1>6. CASE l = [k EXCEPT !.pc = "commit", !.pend = entry]
  <2>1. /\ DOMAIN l = TaskFields /\ l.id = task[t].id /\ l.run = task[t].run
        /\ l.pc = "commit" /\ l.pend.kind # "input_requested"
    BY <1>1, <1>4, <1>6 DEF TaskFields
  <2>q. QED  BY <1>1, <1>2, <1>3, <2>1, StaysKeeps
<1>q. QED  BY <1>3, <1>5, <1>6

\* An execution fails or sees its abort and turns to finishRun.
LEMMA FailsKeeps ==
    ASSUME RunsInv, NEW t \in Slots, task[t].pc # "free",
           task' = [task EXCEPT ![t] = Failing(task[t])],
           UNCHANGED <<runs, journal, inputRun, clock, queue, intake, canceller, crashes>>,
           active' = active, spent' = spent
    PROVE  RunsInv' /\ Moves
<1>1. PICK l : l = Failing(task[t])
  OBVIOUS
<1>2. TaskOK(l)
  BY <1>1, FailingOK, TaskFacts
<1>3. active' \in Slots \cup {None} /\ spent' \in 0..MaxWork
  BY DEF RunsInv, Typed
<1>q. QED  BY <1>1, <1>2, <1>3, TaskStep

\* An execution ends.
LEMMA EndKeeps ==
    ASSUME RunsInv, NEW t \in Slots, EndTask(t),
           UNCHANGED <<runs, journal, inputRun, clock, queue, intake, canceller, crashes>>,
           spent' = spent
    PROVE  RunsInv' /\ Moves
<1>1. task' = [task EXCEPT ![t] = FreeTask] /\ active' \in Slots \cup {None}
      /\ spent' \in 0..MaxWork
  BY DEF EndTask, RunsInv, Typed
<1>q. QED  BY <1>1, FreeOK, TaskStep

LEMMA UtterKeeps ==
    ASSUME RunsInv, NEW t \in Slots, Utter(t)
    PROVE  RunsInv' /\ Moves
<1> DEFINE k == task[t]
<1>1. /\ TaskOK(k) /\ DOMAIN k = TaskFields /\ k.pc = "utter"
  BY TaskFacts DEF Utter
<1>2. /\ UNCHANGED <<runs, journal, inputRun, clock, queue, intake, canceller, crashes>>
      /\ active' \in Slots \cup {None} /\ spent' \in 0..MaxWork
  BY DEF Utter, durable, RunsInv, Typed
<1>3. PICK l, id : /\ task' = [task EXCEPT ![t] = l]
                   /\ l = [k EXCEPT !.pc = "commit", !.pend = Entry("final", k.run, None, id, None)]
  BY DEF Utter
<1> HIDE DEF k
<1>4. /\ DOMAIN l = TaskFields /\ l.id = k.id /\ l.run = k.run
      /\ l.pc = "commit" /\ l.pend.kind = "final"
  BY <1>1, <1>3 DEF TaskFields, Entry
<1>5. TaskOK(l)
  BY <1>1, <1>4, StaysOK DEF Working, Driving
<1>q. QED  BY <1>2, <1>3, <1>5, TaskStep

LEMMA RecordOutputKeeps ==
    ASSUME RunsInv, NEW t \in Slots, RecordOutput(t)
    PROVE  RunsInv' /\ Moves
<1> DEFINE k == task[t]
<1>1. /\ TaskOK(k) /\ DOMAIN k = TaskFields /\ k.pc = "record"
  BY TaskFacts DEF RecordOutput
<1>2. /\ UNCHANGED <<runs, journal, inputRun, clock, queue, intake, canceller, crashes>>
      /\ active' \in Slots \cup {None} /\ spent' \in 0..MaxWork
  BY DEF RecordOutput, RunsInv, Typed
<1>3. PICK l : /\ task' = [task EXCEPT ![t] = l]
               /\ l = [k EXCEPT !.pc = "drive"] \/ l = Failing(k)
  BY DEF RecordOutput
<1> HIDE DEF k
<1>4. l = [k EXCEPT !.pc = "drive"] =>
        DOMAIN l = TaskFields /\ l.id = k.id /\ l.run = k.run /\ l.pc = "drive"
  BY <1>1 DEF TaskFields
<1>5. TaskOK(l)
  BY <1>1, <1>3, <1>4, StaysOK, FailingOK DEF Working, Driving
<1>q. QED  BY <1>2, <1>3, <1>5, TaskStep

LEMMA SettleKeeps ==
    ASSUME RunsInv, NEW t \in Slots, Settle(t)
    PROVE  RunsInv' /\ Moves
<1> DEFINE k == task[t]
<1>1. /\ TaskOK(k) /\ DOMAIN k = TaskFields /\ k.pc = "settle" /\ k.id \in RunIds
      /\ Exists(k.id) /\ k.pend \in Failures
  <2>1. k.pc = "settle"
    BY DEF Settle
  <2>q. QED  BY <2>1, TaskFacts DEF TaskOK
<1>2. UNCHANGED <<runs, journal, inputRun, clock, queue, intake, canceller, crashes>>
      /\ spent' = spent
  BY DEF Settle, EndLost, durable
<1>3. CASE EndTask(t)
  BY <1>2, <1>3, EndKeeps
<1>4. CASE /\ runs[k.id].status \in Open /\ active' = active
           /\ task' = [task EXCEPT ![t] = [k EXCEPT !.pc = "finish", !.run = runs[k.id]]]
  <2>1. PICK l : l = [k EXCEPT !.pc = "finish", !.run = runs[k.id]]
    OBVIOUS
  <2>2. Snapshot(k.id, runs[k.id])
    <3>1. RunOK(k.id) /\ runs[k.id] \in RunRecord
      BY <1>1 DEF RunsInv, Stored, RunOK, Exists
    <3>2. runs[k.id].seq \in Nat /\ runs[k.id].seq <= runs[k.id].seq
      BY <3>1, RecordFields
    <3>q. QED  BY <1>1, <1>4, <3>1, <3>2 DEF Snapshot, RunOK
  <2> HIDE DEF k
  <2>3. DOMAIN l = TaskFields /\ l.id = k.id /\ l.run = runs[k.id] /\ l.pc = "finish"
        /\ l.pend = k.pend
    BY <1>1, <2>1 DEF TaskFields
  <2>4. TaskOK(l)
    BY <1>1, <2>2, <2>3 DEF TaskOK, TaskFields, Working, Driving
  <2>5. active' \in Slots \cup {None} /\ spent' \in 0..MaxWork
    BY <1>2, <1>4 DEF RunsInv, Typed
  <2>q. QED  BY <1>2, <1>4, <2>1, <2>4, <2>5, TaskStep
<1>q. QED  BY <1>3, <1>4 DEF Settle, EndLost

LEMMA TimerKeeps ==
    ASSUME RunsInv, NEW t \in Slots, Timer(t)
    PROVE  RunsInv' /\ Moves
<1> DEFINE k == task[t]
<1>1. TaskOK(k) /\ k.pc # "free" /\ DOMAIN k = TaskFields
  <2>1. k.pc # "free"
    BY DEF Timer
  <2>q. QED  BY <2>1, TaskFacts
<1>2. /\ UNCHANGED <<runs, journal, inputRun, clock, queue, intake, canceller, crashes>>
      /\ active' \in Slots \cup {None} /\ spent' \in 0..MaxWork
  BY DEF Timer, durable, RunsInv, Typed
<1>3. PICK l : l = [k EXCEPT !.aborted = "deadline"] /\ task' = [task EXCEPT ![t] = l]
  BY DEF Timer
<1> HIDE DEF k
<1>4. Alike(k, l)
  BY <1>1, <1>3 DEF Alike, TaskFields
<1>5. TaskOK(l)
  BY <1>1, <1>4, TaskAlike
<1>q. QED  BY <1>2, <1>3, <1>5, TaskStep

LEMMA ResumeRunKeeps ==
    ASSUME RunsInv, NEW t \in Slots, NEW r \in RunIds, ResumeRun(t, r)
    PROVE  RunsInv' /\ Moves
<1>1. Exists(r) /\ runs[r].status = "active" /\ runs[r].attempt < MaxAttempt
  BY DEF ResumeRun
<1>2. /\ UNCHANGED <<runs, journal, inputRun, clock, queue, intake, canceller, crashes>>
      /\ active' \in Slots \cup {None} /\ spent' \in 0..MaxWork
  BY RoomRunsAssumption DEF ResumeRun, durable, Spend, RunsInv, Typed
<1>3. PICK l : /\ task' = [task EXCEPT ![t] = l]
               /\ l = NewTask("resume", r, runs[r], 0, TRUE)
  BY DEF ResumeRun
<1>4. Snapshot(r, runs[r])
  <2>1. RunOK(r) /\ runs[r] \in RunRecord
    BY <1>1 DEF RunsInv, Stored, RunOK, Exists
  <2>2. runs[r].seq \in Nat /\ runs[r].seq <= runs[r].seq
    BY <2>1, RecordFields
  <2>q. QED  BY <1>1, <2>1, <2>2 DEF Snapshot, RunOK, Open
<1>5. DOMAIN l = TaskFields /\ l.pc = "resume" /\ l.id = r /\ l.run = runs[r]
  BY <1>3 DEF NewTask, TaskFields
<1>6. TaskOK(l)
  BY <1>1, <1>4, <1>5 DEF TaskOK, TaskFields, Working, Driving
<1>q. QED  BY <1>2, <1>3, <1>6, TaskStep

\* What a step reads of an open run, before and after it.
LEMMA ReadNow ==
    ASSUME Stored, NEW r \in RunIds, NEW rec, rec = runs[r], Exists(r), rec.status \in Open
    PROVE  Snapshot(r, rec)
<1>1. RunOK(r) /\ rec \in RunRecord
  BY DEF Stored, RunOK, Exists
<1>2. rec.seq \in Nat /\ rec.seq <= rec.seq
  BY <1>1, RecordFields
<1>q. QED  BY <1>1, <1>2 DEF Snapshot, RunOK, Open

LEMMA ReadAfter ==
    ASSUME Stored', NEW r \in RunIds, NEW rec, rec = runs'[r], rec # NoRun, rec.status \in Open
    PROVE  Snapshot(r, rec)'
<1>1. RunOK(r)' /\ rec \in RunRecord /\ Exists(r)'
  BY DEF Stored, RunOK, Exists
<1>2. rec.seq \in Nat /\ rec.seq <= rec.seq
  BY <1>1, RecordFields
<1>q. QED  BY <1>1, <1>2 DEF Snapshot, RunOK, Open, Fresh

\* The transition a committed event makes of the run it was read from.
Transition(k) ==
    CASE k.pend.kind = "completed" -> [k.run EXCEPT !.status = "completed", !.token = 0]
      [] k.pend.kind = "input_requested" ->
           [k.run EXCEPT !.status = "waiting_for_input", !.deadline = 0, !.token = k.run.attempt]
      [] k.pend.kind = "checkpoint" -> [k.run EXCEPT !.checkpoint = k.run.attempt]
      [] OTHER -> k.run

LEMMA TransitionOK ==
    ASSUME NEW k, TaskOK(k), k.pc = "commit"
    PROVE  /\ Transition(k) \in RunRecord
           /\ Transition(k).input = k.run.input /\ Transition(k).root = k.run.root
           /\ Transition(k).attempt = k.run.attempt
           /\ Transition(k).status = "waiting_for_input" => Transition(k).attempt < MaxAttempt
           /\ k.pend.kind \notin {"completed", "input_requested"} => Transition(k).status = "active"
           /\ k.pend.kind \in {"completed", "input_requested"} => Transition(k).status # "active"
<1>1. /\ k.run \in RunRecord /\ k.run.status = "active"
      /\ k.pend.kind = "input_requested" => k.run.attempt < MaxAttempt
  BY DEF TaskOK, Working, Driving, Snapshot
<1>2. /\ k.run.attempt \in Nat /\ k.run.attempt \in 0..(MaxAttempt + 1) /\ MaxAttempt \in Nat
      /\ 0 \in 0..(MaxClock + DeadlineMs) /\ 0 \in 0..(MaxAttempt + 1)
  BY <1>1, RecordFields, RoomRunsAssumption
<1>3. CASE k.pend.kind = "completed"
  <2>1. Transition(k) = [k.run EXCEPT !.status = "completed", !.token = 0]
    BY <1>3 DEF Transition
  <2>q. QED  BY <1>1, <1>2, <1>3, <2>1 DEF RunRecord, Terminal, Open
<1>4. CASE k.pend.kind = "input_requested"
  <2>1. Transition(k) = [k.run EXCEPT !.status = "waiting_for_input", !.deadline = 0,
                                      !.token = k.run.attempt]
    BY <1>4 DEF Transition
  <2>q. QED  BY <1>1, <1>2, <1>4, <2>1 DEF RunRecord, Terminal, Open
<1>5. CASE k.pend.kind = "checkpoint"
  <2>1. Transition(k) = [k.run EXCEPT !.checkpoint = k.run.attempt]
    BY <1>5 DEF Transition
  <2>q. QED  BY <1>1, <1>2, <1>5, <2>1 DEF RunRecord, Terminal, Open
<1>6. CASE k.pend.kind \notin {"completed", "input_requested", "checkpoint"}
  <2>1. Transition(k) = k.run
    BY <1>6 DEF Transition
  <2>q. QED  BY <1>1, <1>2, <1>6, <2>1
<1>q. QED  BY <1>3, <1>4, <1>5, <1>6

LEMMA CommitEventKeeps ==
    ASSUME RunsInv, NEW t \in Slots, CommitEvent(t)
    PROVE  RunsInv' /\ Moves
<1> DEFINE k == task[t]
           settled == [Transition(k) EXCEPT !.seq = Len(journal[k.id]) + 1]
           out == IF k.pend.kind \in Outputs /\ k.pend.out # None
                  THEN [k.out EXCEPT ![k.pend.out].text = @ + 1,
                                     ![k.pend.out].final = (k.pend.kind = "final")]
                  ELSE k.out
           next == CASE k.pend.kind = "final" -> "record"
                     [] k.pend.kind = "decision" -> "utter"
                     [] k.pend.kind \in {"completed", "input_requested"} -> "return"
                     [] OTHER -> "drive"
<1>1. /\ TaskOK(k) /\ DOMAIN k = TaskFields /\ k.pc = "commit" /\ k.pc # "free"
      /\ k.id \in RunIds /\ Exists(k.id)
  BY TaskFacts DEF CommitEvent
<1>2. /\ UNCHANGED <<clock, queue, intake, canceller, crashes>>
      /\ active' = active /\ spent' = spent
      /\ active' \in Slots \cup {None} /\ spent' \in 0..MaxWork
  BY DEF CommitEvent, RunsInv, Typed
<1>3. CASE task' = [task EXCEPT ![t] = Failing(k)] /\ UNCHANGED durable
  BY <1>1, <1>2, <1>3, FailsKeeps DEF durable
<1>4. CASE /\ Fresh(k.id, k.run)
           /\ Appended(k.id, Transition(k), k.pend)
           /\ \/ task' = [task EXCEPT ![t] = Failing([k EXCEPT !.run = settled])]
              \/ task' = [task EXCEPT ![t] = [k EXCEPT !.run = settled, !.out = out, !.pc = next]]
  <2>1. AppendedFrom(k.id, k.run, Transition(k), k.pend)
    <3>1. Snapshot(k.id, k.run) /\ k.run.status = "active"
      BY <1>1 DEF TaskOK, Working, Driving
    <3>2. /\ Transition(k) \in RunRecord
          /\ Transition(k).input = k.run.input /\ Transition(k).root = k.run.root
          /\ Transition(k).attempt = k.run.attempt
          /\ Transition(k).status = "waiting_for_input" => Transition(k).attempt < MaxAttempt
      BY <1>1, TransitionOK
    <3>q. QED  BY <1>4, <3>1, <3>2 DEF AppendedFrom
  <2>2. PICK r, rec, e, next0 : r = k.id /\ rec = k.run /\ e = k.pend /\ next0 = Transition(k)
    OBVIOUS
  <2>3. Stored' /\ Moves /\ Quiet /\ AppendedRun(r, rec, next0, e)
    BY <2>1, <2>2, AppendedKeeps, AppendedGives DEF RunsInv
  <2>4. PICK after : after = settled
    OBVIOUS
  <2>5. after = runs'[r] /\ after \in RunRecord /\ after # NoRun /\ after.status = next0.status
        /\ Exists(r)'
    <3>1. after = runs'[r] /\ after \in RunRecord /\ after.status = next0.status
      BY <2>2, <2>3, <2>4 DEF AppendedRun
    <3>q. QED  BY <3>1, RecordFields DEF Exists
  <2>6. k.pend.kind \notin {"completed", "input_requested"} => after.status = "active"
    BY <1>1, <2>2, <2>5, TransitionOK
  <2>7. after.status = "active" => Snapshot(r, after)'
    BY <1>1, <2>2, <2>3, <2>5, ReadAfter DEF Open
  <2>8. next \in {"record", "utter", "return", "drive"}
        /\ (next # "return" => k.pend.kind \notin {"completed", "input_requested"})
    OBVIOUS
  <2>9. PICK out0, next1 : out0 = out /\ next1 = next
    OBVIOUS
  <2>10. PICK l : /\ task' = [task EXCEPT ![t] = l]
                  /\ \/ l = Failing([k EXCEPT !.run = after])
                     \/ l = [k EXCEPT !.run = after, !.out = out0, !.pc = next1]
    BY <1>4, <2>4, <2>9
  <2> HIDE DEF k, settled, out, next
  <2>11. TaskOK(l)'
    <3>1. CASE l = Failing([k EXCEPT !.run = after])
      <4>1. DOMAIN l = TaskFields /\ l.id = r /\ l.pc = "settle" /\ l.pend \in Failures
        BY <1>1, <2>2, <3>1 DEF Failing, TaskFields, Failures
      <4>q. QED  BY <1>1, <2>2, <2>5, <4>1 DEF TaskOK, Working, Driving, TaskFields
    <3>2. CASE l = [k EXCEPT !.run = after, !.out = out0, !.pc = next1]
      <4>1. DOMAIN l = TaskFields /\ l.id = r /\ l.pc = next1 /\ l.run = after
        BY <1>1, <2>2, <3>2 DEF TaskFields
      <4>2. l.pc \in {"record", "utter", "drive"} => after.status = "active"
        BY <2>6, <2>8, <2>9, <4>1
      <4>3. l.pc \in {"record", "utter", "return", "drive"}
        BY <2>8, <2>9, <4>1
      <4>q. QED  BY <1>1, <2>2, <2>5, <2>7, <4>1, <4>2, <4>3 DEF TaskOK, Working, Driving, TaskFields
    <3>q. QED  BY <2>10, <3>1, <3>2
  <2>q. QED  BY <1>2, <2>3, <2>10, <2>11, TaskWrites
<1>5. \/ task' = [task EXCEPT ![t] = Failing(k)] /\ UNCHANGED durable
      \/ /\ Fresh(k.id, k.run)
         /\ Appended(k.id, Transition(k), k.pend)
         /\ \/ task' = [task EXCEPT ![t] = Failing([k EXCEPT !.run = settled])]
            \/ task' = [task EXCEPT ![t] = [k EXCEPT !.run = settled, !.out = out, !.pc = next]]
  BY DEF CommitEvent, Transition
<1>q. QED  BY <1>3, <1>4, <1>5

LEMMA FinishKeeps ==
    ASSUME RunsInv, NEW t \in Slots, Finish(t)
    PROVE  RunsInv' /\ Moves
<1> DEFINE k == task[t]
           status == CASE k.pend # "aborted" -> k.pend
                       [] k.aborted = "deadline" -> "deadline_exceeded"
                       [] OTHER -> "canceled"
           reason == IF status = "canceled" THEN k.aborted ELSE None
<1>1. /\ TaskOK(k) /\ k.pc = "finish" /\ k.pend \in Failures /\ Snapshot(k.id, k.run)
  <2>1. TaskOK(k) /\ k.pc = "finish"
    BY TaskFacts DEF Finish
  <2>q. QED  BY <2>1 DEF TaskOK
<1>2. UNCHANGED <<clock, queue, intake, canceller, crashes>> /\ spent' = spent /\ EndTask(t)
  BY DEF Finish, EndLost
<1>3. task' = [task EXCEPT ![t] = FreeTask] /\ active' \in Slots \cup {None}
      /\ spent' \in 0..MaxWork
  BY <1>2 DEF EndTask, RunsInv, Typed
<1>4. CASE UNCHANGED durable
  BY <1>2, <1>4, EndKeeps DEF durable
<1>5. CASE Fresh(k.id, k.run) /\ Closed(k.id, k.run, status, reason)
  <2>1. status \in Terminal
    BY <1>1 DEF Failures, Terminal
  <2>2. PICK r, rec, st, why : r = k.id /\ rec = k.run /\ st = status /\ why = reason
    OBVIOUS
  <2>3. Stored' /\ Moves /\ Quiet
    <3>1. Snapshot(r, rec) /\ Fresh(r, rec) /\ Closed(r, rec, st, why) /\ st \in Terminal
      BY <1>1, <1>5, <2>1, <2>2
    <3>2. PICK next, e : AppendedFrom(r, rec, next, e)
      BY <3>1, ClosedKeeps DEF RunsInv
    <3>q. QED  BY <3>2, AppendedKeeps DEF RunsInv
  <2>4. TaskOK(FreeTask)'
    BY <2>3, FreeOK, TaskMoves DEF RunsInv
  <2>q. QED  BY <1>2, <1>3, <2>3, <2>4, TaskWrites
<1>q. QED  BY <1>4, <1>5 DEF Finish, EndLost

LEMMA SaveRunKeeps ==
    ASSUME RunsInv, NEW t \in Slots, SaveRun(t)
    PROVE  RunsInv' /\ Moves
<1> DEFINE k == task[t]
<1>1. /\ TaskOK(k) /\ DOMAIN k = TaskFields /\ k.pc = "save"
      /\ Snapshot(k.id, k.run) /\ k.run.status = "active"
  <2>1. TaskOK(k) /\ DOMAIN k = TaskFields /\ k.pc = "save"
    BY TaskFacts DEF SaveRun
  <2>q. QED  BY <2>1 DEF TaskOK, Working
<1>2. /\ UNCHANGED <<clock, queue, intake, canceller, crashes>>
      /\ UNCHANGED <<journal, inputRun>>
      /\ spent' = spent /\ spent' \in 0..MaxWork
  BY DEF SaveRun, RunsInv, Typed
<1>3. CASE EndTask(t) /\ UNCHANGED runs
  BY <1>2, <1>3, EndKeeps
<1>4. CASE /\ Acquirable(runs[k.id], k.run)
           /\ runs' = [runs EXCEPT ![k.id] = k.run]
           /\ task' = [task EXCEPT ![t].pc = "wait"]
           /\ UNCHANGED active
  <2>1. PICK r, rec : r = k.id /\ rec = k.run
    OBVIOUS
  <2>2. Stored' /\ Moves /\ Quiet
    BY <1>1, <1>2, <1>4, <2>1, AcquiredKeeps DEF RunsInv
  <2>3. PICK l, k0 : k0 = k /\ l = [k EXCEPT !.pc = "wait"] /\ task' = [task EXCEPT ![t] = l]
    BY <1>4
  <2>4. TaskOK(k0)'
    BY <1>1, <2>2, <2>3, TaskMoves DEF RunsInv
  <2> HIDE DEF k
  <2>5. DOMAIN l = TaskFields /\ l.id = k0.id /\ l.run = k0.run /\ l.pc = "wait" /\ l.pend = k0.pend
    BY <1>1, <2>3 DEF TaskFields
  <2>6. TaskOK(l)'
    BY <1>1, <2>3, <2>4, <2>5 DEF TaskOK, Working, Driving, TaskFields
  <2>7. active' \in Slots \cup {None}
    BY <1>4 DEF RunsInv, Typed
  <2>q. QED  BY <1>2, <2>2, <2>3, <2>6, <2>7, TaskWrites
<1>5. CASE task' = [task EXCEPT ![t].pc = "dead"] /\ UNCHANGED <<runs, active>>
  <2>1. PICK l, k0 : k0 = k /\ l = [k EXCEPT !.pc = "dead"] /\ task' = [task EXCEPT ![t] = l]
    BY <1>5
  <2> HIDE DEF k
  <2>2. DOMAIN l = TaskFields /\ l.id = k.id /\ l.run = k.run /\ l.pc = "dead"
    BY <1>1, <2>1 DEF TaskFields
  <2>3. TaskOK(l)
    BY <1>1, <2>2 DEF TaskOK, TaskFields, Working, Driving
  <2>4. active' \in Slots \cup {None}
    BY <1>5 DEF RunsInv, Typed
  <2>q. QED  BY <1>2, <1>5, <2>1, <2>3, <2>4, TaskStep
<1>q. QED  BY <1>3, <1>4, <1>5 DEF SaveRun

\* Steps that touch several executions and no run.
LEMMA ManyStep ==
    ASSUME RunsInv, UNCHANGED <<runs, journal, inputRun>>,
           \A t \in Slots : Alike(task[t], task'[t]) \/ TaskOK(task[t])',
           Typed', CancellerOK', IntakeOK'
    PROVE  RunsInv' /\ Moves
<1>1. Stored' /\ Moves
  BY UnchangedRuns DEF RunsInv
<1>2. \A t \in Slots : TaskOK(task[t])'
  BY <1>1, TasksKeep DEF RunsInv
<1>q. QED  BY <1>1, <1>2 DEF RunsInv

\* Aborting executions, and moving the lane on, change nothing else of them.
LEMMA AbortAllAlike ==
    ASSUME NEW tasks, NEW which, NEW reason, NEW t \in Slots
    PROVE  /\ DOMAIN AbortAll(tasks, which, reason) = Slots
           /\ Alike(tasks[t], AbortAll(tasks, which, reason)[t])
<1>1. AbortAll(tasks, which, reason)[t] \in {[tasks[t] EXCEPT !.aborted = reason], tasks[t]}
  BY DEF AbortAll
<1>q. QED  BY <1>1 DEF Alike, AbortAll

LEMMA DequeueAlike ==
    ASSUME NEW tasks, Dequeue(tasks), NEW t \in Slots
    PROVE  DOMAIN task' = Slots /\ Alike(tasks[t], task'[t])
<1>1. task'[t] \in {[tasks[t] EXCEPT !.wait = @ - 1], tasks[t]}
  BY DEF Dequeue
<1>q. QED  BY <1>1 DEF Alike, Dequeue

\* The lane moves on after it aborted some executions.
LEMMA AbortedAlike ==
    ASSUME NEW which, NEW reason,
           \/ task' = AbortAll(task, which, reason)
           \/ Dequeue(AbortAll(task, which, reason))
    PROVE  \A u \in Slots : Alike(task[u], task'[u])
<1>1. PICK f : f = AbortAll(task, which, reason)
  OBVIOUS
<1>2. \A u \in Slots : Alike(task[u], f[u])
  BY <1>1, AbortAllAlike
<1>3. CASE task' = f
  BY <1>2, <1>3
<1>4. CASE Dequeue(f)
  BY <1>2, <1>4, DequeueAlike DEF Alike
<1>q. QED  BY <1>1, <1>3, <1>4

\* One execution is replaced while others are aborted.
LEMMA ReplacedAlike ==
    ASSUME NEW which, NEW reason, NEW t \in Slots, NEW l,
           task' = [AbortAll(task, which, reason) EXCEPT ![t] = l]
    PROVE  /\ DOMAIN task' = Slots /\ task'[t] = l
           /\ \A u \in Slots \ {t} : Alike(task[u], task'[u])
<1>1. PICK f : f = AbortAll(task, which, reason) /\ task' = [f EXCEPT ![t] = l]
  OBVIOUS
<1>2. DOMAIN f = Slots /\ \A u \in Slots : Alike(task[u], f[u])
  BY <1>1, AbortAllAlike DEF AbortAll
<1>q. QED  BY <1>1, <1>2

\* A failed interruption of the channel ends the resumption.
LEMMA TakeChannelFails ==
    ASSUME RunsInv, NEW t \in Slots, NEW which,
           UNCHANGED <<runs, journal, inputRun, clock, queue, intake, active, canceller,
                       spent, crashes>>,
           task' = [AbortAll(task, which, "resumed") EXCEPT ![t] = FreeTask]
    PROVE  RunsInv' /\ Moves
<1>1. PICK l : l = FreeTask
  OBVIOUS
<1>2. /\ DOMAIN task' = Slots /\ task'[t] = l
      /\ \A u \in Slots \ {t} : Alike(task[u], task'[u])
  BY <1>1, ReplacedAlike
<1>3. Stored' /\ Moves /\ Quiet
  BY UnchangedRuns DEF RunsInv
<1>4. TaskOK(l)'
  BY <1>1, <1>3, FreeOK, TaskMoves DEF RunsInv
<1>5. \A u \in Slots : Alike(task[u], task'[u]) \/ TaskOK(task[u])'
  BY <1>2, <1>4 DEF TaskOK
<1>6. Typed'
  BY <1>2 DEF RunsInv, Typed
<1>7. CancellerOK' /\ IntakeOK'
  BY <1>3, CancellerKeeps, IntakeKeeps DEF RunsInv
<1>q. QED  BY <1>5, <1>6, <1>7, ManyStep

LEMMA TakeChannelKeeps ==
    ASSUME RunsInv, NEW t \in Slots, TakeChannel(t)
    PROVE  RunsInv' /\ Moves
<1>0. CASE /\ task' = [AbortAll(task, {active}, "resumed") EXCEPT ![t] = FreeTask]
           /\ UNCHANGED active
  BY <1>0, TakeChannelFails DEF TakeChannel, durable
<1> SUFFICES ASSUME task' = [AbortAll(task, {active} \cap Slots, "resumed") EXCEPT ![t] =
                        [task[t] EXCEPT !.pc = "save", !.run.attempt = @ + 1]],
                    active' = t
             PROVE  RunsInv' /\ Moves
  BY <1>0 DEF TakeChannel
<1> DEFINE k == task[t]
           which == {active} \cap Slots
<1>1. /\ TaskOK(k) /\ DOMAIN k = TaskFields /\ k.pc = "resume" /\ k.id \in RunIds /\ Exists(k.id)
      /\ Snapshot(k.id, k.run) /\ k.run.status = "active" /\ k.run.attempt < MaxAttempt
  <2>1. TaskOK(k) /\ DOMAIN k = TaskFields /\ k.pc = "resume" /\ k.id \in RunIds /\ Exists(k.id)
    BY TaskFacts DEF TakeChannel
  <2>q. QED  BY <2>1 DEF TaskOK, Working
<1>2. UNCHANGED <<runs, journal, inputRun, clock, queue, intake, canceller, spent, crashes>>
  BY DEF TakeChannel, durable
<1>3. PICK l, rec : /\ rec = [k.run EXCEPT !.attempt = @ + 1]
                    /\ l = [k EXCEPT !.pc = "save", !.run = rec]
                    /\ task' = [AbortAll(task, which, "resumed") EXCEPT ![t] = l]
                    /\ active' = t
  OBVIOUS
<1>4. /\ DOMAIN task' = Slots /\ task'[t] = l
      /\ \A u \in Slots \ {t} : Alike(task[u], task'[u])
  <2>1. /\ DOMAIN AbortAll(task, which, "resumed") = Slots
        /\ \A u \in Slots : Alike(task[u], AbortAll(task, which, "resumed")[u])
    BY AbortAllAlike
  <2>q. QED  BY <1>3, <2>1
<1>5. Stored' /\ Moves /\ Quiet
  BY <1>2, UnchangedRuns DEF RunsInv
<1>6. TaskOK(l)'
  <2>1. Snapshot(k.id, rec) /\ rec.status = "active" /\ rec.attempt <= MaxAttempt
    <3>1. k.run \in RunRecord /\ k.run.attempt \in Nat /\ MaxAttempt \in Nat
      BY <1>1, RecordFields, RoomRunsAssumption DEF Snapshot
    <3>2. rec \in RunRecord /\ rec.input = k.run.input /\ rec.root = k.run.root
          /\ rec.seq = k.run.seq /\ rec.status = k.run.status /\ rec.attempt <= MaxAttempt
      BY <1>1, <1>3, <3>1 DEF RunRecord
    <3>q. QED  BY <1>1, <3>2 DEF Snapshot, Fresh
  <2> HIDE DEF k
  <2>2. DOMAIN l = TaskFields /\ l.id = k.id /\ l.run = rec /\ l.pc = "save"
    BY <1>1, <1>3 DEF TaskFields
  <2>3. TaskOK(l)
    BY <1>1, <2>1, <2>2 DEF TaskOK, Working, Driving, TaskFields
  <2>q. QED  BY <1>5, <2>3, TaskMoves DEF RunsInv
<1>7. \A u \in Slots : Alike(task[u], task'[u]) \/ TaskOK(task[u])'
  BY <1>4, <1>6 DEF TaskOK
<1>8. Typed' /\ CancellerOK' /\ IntakeOK'
  <2>1. Typed'
    BY <1>2, <1>3, <1>4 DEF RunsInv, Typed
  <2>2. CancellerOK'
    BY <1>2, <1>5, CancellerKeeps DEF RunsInv
  <2>3. IntakeOK'
    BY <1>2, <1>5, IntakeKeeps DEF RunsInv
  <2>q. QED  BY <2>1, <2>2, <2>3
<1>q. QED  BY <1>2, <1>7, <1>8, ManyStep

\* Steps that abort executions and leave the runs and the lane alone.
LEMMA AbortStep ==
    ASSUME RunsInv, NEW which, NEW reason, task' = AbortAll(task, which, reason),
           UNCHANGED <<runs, journal, inputRun, clock, queue, intake, active, crashes>>,
           spent' \in 0..MaxWork, CancellerOK'
    PROVE  RunsInv' /\ Moves
<1>2. DOMAIN task' = Slots /\ \A t \in Slots : Alike(task[t], task'[t])
  BY AbortAllAlike DEF AbortAll
<1>3. Stored' /\ Moves /\ Quiet
  BY UnchangedRuns DEF RunsInv
<1>4. Typed'
  BY <1>2 DEF RunsInv, Typed
<1>5. IntakeOK'
  BY <1>3, IntakeKeeps DEF RunsInv
<1>q. QED  BY <1>2, <1>4, <1>5, ManyStep

LEMMA CancelRunKeeps ==
    ASSUME RunsInv, NEW r \in RunIds, CancelRun(r)
    PROVE  RunsInv' /\ Moves
<1>1. /\ Exists(r) /\ runs[r].status \in Open
      /\ task' = AbortAll(task, ActiveOf(r), "host")
      /\ \/ canceller' = [pc |-> "close", id |-> r, read |-> runs[r]]
         \/ UNCHANGED canceller
      /\ UNCHANGED <<runs, journal, inputRun, clock, queue, intake, active, crashes>>
      /\ spent' \in 0..MaxWork
  BY RoomRunsAssumption DEF CancelRun, durable, Spend, RunsInv, Typed
<1>2. PICK rec : rec = runs[r]
  OBVIOUS
<1>3. Snapshot(r, rec)
  BY <1>1, <1>2, ReadNow DEF RunsInv
<1>4. Snapshot(r, rec)'
  BY <1>1, <1>3, UnchangedRuns, SnapshotMoves DEF RunsInv
<1>5. CancellerOK'
  <2>1. CASE canceller' = [pc |-> "close", id |-> r, read |-> runs[r]]
    <3>1. canceller'.pc = "close" /\ canceller'.id = r /\ canceller'.read = rec
      BY <1>2, <2>1
    <3>q. QED  BY <1>4, <3>1 DEF CancellerOK
  <2>2. CASE UNCHANGED canceller
    BY <1>1, <2>2, UnchangedRuns, CancellerKeeps DEF RunsInv
  <2>q. QED  BY <1>1, <2>1, <2>2
<1>q. QED  BY <1>1, <1>5, AbortStep

LEMMA CancelCloseKeeps ==
    ASSUME RunsInv, CancelClose
    PROVE  RunsInv' /\ Moves
<1>1. /\ canceller' = Idle /\ Snapshot(canceller.id, canceller.read)
      /\ UNCHANGED <<clock, queue, intake, task, active, spent, crashes>>
  BY DEF CancelClose, RunsInv, CancellerOK, Idle
<1>2. Stored' /\ Moves /\ Quiet
  <2>1. CASE UNCHANGED durable
    BY <2>1, UnchangedRuns DEF durable, RunsInv
  <2>2. CASE /\ Fresh(canceller.id, canceller.read)
             /\ Closed(canceller.id, canceller.read, "canceled", "host")
    <3>1. PICK r, rec, st, why : /\ r = canceller.id /\ rec = canceller.read
                                 /\ st = "canceled" /\ why = "host"
      OBVIOUS
    <3>2. Snapshot(r, rec) /\ Fresh(r, rec) /\ Closed(r, rec, st, why) /\ st \in Terminal
      BY <1>1, <2>2, <3>1 DEF Terminal
    <3>3. PICK next, e : AppendedFrom(r, rec, next, e)
      BY <3>2, ClosedKeeps DEF RunsInv
    <3>q. QED  BY <3>3, AppendedKeeps DEF RunsInv
  <2>q. QED  BY <2>1, <2>2 DEF CancelClose
<1>3. Typed' /\ CancellerOK' /\ IntakeOK'
  <2>1. Typed' /\ CancellerOK'
    BY <1>1 DEF RunsInv, Typed, CancellerOK
  <2>2. IntakeOK'
    BY <1>1, <1>2, IntakeKeeps DEF RunsInv
  <2>q. QED  BY <2>1, <2>2
<1>4. \A t \in Slots : TaskOK(task[t])'
  <2>1. \A t \in Slots : Alike(task[t], task'[t])
    BY <1>1 DEF Alike
  <2>q. QED  BY <1>2, <2>1, TasksKeep DEF RunsInv
<1>q. QED  BY <1>2, <1>3, <1>4 DEF RunsInv

LEMMA InterruptKeeps ==
    ASSUME RunsInv, Interrupt
    PROVE  RunsInv' /\ Moves
<1>1. /\ task' = AbortAll(task, {active}, "host")
      /\ UNCHANGED <<runs, journal, inputRun, clock, queue, intake, active, canceller, crashes>>
      /\ spent' \in 0..MaxWork
  BY RoomRunsAssumption DEF Interrupt, durable, Spend, RunsInv, Typed
<1>2. CancellerOK'
  BY <1>1, UnchangedRuns, CancellerKeeps DEF RunsInv
<1>q. QED  BY <1>1, <1>2, AbortStep

LEMMA CrashKeeps ==
    ASSUME RunsInv, Crash
    PROVE  RunsInv' /\ Moves
<1>1. /\ UNCHANGED <<runs, journal, inputRun, clock, spent>>
      /\ queue' = <<>> /\ intake' = Idle /\ canceller' = Idle
      /\ task' = [t \in Slots |-> FreeTask] /\ active' = None
      /\ crashes' \in 0..MaxCrashes
  BY RoomRunsAssumption DEF Crash, durable, RunsInv, Typed
<1>2. Stored' /\ Moves
  BY <1>1, UnchangedRuns DEF RunsInv
<1>3. TaskOK(FreeTask)'
  BY <1>2, FreeOK, TaskMoves DEF RunsInv
<1>4. \A t \in Slots : TaskOK(task[t])'
  BY <1>1, <1>3 DEF TaskOK
<1>5. Typed' /\ CancellerOK' /\ IntakeOK'
  BY <1>1 DEF RunsInv, Typed, CancellerOK, IntakeOK
<1>q. QED  BY <1>2, <1>4, <1>5 DEF RunsInv

\* Steps that touch no run, no execution, no cancellation.
LEMMA LaneStep ==
    ASSUME RunsInv, UNCHANGED <<runs, journal, inputRun, task, canceller>>, Typed', IntakeOK'
    PROVE  RunsInv' /\ Moves
<1>1. Stored' /\ Moves
  BY UnchangedRuns DEF RunsInv
<1>2. CancellerOK'
  BY <1>1, CancellerKeeps DEF RunsInv
<1>3. \A t \in Slots : Alike(task[t], task'[t])
  BY DEF Alike
<1>q. QED  BY <1>2, <1>3, ManyStep

LEMMA TickKeeps ==
    ASSUME RunsInv, Tick
    PROVE  RunsInv' /\ Moves
<1>1. /\ UNCHANGED <<runs, journal, inputRun, task, canceller, queue, intake>>
      /\ Typed'
  BY RoomRunsAssumption DEF Tick, durable, Spend, RunsInv, Typed
<1>2. IntakeOK'
  BY <1>1, UnchangedRuns, IntakeKeeps DEF RunsInv
<1>q. QED  BY <1>1, <1>2, LaneStep

LEMMA SubmitKeeps ==
    ASSUME RunsInv, NEW q \in Request, Submit(q)
    PROVE  RunsInv' /\ Moves
<1>1. /\ UNCHANGED <<runs, journal, inputRun, task, canceller, intake, clock, active, crashes>>
      /\ queue' = Append(queue, q) /\ spent' \in 0..MaxWork
  BY RoomRunsAssumption DEF Submit, durable, Spend, RunsInv, Typed
<1>2. queue \in Seq(Request)
  BY DEF RunsInv, Typed
<1>3. /\ queue' \in Seq(Request)
      /\ queue # <<>> => queue' # <<>> /\ Head(queue') = Head(queue)
  BY <1>1, <1>2
<1>4. Typed'
  BY <1>1, <1>3 DEF RunsInv, Typed
<1>5. IntakeOK'
  BY <1>1, <1>3, UnchangedRuns, IntakeKeeps DEF RunsInv
<1>q. QED  BY <1>1, <1>4, <1>5, LaneStep

-----------------------------------------------------------------------------
(* Steps of the intake.                                                    *)

\* The head of the lane is answered without an admission.
LEMMA RejectedKeeps ==
    ASSUME RunsInv, Rejected, queue # <<>>, UNCHANGED <<clock, canceller, spent, crashes>>
    PROVE  RunsInv' /\ Moves
<1>1. /\ UNCHANGED <<runs, journal, inputRun, active>> /\ intake' = Idle
      /\ queue' = Tail(queue) /\ Dequeue(task)
  BY DEF Rejected, Dequeue, durable
<1>2. \A t \in Slots : Alike(task[t], task'[t])
  BY <1>1, DequeueAlike
<1>3. Typed'
  <2>1. DOMAIN task' = Slots
    BY <1>1 DEF Dequeue
  <2>2. queue' \in Seq(Request)
    BY <1>1 DEF RunsInv, Typed
  <2>q. QED  BY <1>1, <2>1, <2>2 DEF RunsInv, Typed
<1>4. CancellerOK'
  BY <1>1, UnchangedRuns, CancellerKeeps DEF RunsInv
<1>5. IntakeOK'
  BY <1>1 DEF IntakeOK
<1>q. QED  BY <1>1, <1>2, <1>3, <1>4, <1>5, ManyStep

\* The lane gives a request up after it aborted some executions and perhaps closed a run.
LEMMA GivenUpKeeps ==
    ASSUME RunsInv, Stored', Moves, queue # <<>>, UNCHANGED <<clock, canceller, spent, crashes>>,
           UNCHANGED active, NEW which, Dequeue(AbortAll(task, which, "input")) \/ Dequeue(task)
    PROVE  RunsInv' /\ Moves
<1>1. intake' = Idle /\ queue' = Tail(queue) /\ DOMAIN task' = Slots
  BY DEF Dequeue
<1>2. \A t \in Slots : Alike(task[t], task'[t])
  BY AbortedAlike, DequeueAlike
<1>3. Typed'
  <2>1. queue' \in Seq(Request)
    BY <1>1 DEF RunsInv, Typed
  <2>q. QED  BY <1>1, <2>1 DEF RunsInv, Typed
<1>4. CancellerOK'
  BY CancellerKeeps DEF RunsInv
<1>5. IntakeOK'
  BY <1>1 DEF IntakeOK
<1>6. \A t \in Slots : TaskOK(task[t])'
  BY <1>2, TasksKeep DEF RunsInv
<1>q. QED  BY <1>3, <1>4, <1>5, <1>6 DEF RunsInv

\* What the intake knows before it builds a record.
LaneOK(open) ==
    /\ queue # <<>> /\ Head(queue) \in Request
    /\ inputRun[Head(queue).input] = NoRun
    /\ open \in RunIds \cup {NoRun}
    /\ OpenRuns \subseteq {open}
    /\ open # NoRun => Exists(open)

\* A new record for the input at the head of the lane is well formed.
LEMMA FreshRecord ==
    ASSUME RunsInv, NEW q \in Request, NEW checkpoint \in {0, 1}, NEW rec,
           rec = [status |-> "active", attempt |-> 1, root |-> q.input, input |-> q.input,
                  disc |-> DiscOf[q.input],
                  deadline |-> IF DeadlineMs = 0 THEN 0 ELSE clock + DeadlineMs,
                  seq |-> 0, checkpoint |-> checkpoint, token |-> 0]
    PROVE  NewRecord(rec, q.input)
<1>1. q.input \in Inputs /\ clock \in 0..MaxClock
  BY DEF Request, RunsInv, Typed
<1>2. /\ DeadlineMs \in Nat /\ MaxClock \in Nat /\ MaxAttempt \in Nat \ {0}
  BY RoomRunsAssumption
<1>3. (IF DeadlineMs = 0 THEN 0 ELSE clock + DeadlineMs) \in 0..(MaxClock + DeadlineMs)
  BY <1>1, <1>2
<1>4. DiscOf[q.input] \in SUBSET UNION {DiscOf[i] : i \in Inputs}
  BY <1>1
<1>5. 1 \in 1..(MaxAttempt + 1) /\ checkpoint \in 0..(MaxAttempt + 1) /\ 0 \in 0..(MaxAttempt + 1)
  BY <1>2
<1>6. rec \in RunRecord
  BY <1>1, <1>3, <1>4, <1>5 DEF RunRecord, Open
<1>q. QED  BY <1>6 DEF NewRecord

\* The next attempt of a waiting run is well formed.
NextAttempt(q, r) ==
    [runs[r] EXCEPT !.status = "active", !.attempt = @ + 1, !.input = q.input,
                    !.disc = @ \cap DiscOf[q.input],
                    !.deadline = IF DeadlineMs = 0 THEN 0 ELSE clock + DeadlineMs,
                    !.token = 0]

LEMMA ContinuedRecord ==
    ASSUME RunsInv, NEW q \in Request, NEW r \in RunIds, Exists(r),
           runs[r].status = "waiting_for_input", NEW rec, rec = NextAttempt(q, r)
    PROVE  /\ rec \in RunRecord /\ rec.status = "active" /\ rec.input = q.input
           /\ rec.attempt <= MaxAttempt
<1>1. q.input \in Inputs /\ clock \in 0..MaxClock
  BY DEF Request, RunsInv, Typed
<1>2. /\ DeadlineMs \in Nat /\ MaxClock \in Nat /\ MaxAttempt \in Nat \ {0}
  BY RoomRunsAssumption
<1>3. (IF DeadlineMs = 0 THEN 0 ELSE clock + DeadlineMs) \in 0..(MaxClock + DeadlineMs)
  BY <1>1, <1>2
<1>4. runs[r] \in RunRecord /\ runs[r].attempt < MaxAttempt
  BY DEF RunsInv, Stored, RunOK, Exists
<1>5. /\ runs[r].attempt + 1 \in 1..(MaxAttempt + 1) /\ runs[r].attempt + 1 <= MaxAttempt
      /\ 0 \in 0..(MaxAttempt + 1)
  BY <1>2, <1>4, RecordFields
<1>6. runs[r].disc \cap DiscOf[q.input] \in SUBSET UNION {DiscOf[i] : i \in Inputs}
  BY <1>4 DEF RunRecord
<1>q. QED  BY <1>1, <1>3, <1>4, <1>5, <1>6 DEF RunRecord, Open, NextAttempt

LEMMA BuildKeeps ==
    ASSUME RunsInv, NEW open, LaneOK(open), Build(Head(queue), open),
           UNCHANGED <<runs, journal, inputRun, queue, task, active>>,
           UNCHANGED <<clock, canceller, spent, crashes>>
    PROVE  RunsInv' /\ Moves
<1> DEFINE q == Head(queue)
           deadline == IF DeadlineMs = 0 THEN 0 ELSE clock + DeadlineMs
           continued == [runs[open] EXCEPT !.status = "active", !.attempt = @ + 1,
                          !.input = q.input, !.disc = @ \cap DiscOf[q.input],
                          !.deadline = deadline, !.token = 0]
           fresh == [status |-> "active", attempt |-> 1, root |-> q.input, input |-> q.input,
                  disc |-> DiscOf[q.input], deadline |-> deadline, seq |-> 0,
                  checkpoint |-> IF q.supersedes = NoRun THEN 0 ELSE 1, token |-> 0]
<1>1. /\ queue # <<>> /\ q \in Request /\ inputRun[q.input] = NoRun
      /\ open \in RunIds \cup {NoRun} /\ OpenRuns \subseteq {open}
      /\ open # NoRun => Exists(open)
  BY DEF LaneOK
<1>2. /\ queue' = queue /\ inputRun' = inputRun /\ OpenRuns' = OpenRuns
      /\ \A r \in RunIds : Exists(r)' = Exists(r)
  BY DEF OpenRuns, Exists
<1>3. CASE /\ Continues(q, open)
           /\ intake' = [pc |-> "admit", id |-> open, record |-> continued]
  <2>1. open \in RunIds /\ Exists(open) /\ runs[open].status = "waiting_for_input"
    BY <1>1, <1>3 DEF Continues
  <2>2. PICK rec : rec = continued /\ rec = NextAttempt(q, open)
    BY DEF NextAttempt
  <2>3. /\ rec \in RunRecord /\ rec.status = "active" /\ rec.input = q.input
        /\ rec.attempt <= MaxAttempt
    <3> HIDE DEF continued, fresh, deadline
    <3>q. QED  BY <1>1, <2>1, <2>2, ContinuedRecord
  <2>4. /\ intake' = [pc |-> "admit", id |-> open, record |-> rec]
    BY <1>3, <2>2
  <2> HIDE DEF continued, deadline
  <2>5. IntakeOK'
    BY <1>1, <1>2, <2>1, <2>3, <2>4 DEF IntakeOK
  <2>q. QED  BY <2>5, LaneStep DEF RunsInv, Typed
<1>4. CASE \E r \in RunIds :
                /\ ~Exists(r)
                /\ intake' = IF open = NoRun
                             THEN [pc |-> "admit", id |-> r, record |-> fresh]
                             ELSE [pc |-> "cancel", id |-> r, record |-> fresh, open |-> open]
  <2>1. PICK r \in RunIds :
                /\ ~Exists(r)
                /\ intake' = IF open = NoRun
                             THEN [pc |-> "admit", id |-> r, record |-> fresh]
                             ELSE [pc |-> "cancel", id |-> r, record |-> fresh, open |-> open]
    BY <1>4
  <2>2. PICK rec : rec = fresh
    OBVIOUS
  <2>3. NewRecord(rec, q.input)
    BY <1>1, <2>2, FreshRecord
  <2>4. NewRecord(rec, q.input)'
    BY <1>2, <2>3 DEF NewRecord
  <2> HIDE DEF fresh, deadline
  <2>5. CASE open = NoRun
    <3>1. OpenRuns = {} /\ intake' = [pc |-> "admit", id |-> r, record |-> rec]
      BY <1>1, <2>1, <2>2, <2>5, RoomRunsAssumption DEF OpenRuns
    <3>2. IntakeOK'
      BY <1>1, <1>2, <2>1, <2>4, <3>1 DEF IntakeOK
    <3>q. QED  BY <3>2, LaneStep DEF RunsInv, Typed
  <2>6. CASE open # NoRun
    <3>1. /\ intake' = [pc |-> "cancel", id |-> r, record |-> rec, open |-> open]
          /\ open \in RunIds /\ Exists(open)
      BY <1>1, <2>1, <2>2, <2>6
    <3>2. IntakeOK'
      BY <1>1, <1>2, <2>1, <2>4, <3>1 DEF IntakeOK
    <3>q. QED  BY <3>2, LaneStep DEF RunsInv, Typed
  <2>q. QED  BY <2>5, <2>6
<1>q. QED  BY <1>3, <1>4 DEF Build

LEMMA ProceedKeeps ==
    ASSUME RunsInv, NEW open, LaneOK(open), Proceed(Head(queue), open),
           UNCHANGED <<clock, canceller, spent, crashes>>
    PROVE  RunsInv' /\ Moves
<1>1. CASE Build(Head(queue), open) /\ UNCHANGED <<durable, queue, task, active>>
  BY <1>1, BuildKeeps DEF durable
<1>2. CASE Rejected
  BY <1>2, RejectedKeeps DEF LaneOK
<1>q. QED  BY <1>1, <1>2 DEF Proceed

\* The head of the lane while it is served.
LEMMA HeadFacts ==
    ASSUME RunsInv, queue # <<>>
    PROVE  Head(queue) \in Request /\ Head(queue).input \in Inputs
<1>1. Head(queue) \in Request
  BY DEF RunsInv, Typed
<1>q. QED  BY <1>1 DEF Request

LEMMA IntakeLookKeeps ==
    ASSUME RunsInv, IntakeLook
    PROVE  RunsInv' /\ Moves
<1>1. queue # <<>> /\ UNCHANGED <<clock, canceller, spent, crashes>>
  BY DEF IntakeLook
<1>2. CASE Rejected
  BY <1>1, <1>2, RejectedKeeps
<1>3. CASE /\ inputRun[Head(queue).input] = NoRun
           /\ intake' = [pc |-> "open"]
           /\ UNCHANGED <<durable, queue, task, active>>
  <2>1. IntakeOK'
    BY <1>1, <1>3 DEF IntakeOK, durable
  <2>q. QED  BY <1>1, <1>3, <2>1, LaneStep DEF RunsInv, Typed, durable
<1>q. QED  BY <1>2, <1>3 DEF IntakeLook

LEMMA IntakeOpenKeeps ==
    ASSUME RunsInv, IntakeOpen
    PROVE  RunsInv' /\ Moves
<1> DEFINE q == Head(queue)
<1>1. /\ intake.pc = "open" /\ UNCHANGED <<clock, canceller, spent, crashes>>
  BY DEF IntakeOpen
<1>2. queue # <<>> /\ inputRun[q.input] = NoRun /\ q \in Request
  <2>1. queue # <<>> /\ inputRun[q.input] = NoRun
    BY <1>1 DEF RunsInv, IntakeOK, Idle
  <2>q. QED  BY <2>1, HeadFacts
<1>3. CASE Rejected
  BY <1>1, <1>2, <1>3, RejectedKeeps
<1>4. ASSUME NEW open \in IF OpenRuns = {} THEN {NoRun} ELSE OpenRuns
      PROVE  LaneOK(open)
  <2>1. OpenRuns \subseteq {open}
    BY DEF RunsInv, Stored
  <2>q. QED  BY <1>2, <2>1 DEF LaneOK, OpenRuns
<1>5. ASSUME NEW open \in IF OpenRuns = {} THEN {NoRun} ELSE OpenRuns,
             Proceed(q, open)
      PROVE  RunsInv' /\ Moves
  BY <1>1, <1>4, <1>5, ProceedKeeps
<1>6. ASSUME NEW open \in IF OpenRuns = {} THEN {NoRun} ELSE OpenRuns,
             open = q.supersedes, q.supersedes # NoRun, runs[open].status = "active",
             intake' = [pc |-> "supersede", open |-> open, record |-> runs[open]],
             UNCHANGED <<durable, queue, task, active>>
      PROVE  RunsInv' /\ Moves
  <2>1. open \in RunIds /\ Exists(open) /\ OpenRuns \subseteq {open}
    BY <1>4, <1>6 DEF LaneOK
  <2>2. PICK rec : rec = runs[open]
    OBVIOUS
  <2>3. Snapshot(open, rec)
    BY <1>6, <2>1, <2>2, ReadNow DEF RunsInv, Open
  <2>4. Snapshot(open, rec)'
    BY <1>6, <2>3, UnchangedRuns, SnapshotMoves DEF RunsInv, durable
  <2>5. intake' = [pc |-> "supersede", open |-> open, record |-> rec]
    BY <1>6, <2>2
  <2>6. OpenRuns' \subseteq {open} /\ inputRun' = inputRun /\ queue' = queue
    BY <1>6, <2>1 DEF OpenRuns, Exists, durable
  <2>7. IntakeOK'
    BY <1>2, <2>4, <2>5, <2>6 DEF IntakeOK
  <2>q. QED  BY <1>1, <1>6, <2>7, LaneStep DEF RunsInv, Typed, durable
<1>7. PICK open \in IF OpenRuns = {} THEN {NoRun} ELSE OpenRuns :
        \/ Rejected
        \/ Proceed(q, open)
        \/ open = NoRun /\ Proceed(q, NoRun)
        \/ /\ open = q.supersedes /\ q.supersedes # NoRun /\ runs[open].status = "active"
           /\ intake' = [pc |-> "supersede", open |-> open, record |-> runs[open]]
           /\ UNCHANGED <<durable, queue, task, active>>
  BY DEF IntakeOpen
<1>q. QED  BY <1>3, <1>5, <1>6, <1>7

LEMMA IntakeCancelKeeps ==
    ASSUME RunsInv, IntakeCancel
    PROVE  RunsInv' /\ Moves
<1> DEFINE q == Head(queue)
           r == intake.open
<1>1. /\ intake.pc = "cancel" /\ UNCHANGED <<clock, canceller, spent, crashes>>
      /\ UNCHANGED <<runs, journal, inputRun, active>>
  BY DEF IntakeCancel, durable
<1>2. /\ queue # <<>> /\ inputRun[q.input] = NoRun
      /\ intake.id \in RunIds /\ ~Exists(intake.id)
      /\ NewRecord(intake.record, q.input)
      /\ r \in RunIds /\ Exists(r) /\ OpenRuns \subseteq {r}
  BY <1>1 DEF RunsInv, IntakeOK, Idle
<1>3. /\ OpenRuns' = OpenRuns
      /\ \A s \in RunIds : Exists(s)' = Exists(s)
  <2>1. runs' = runs
    BY <1>1
  <2>2. \A s \in RunIds : Exists(s)' = Exists(s)
    BY <2>1 DEF Exists
  <2>3. OpenRuns' = OpenRuns
    BY <2>1 DEF OpenRuns, Exists
  <2>q. QED  BY <2>2, <2>3
<1>4. CASE /\ runs[r].status \in Terminal
           /\ intake' = [pc |-> "admit", id |-> intake.id, record |-> intake.record]
           /\ UNCHANGED <<durable, queue, task, active>>
  <2>1. OpenRuns = {}
    BY <1>2, <1>4 DEF OpenRuns, Terminal, Open
  <2>2. PICK id, rec : id = intake.id /\ rec = intake.record
    OBVIOUS
  <2>3. intake' = [pc |-> "admit", id |-> id, record |-> rec] /\ id \in RunIds /\ ~Exists(id)
        /\ NewRecord(rec, q.input)
    BY <1>2, <1>4, <2>2
  <2>4. ~Exists(id)' /\ NewRecord(rec, Head(queue').input) /\ queue' = queue
    BY <1>1, <1>3, <1>4, <2>3
  <2>5. IntakeOK'
    BY <1>1, <1>2, <1>3, <2>1, <2>3, <2>4 DEF IntakeOK, NewRecord
  <2>q. QED  BY <1>1, <1>4, <2>5, LaneStep DEF RunsInv, Typed
<1>5. CASE /\ runs[r].status \in Open
           /\ task' = AbortAll(task, ActiveOf(r), "input")
           /\ intake' = [pc |-> "close", id |-> intake.id, record |-> intake.record,
                         open |-> r, read |-> runs[r]]
           /\ UNCHANGED queue
  <2>1. PICK id, rec, r0, read : id = intake.id /\ rec = intake.record /\ r0 = r /\ read = runs[r]
    OBVIOUS
  <2>2. /\ intake' = [pc |-> "close", id |-> id, record |-> rec, open |-> r0, read |-> read]
        /\ id \in RunIds /\ ~Exists(id) /\ NewRecord(rec, q.input)
        /\ r0 \in RunIds /\ Exists(r0) /\ OpenRuns \subseteq {r0}
    BY <1>2, <1>5, <2>1
  <2>3. Snapshot(r0, read)
    BY <1>5, <2>1, <2>2, ReadNow DEF RunsInv
  <2>4. Snapshot(r0, read)'
    BY <1>1, <2>3, UnchangedRuns, SnapshotMoves DEF RunsInv
  <2>5. ~Exists(id)' /\ NewRecord(rec, Head(queue').input)
    BY <1>1, <1>3, <1>5, <2>2
  <2>6. IntakeOK'
    BY <1>1, <1>2, <1>3, <2>2, <2>4, <2>5, <1>5 DEF IntakeOK, NewRecord
  <2>7. Typed'
    BY <1>1, <1>5 DEF RunsInv, Typed, AbortAll
  <2>8. CancellerOK'
    BY <1>1, UnchangedRuns, CancellerKeeps DEF RunsInv
  <2>9. \A t \in Slots : Alike(task[t], task'[t])
    BY <1>5, AbortAllAlike
  <2>q. QED  BY <1>1, <2>6, <2>7, <2>8, <2>9, ManyStep
<1>6. CASE Dequeue(AbortAll(task, ActiveOf(r), "input"))
  BY <1>1, <1>2, <1>6, UnchangedRuns, GivenUpKeeps DEF RunsInv
<1>q. QED  BY <1>4, <1>5, <1>6 DEF IntakeCancel

\* Closing the only open run leaves none.
LEMMA ClosingLeavesNone ==
    ASSUME RunsInv, NEW r \in RunIds, NEW rec, NEW reason, OpenRuns \subseteq {r},
           Snapshot(r, rec), Fresh(r, rec), Closed(r, rec, "canceled", reason)
    PROVE  Stored' /\ Moves /\ Quiet /\ OpenRuns' = {}
<1>1. "canceled" \in Terminal
  BY DEF Terminal
<1>2. PICK st : st = "canceled"
  OBVIOUS
<1>3. PICK next, e : /\ next = [rec EXCEPT !.status = st, !.token = 0]
                     /\ AppendedFrom(r, rec, next, e)
  BY <1>1, <1>2, ClosedKeeps DEF RunsInv
<1>4. Stored' /\ Moves /\ Quiet /\ AppendedRun(r, rec, next, e)
  BY <1>3, AppendedKeeps, AppendedGives DEF RunsInv
<1>5. next.status = "canceled"
  BY <1>2, <1>3 DEF Snapshot, RunRecord
<1>6. r \notin OpenRuns'
  BY <1>4, <1>5 DEF AppendedRun, OpenRuns, Open
<1>q. QED  BY <1>4, <1>6 DEF Quiet

LEMMA IntakeCloseKeeps ==
    ASSUME RunsInv, IntakeClose
    PROVE  RunsInv' /\ Moves
<1> DEFINE q == Head(queue)
           r == intake.open
<1>1. /\ intake.pc = "close" /\ UNCHANGED <<clock, canceller, spent, crashes>>
  BY DEF IntakeClose
<1>2. /\ queue # <<>> /\ inputRun[q.input] = NoRun
      /\ intake.id \in RunIds /\ ~Exists(intake.id)
      /\ NewRecord(intake.record, q.input)
      /\ Snapshot(intake.open, intake.read) /\ OpenRuns \subseteq {r}
  BY <1>1 DEF RunsInv, IntakeOK, Idle
<1>3. CASE Rejected
  BY <1>1, <1>2, <1>3, RejectedKeeps
<1>4. CASE /\ Fresh(r, intake.read)
           /\ Closed(r, intake.read, "canceled", "input")
           /\ intake' = [pc |-> "admit", id |-> intake.id, record |-> intake.record]
           /\ UNCHANGED <<queue, task, active>>
  <2>1. PICK id, rec, r0, read : id = intake.id /\ rec = intake.record /\ r0 = r /\ read = intake.read
    OBVIOUS
  <2>2. Stored' /\ Moves /\ Quiet /\ OpenRuns' = {}
    BY <1>2, <1>4, <2>1, ClosingLeavesNone DEF Snapshot
  <2>3. /\ intake' = [pc |-> "admit", id |-> id, record |-> rec] /\ id \in RunIds /\ ~Exists(id)
        /\ NewRecord(rec, q.input)
    BY <1>2, <1>4, <2>1
  <2>4. ~Exists(id)' /\ NewRecord(rec, Head(queue').input) /\ inputRun'[Head(queue').input] = NoRun
        /\ queue' # <<>>
    BY <1>2, <1>4, <2>2, <2>3 DEF Quiet
  <2>5. IntakeOK'
    BY <2>2, <2>3, <2>4 DEF IntakeOK, NewRecord
  <2>6. Typed' /\ CancellerOK'
    <3>1. Typed'
      BY <1>1, <1>4 DEF RunsInv, Typed
    <3>2. CancellerOK'
      BY <1>1, <2>2, CancellerKeeps DEF RunsInv
    <3>q. QED  BY <3>1, <3>2
  <2>7. \A t \in Slots : TaskOK(task[t])'
    <3>1. \A t \in Slots : Alike(task[t], task'[t])
      BY <1>4 DEF Alike
    <3>q. QED  BY <2>2, <3>1, TasksKeep DEF RunsInv
  <2>q. QED  BY <2>2, <2>5, <2>6, <2>7 DEF RunsInv
<1>5. CASE /\ Fresh(r, intake.read)
           /\ Closed(r, intake.read, "canceled", "input")
           /\ Dequeue(task) /\ UNCHANGED active
  <2>1. PICK r0, read, why : r0 = r /\ read = intake.read /\ why = "input"
    OBVIOUS
  <2>2. Stored' /\ Moves
    BY <1>2, <1>5, <2>1, ClosingLeavesNone DEF Snapshot
  <2>q. QED  BY <1>1, <1>2, <1>5, <2>2, GivenUpKeeps
<1>q. QED  BY <1>3, <1>4, <1>5 DEF IntakeClose

LEMMA IntakeSupersedeKeeps ==
    ASSUME RunsInv, IntakeSupersede
    PROVE  RunsInv' /\ Moves
<1> DEFINE q == Head(queue)
           r == intake.open
           fresh == [status |-> "active", attempt |-> 1, root |-> q.input, input |-> q.input,
                      disc |-> DiscOf[q.input],
                      deadline |-> IF DeadlineMs = 0 THEN 0 ELSE clock + DeadlineMs,
                      seq |-> 0, checkpoint |-> 1, token |-> 0]
<1>1. /\ intake.pc = "supersede" /\ UNCHANGED <<clock, canceller, spent, crashes>>
  BY DEF IntakeSupersede
<1>2. /\ queue # <<>> /\ inputRun[q.input] = NoRun
      /\ intake = [pc |-> "supersede", open |-> intake.open, record |-> intake.record]
      /\ Snapshot(r, intake.record) /\ OpenRuns \subseteq {r}
      /\ q \in Request
  <2>1. /\ queue # <<>> /\ inputRun[q.input] = NoRun
        /\ intake = [pc |-> "supersede", open |-> intake.open, record |-> intake.record]
        /\ Snapshot(r, intake.record) /\ OpenRuns \subseteq {r}
    BY <1>1 DEF RunsInv, IntakeOK, Idle
  <2>q. QED  BY <2>1, HeadFacts
<1>3. r \in RunIds /\ Exists(r)
  BY <1>2 DEF Snapshot
<1>4. CASE Rejected
  BY <1>1, <1>2, <1>4, RejectedKeeps
<1>5. CASE runs[r].status = "waiting_for_input" /\ Proceed(q, r)
  <2>1. LaneOK(r)
    BY <1>2, <1>3 DEF LaneOK
  <2>q. QED  BY <1>1, <1>5, <2>1, ProceedKeeps
<1>6. CASE /\ runs[r].status = "active"
           /\ intake' = [intake EXCEPT !.record = runs[r]]
           /\ UNCHANGED <<durable, queue, task, active>>
  <2>1. PICK r0, rec : r0 = r /\ rec = runs[r]
    OBVIOUS
  <2>2. Snapshot(r0, rec)
    BY <1>3, <1>6, <2>1, ReadNow DEF RunsInv, Open
  <2>3. Snapshot(r0, rec)'
    BY <1>6, <2>2, UnchangedRuns, SnapshotMoves DEF RunsInv, durable
  <2>4. intake' = [pc |-> "supersede", open |-> r0, record |-> rec]
    BY <1>2, <1>6, <2>1
  <2>5. OpenRuns' \subseteq {r0} /\ inputRun' = inputRun /\ queue' = queue
    BY <1>2, <1>6, <2>1 DEF OpenRuns, Exists, durable
  <2>6. IntakeOK'
    BY <1>2, <2>3, <2>4, <2>5 DEF IntakeOK
  <2>q. QED  BY <1>1, <1>6, <2>6, LaneStep DEF RunsInv, Typed, durable
<1>7. CASE /\ Fresh(r, intake.record)
           /\ Closed(r, intake.record, "canceled", "input")
           /\ task' = AbortAll(task, ActiveOf(r), "input")
           /\ \E new \in RunIds :
                /\ ~Exists(new)
                /\ intake' = [pc |-> "admit", id |-> new, record |-> fresh]
           /\ UNCHANGED <<queue, active>>
  <2>1. PICK r0, read, rec : r0 = r /\ read = intake.record /\ rec = fresh
    OBVIOUS
  <2>2. Stored' /\ Moves /\ Quiet /\ OpenRuns' = {}
    BY <1>2, <1>3, <1>7, <2>1, ClosingLeavesNone
  <2>3. NewRecord(rec, q.input)
    BY <1>2, <2>1, FreshRecord
  <2>4. PICK id \in RunIds : ~Exists(id) /\ intake' = [pc |-> "admit", id |-> id, record |-> rec]
    BY <1>7, <2>1
  <2> HIDE DEF fresh
  <2>5. ~Exists(id)' /\ NewRecord(rec, Head(queue').input) /\ inputRun'[Head(queue').input] = NoRun
        /\ queue' # <<>>
    BY <1>2, <1>7, <2>2, <2>3, <2>4 DEF Quiet
  <2>6. IntakeOK'
    BY <2>2, <2>4, <2>5 DEF IntakeOK, NewRecord
  <2>7. Typed' /\ CancellerOK'
    <3>1. Typed'
      BY <1>1, <1>7 DEF RunsInv, Typed, AbortAll
    <3>2. CancellerOK'
      BY <1>1, <2>2, CancellerKeeps DEF RunsInv
    <3>q. QED  BY <3>1, <3>2
  <2>8. \A t \in Slots : TaskOK(task[t])'
    <3>1. \A t \in Slots : Alike(task[t], task'[t])
      BY <1>7, AbortAllAlike
    <3>q. QED  BY <2>2, <3>1, TasksKeep DEF RunsInv
  <2>q. QED  BY <2>2, <2>6, <2>7, <2>8 DEF RunsInv
<1>8. CASE /\ Fresh(r, intake.record)
           /\ Closed(r, intake.record, "canceled", "input")
           /\ Dequeue(AbortAll(task, ActiveOf(r), "input"))
           /\ UNCHANGED active
  <2>1. PICK r0, read, why : r0 = r /\ read = intake.record /\ why = "input"
    OBVIOUS
  <2>2. Stored' /\ Moves
    BY <1>2, <1>3, <1>8, <2>1, ClosingLeavesNone
  <2>q. QED  BY <1>1, <1>2, <1>8, <2>2, GivenUpKeeps
<1>q. QED  BY <1>4, <1>5, <1>6, <1>7, <1>8 DEF IntakeSupersede

LEMMA IntakeAdmitKeeps ==
    ASSUME RunsInv, IntakeAdmit
    PROVE  RunsInv' /\ Moves
<1> DEFINE q == Head(queue)
<1>1. /\ intake.pc = "admit" /\ UNCHANGED <<clock, canceller, spent, crashes>>
  BY DEF IntakeAdmit
<1>2. /\ queue # <<>> /\ inputRun[q.input] = NoRun
      /\ intake = [pc |-> "admit", id |-> intake.id, record |-> intake.record]
      /\ intake.id \in RunIds
      /\ \/ ~Exists(intake.id) /\ NewRecord(intake.record, q.input) /\ OpenRuns = {}
         \/ Exists(intake.id)
      /\ intake.record \in RunRecord /\ intake.record.status = "active"
      /\ intake.record.input = q.input
      /\ intake.record.attempt <= MaxAttempt
  <2>1. /\ queue # <<>> /\ inputRun[q.input] = NoRun
        /\ intake = [pc |-> "admit", id |-> intake.id, record |-> intake.record]
        /\ intake.id \in RunIds
        /\ \/ ~Exists(intake.id) /\ NewRecord(intake.record, q.input) /\ OpenRuns = {}
           \/ /\ Exists(intake.id) /\ intake.record \in RunRecord
              /\ intake.record.status = "active"
              /\ intake.record.input = q.input /\ intake.record.attempt <= MaxAttempt
    BY <1>1 DEF RunsInv, IntakeOK, Idle
  <2>2. 1 <= MaxAttempt
    BY RoomRunsAssumption
  <2>q. QED  BY <2>1, <2>2 DEF NewRecord
<1>3. CASE Rejected
  BY <1>1, <1>2, <1>3, RejectedKeeps
<1>4. CASE /\ Admissible(intake.id, intake.record)
           /\ runs' = [runs EXCEPT ![intake.id] = intake.record]
           /\ inputRun' = [inputRun EXCEPT ![q.input] = intake.id]
           /\ intake' = [intake EXCEPT !.pc = "handoff"]
           /\ UNCHANGED <<journal, queue, task, active>>
  <2>1. PICK r, rec, input : r = intake.id /\ rec = intake.record /\ input = q.input
    OBVIOUS
  <2>2. Stored' /\ Moves /\ Snapshot(r, rec)'
    BY <1>2, <1>4, <2>1, AdmittedKeeps DEF RunsInv
  <2>3. intake' = [pc |-> "handoff", id |-> r, record |-> rec] /\ rec.status = "active"
        /\ queue' # <<>>
    BY <1>2, <1>4, <2>1
  <2>4. IntakeOK'
    BY <2>2, <2>3 DEF IntakeOK
  <2>5. Typed' /\ CancellerOK'
    <3>1. Typed'
      BY <1>1, <1>4 DEF RunsInv, Typed
    <3>2. CancellerOK'
      BY <1>1, <2>2, CancellerKeeps DEF RunsInv
    <3>q. QED  BY <3>1, <3>2
  <2>6. \A t \in Slots : TaskOK(task[t])'
    <3>1. \A t \in Slots : Alike(task[t], task'[t])
      BY <1>4 DEF Alike
    <3>q. QED  BY <2>2, <3>1, TasksKeep DEF RunsInv
  <2>q. QED  BY <2>2, <2>4, <2>5, <2>6 DEF RunsInv
<1>q. QED  BY <1>3, <1>4 DEF IntakeAdmit

LEMMA IntakeHandoffKeeps ==
    ASSUME RunsInv, IntakeHandoff
    PROVE  RunsInv' /\ Moves
<1>1. /\ intake.pc = "handoff"
      /\ UNCHANGED <<runs, journal, inputRun, clock, canceller, spent, crashes>>
  BY DEF IntakeHandoff, durable
<1>2. /\ queue # <<>> /\ Snapshot(intake.id, intake.record) /\ intake.record.status = "active"
  BY <1>1 DEF RunsInv, IntakeOK, Idle
<1>0. CASE /\ Dequeue(AbortAll(task, ActiveNotOf(intake.id), "input"))
           /\ UNCHANGED active
  BY <1>0, <1>1, <1>2, UnchangedRuns, GivenUpKeeps DEF RunsInv
<1> SUFFICES ASSUME NEW t \in Slots, active' = t,
                    Dequeue([AbortAll(task, ActiveNotOf(intake.id), "input") EXCEPT ![t] =
                        NewTask("wait", intake.id, intake.record, Len(queue), FALSE)])
             PROVE  RunsInv' /\ Moves
  BY <1>0 DEF IntakeHandoff
<1>4. PICK k, which, id, rec : /\ k = NewTask("wait", intake.id, intake.record, Len(queue), FALSE)
                               /\ which = ActiveNotOf(intake.id)
                               /\ id = intake.id /\ rec = intake.record
  OBVIOUS
<1>5. Snapshot(id, rec) /\ rec.status = "active" /\ id \in RunIds /\ Exists(id)
  BY <1>2, <1>4 DEF Snapshot
<1>6. DOMAIN k = TaskFields /\ k.pc = "wait" /\ k.id = id /\ k.run = rec
  BY <1>4 DEF NewTask, TaskFields
<1>7. TaskOK(k)
  BY <1>5, <1>6 DEF TaskOK, Working, Driving, TaskFields
<1>8. PICK tasks : tasks = [AbortAll(task, which, "input") EXCEPT ![t] = k] /\ Dequeue(tasks)
  BY <1>4
<1>9. /\ tasks[t] = k
      /\ \A u \in Slots \ {t} : Alike(task[u], tasks[u])
  <2>1. /\ DOMAIN AbortAll(task, which, "input") = Slots
        /\ \A u \in Slots : Alike(task[u], AbortAll(task, which, "input")[u])
    BY AbortAllAlike
  <2>2. PICK f : f = AbortAll(task, which, "input") /\ tasks = [f EXCEPT ![t] = k]
    BY <1>8
  <2>q. QED  BY <2>1, <2>2
<1>10. DOMAIN task' = Slots /\ \A u \in Slots : Alike(tasks[u], task'[u])
  BY <1>8, DequeueAlike
<1>11. \A u \in Slots \ {t} : Alike(task[u], task'[u])
  BY <1>9, <1>10 DEF Alike
<1>12. Stored' /\ Moves
  BY <1>1, UnchangedRuns DEF RunsInv
<1>13. TaskOK(task[t])'
  <2>1. PICK l : l = task'[t]
    OBVIOUS
  <2>2. TaskOK(l)
    BY <1>7, <1>9, <1>10, <2>1, TaskAlike
  <2>3. TaskOK(l)'
    BY <1>12, <2>2, TaskMoves DEF RunsInv
  <2>q. QED  BY <2>1, <2>3 DEF TaskOK
<1>14. Typed' /\ CancellerOK' /\ IntakeOK'
  <2>1. intake' = Idle /\ queue' = Tail(queue)
    BY <1>8 DEF Dequeue
  <2>2. queue' \in Seq(Request)
    BY <1>2, <2>1 DEF RunsInv, Typed
  <2>3. Typed'
    BY <1>1, <1>10, <2>2 DEF RunsInv, Typed
  <2>4. CancellerOK'
    BY <1>1, <1>12, CancellerKeeps DEF RunsInv
  <2>5. IntakeOK'
    BY <2>1 DEF IntakeOK
  <2>q. QED  BY <2>3, <2>4, <2>5
<1>q. QED  BY <1>1, <1>11, <1>13, <1>14, ManyStep

-----------------------------------------------------------------------------
(* The first invariant, and what it gives.                                 *)

LEMMA RunsBegin == Init => RunsInv
<1> SUFFICES ASSUME Init PROVE RunsInv
  OBVIOUS
<1>1. \A r \in RunIds : ~Exists(r) /\ runs[r] = NoRun /\ journal[r] = <<>>
  BY DEF Init, Exists
<1>2. Listed(<<>>)
  BY DEF Listed, Elements
<1>3. Stored
  <2>1. \A r \in RunIds : RunOK(r)
    BY <1>1, <1>2 DEF RunOK
  <2>2. OpenRuns = {}
    BY <1>1 DEF OpenRuns
  <2>q. QED  BY <2>1, <2>2 DEF Init, Stored
<1>4. Typed
  BY RoomRunsAssumption DEF Init, Typed
<1>5. \A t \in Slots : TaskOK(task[t])
  BY FreeOK DEF Init
<1>q. QED  BY <1>3, <1>4, <1>5 DEF Init, RunsInv, CancellerOK, IntakeOK

LEMMA IntakeFailsKeeps ==
    ASSUME RunsInv, IntakeFails
    PROVE  RunsInv' /\ Moves
<1>1. /\ Rejected /\ UNCHANGED <<clock, canceller, spent, crashes>>
      /\ intake.pc \in {"open", "supersede", "cancel", "close", "admit"}
  BY DEF IntakeFails
<1>2. queue # <<>>
  BY <1>1 DEF RunsInv, IntakeOK, Idle
<1>q. QED  BY <1>1, <1>2, RejectedKeeps

\* Returning, or seeing an abort.
LEMMA ReturnKeeps ==
    ASSUME RunsInv, NEW t \in Slots, Return(t) \/ SeesAbort(t) \/ DriverThrows(t)
    PROVE  RunsInv' /\ Moves
<1>1. /\ task[t].pc # "free" /\ spent' = spent
      /\ UNCHANGED <<runs, journal, inputRun, clock, queue, intake, canceller, crashes>>
  BY DEF Return, SeesAbort, DriverThrows, durable
<1>2. EndTask(t) \/ (task' = [task EXCEPT ![t] = Failing(task[t])] /\ active' = active)
  BY DEF Return, SeesAbort, DriverThrows
<1>q. QED  BY <1>1, <1>2, EndKeeps, FailsKeeps

LEMMA RunsStep ==
    ASSUME RunsInv, [Next]_vars
    PROVE  RunsInv' /\ Moves
<1>1. ASSUME NEW q \in Request, Submit(q) PROVE RunsInv' /\ Moves
  BY <1>1, SubmitKeeps
<1>2. CASE Serve
  BY <1>2, IntakeLookKeeps, IntakeOpenKeeps, IntakeSupersedeKeeps, IntakeCancelKeeps,
     IntakeCloseKeeps, IntakeAdmitKeeps, IntakeFailsKeeps, IntakeHandoffKeeps DEF Serve
<1>3. ASSUME NEW t \in Slots, Drive(t) PROVE RunsInv' /\ Moves
  BY <1>3, YieldKeeps, DriverEndsKeeps, ReturnKeeps DEF Drive
<1>4. ASSUME NEW t \in Slots, Run(t) PROVE RunsInv' /\ Moves
  BY <1>4, StartKeeps, ReturnKeeps, CommitEventKeeps, UtterKeeps, RecordOutputKeeps,
     SettleKeeps, FinishKeeps, TakeChannelKeeps, SaveRunKeeps DEF Run
<1>5. ASSUME NEW t \in Slots, Timer(t) PROVE RunsInv' /\ Moves
  BY <1>5, TimerKeeps
<1>6. ASSUME NEW t \in Slots, NEW r \in RunIds, ResumeRun(t, r) PROVE RunsInv' /\ Moves
  BY <1>6, ResumeRunKeeps
<1>7. ASSUME NEW r \in RunIds, CancelRun(r) PROVE RunsInv' /\ Moves
  BY <1>7, CancelRunKeeps
<1>8. CASE CancelClose \/ Interrupt \/ Crash \/ Tick
  BY <1>8, CancelCloseKeeps, InterruptKeeps, CrashKeeps, TickKeeps
<1>9. CASE UNCHANGED vars
  <2>1. UNCHANGED <<runs, journal, inputRun, task, canceller, queue, intake>> /\ Typed'
    BY <1>9 DEF vars, RunsInv, Typed
  <2>2. IntakeOK'
    BY <2>1, UnchangedRuns, IntakeKeeps DEF RunsInv
  <2>q. QED  BY <2>1, <2>2, LaneStep
<1>q. QED  BY <1>1, <1>2, <1>3, <1>4, <1>5, <1>6, <1>7, <1>8, <1>9 DEF Next

LEMMA RunsAlways == Spec => []RunsInv
<1>1. RunsInv /\ [Next]_vars => RunsInv'
  BY RunsStep
<1>q. QED  BY <1>1, RunsBegin, PTL DEF Spec

\* The stored runs stay well formed, whatever interleaves and wherever the process stops.
THEOREM RoomTypeCorrect == Spec => []TypeOK
<1>1. RunsInv => TypeOK
  <2> SUFFICES ASSUME RunsInv PROVE TypeOK
    OBVIOUS
  <2>1. \A r \in RunIds : Exists(r) =>
         /\ runs[r] \in RunRecord
         /\ runs[r].seq = Len(journal[r])
         /\ inputRun[runs[r].input] = r /\ inputRun[runs[r].root] = r
    BY DEF RunsInv, Stored, RunOK, Exists
  <2>q. QED  BY <2>1 DEF TypeOK, RunsInv, Stored, Typed
<1>q. QED  BY <1>1, RunsAlways, PTL

\* A channel never has two open runs: the intake looks at the open run, cancels it and
\* admits another in steps of the store that executions, cancellations, resumptions and
\* crashes interleave with, and none of them opens a run.
THEOREM OneRunIsOpen == Spec => []OneOpenRun
<1>1. RunsInv => OneOpenRun
  <2> SUFFICES ASSUME RunsInv PROVE OneOpenRun
    OBVIOUS
  <2>1. OneOpenRun <=> Cardinality(OpenRuns) <= 1
    BY DEF OneOpenRun, OpenRuns, Open
  <2>2. CASE OpenRuns = {}
    BY <2>1, <2>2, FS_EmptySet
  <2>3. CASE OpenRuns # {}
    <3>1. PICK r : r \in OpenRuns
      BY <2>3
    <3>2. \A s \in OpenRuns : s = r
      BY <3>1 DEF RunsInv, Stored
    <3>3. OpenRuns = {r}
      BY <3>1, <3>2
    <3>4. Cardinality(OpenRuns) = 1
      BY <3>3, FS_Singleton
    <3>q. QED  BY <2>1, <3>4
  <2>q. QED  BY <2>2, <2>3
<1>q. QED  BY <1>1, RunsAlways, PTL

\* An ended run is never written again: whatever an older execution, a cancellation or a
\* resumption read before it ended is refused by the store.
THEOREM EndedRunsStay == Spec => TerminalStays
<1>1. RunsInv /\ [Next]_vars =>
        \A r \in RunIds : Exists(r) /\ runs[r].status \in Terminal =>
           runs'[r] = runs[r] /\ journal'[r] = journal[r]
  BY RunsStep DEF Moves, RunMoves
<1>2. RunsInv /\ [Next]_vars =>
        [\A r \in RunIds : Exists(r) /\ runs[r].status \in Terminal =>
           runs'[r] = runs[r] /\ journal'[r] = journal[r]]_vars
  BY <1>1
<1>q. QED  BY <1>2, RunsAlways, PTL DEF Spec, TerminalStays

-----------------------------------------------------------------------------
(* Who will end a run.                                                     *)

Keeping == {"settle", "finish"} \cup Driving

\* A step of one execution t that works on r, which touches no other run.
TaskTouches(t, l, r) ==
    /\ task[t].pc # "free" /\ task[t].id = r
    /\ task' = [task EXCEPT ![t] = l]
    /\ \A s \in RunIds \ {r} : runs'[s] = runs[s]
    /\ begun' \subseteq begun \cup {r}

LEMMA KeptByTask ==
    ASSUME RunsInv, RunsKept, NEW t \in Slots, NEW l, NEW r, TaskTouches(t, l, r),
           \/ runs'[r].status # "active" \/ r \notin begun'
           \/ /\ l.pc \in Keeping /\ l.id = r
              /\ l.pc = "finish" => runs'[r].seq = l.run.seq
           \/ /\ IsActive(r) /\ runs'[r].seq = runs[r].seq
              /\ begun' = begun /\ task[t].pc \notin Keeping
           \/ runs' = runs /\ begun' = begun /\ task[t].pc \notin Keeping
           \/ runs' = runs /\ begun' = begun /\ task[t].pc = "finish" /\ ~Fresh(r, task[t].run)
    PROVE  RunsKept'
<1>1. /\ DOMAIN task = Slots /\ r \in RunIds
      /\ task'[t] = l /\ \A u \in Slots \ {t} : task'[u] = task[u]
      /\ task[t].id = r
      /\ \A s \in RunIds \ {r} : runs'[s] = runs[s] /\ Exists(s)' = Exists(s)
      /\ begun' \subseteq begun \cup {r}
  BY TaskFacts DEF TaskTouches, Exists
<1>2. ASSUME NEW s \in RunIds \ {r}, IsActive(s)' PROVE Tended(s)'
  <2>1. IsActive(s)
    BY <1>1, <1>2 DEF IsActive
  <2>2. Tended(s)
    BY <2>1 DEF RunsKept
  <2>3. ASSUME NEW u \in Slots, Keeper(u, s) PROVE Keeper(u, s)'
    BY <1>1, <2>3 DEF Keeper, Fresh
  <2>q. QED  BY <1>1, <2>2, <2>3 DEF Tended
<1>3. ASSUME IsActive(r)' PROVE Tended(r)'
  <2>1. runs'[r].status = "active"
    BY <1>3 DEF IsActive
  <2>0. CASE r \notin begun'
    BY <2>0 DEF Tended
  <2>2. CASE /\ l.pc \in Keeping /\ l.id = r
             /\ l.pc = "finish" => runs'[r].seq = l.run.seq
    <3>1. Keeper(t, r)'
      BY <1>1, <2>2 DEF Keeper, Keeping, Fresh
    <3>q. QED  BY <3>1 DEF Tended
  <2>3. CASE /\ runs' = runs /\ begun' = begun
             /\ \/ task[t].pc \notin Keeping
                \/ task[t].pc = "finish" /\ ~Fresh(r, task[t].run)
    <3>1. ~Keeper(t, r)
      BY <2>3 DEF Keeper, Keeping
    <3>2. Tended(r)
      BY <1>1, <1>3, <2>3 DEF RunsKept, IsActive, Exists
    <3>3. ASSUME NEW u \in Slots \ {t}, Keeper(u, r) PROVE Keeper(u, r)'
      BY <1>1, <2>3, <3>3 DEF Keeper, Fresh
    <3>q. QED  BY <1>1, <2>3, <3>1, <3>2, <3>3 DEF Tended
  <2>4. CASE /\ IsActive(r) /\ runs'[r].seq = runs[r].seq
             /\ begun' = begun /\ task[t].pc \notin Keeping
    <3>1. Tended(r) /\ ~Keeper(t, r)
      BY <1>1, <2>4 DEF RunsKept, Keeper, Keeping
    <3>2. ASSUME NEW u \in Slots \ {t}, Keeper(u, r) PROVE Keeper(u, r)'
      BY <1>1, <2>4, <3>2 DEF Keeper, Fresh
    <3>q. QED  BY <2>4, <3>1, <3>2 DEF Tended
  <2>q. QED  BY <2>0, <2>1, <2>2, <2>3, <2>4
<1>q. QED  BY <1>2, <1>3 DEF RunsKept

\* Steps of the intake, the host and the environment: they abort executions and begin
\* new ones, and close or admit a run.
LEMMA KeptByRest ==
    ASSUME RunsInv, RunsKept, begun' \subseteq begun,
           \A u \in Slots : Alike(task[u], task'[u]) \/ task[u].pc \in {"free", "resume"},
           \A s \in RunIds : IsActive(s)' =>
               (IsActive(s) /\ runs'[s].seq = runs[s].seq) \/ Tended(s)'
    PROVE  RunsKept'
<1> SUFFICES ASSUME NEW s \in RunIds, IsActive(s), runs'[s].seq = runs[s].seq
             PROVE  Tended(s)'
  BY DEF RunsKept
<1>1. Tended(s)
  BY DEF RunsKept
<1>2. ASSUME NEW u \in Slots, Keeper(u, s) PROVE Keeper(u, s)'
  <2>1. PICK k, l : k = task[u] /\ l = task'[u]
    OBVIOUS
  <2>2. k.pc \in Keeping /\ k.id = s /\ (k.pc = "finish" => runs[s].seq = k.run.seq)
    BY <1>2, <2>1 DEF Keeper, Keeping, Fresh
  <2>3. TaskOK(k) /\ k.pc # "free" /\ DOMAIN k = TaskFields /\ "pc" \in DOMAIN k
    BY <2>1, <2>2, TaskFacts DEF Keeping, Driving, TaskFields
  <2>4. Alike(k, l)
    BY <2>1, <2>2 DEF Keeping, Driving
  <2>5. l.pc = k.pc /\ l.id = k.id /\ l.run = k.run
    BY <2>3, <2>4, AlikeFields
  <2>6. l.pc \in Keeping /\ l.id = s /\ (l.pc = "finish" => runs'[s].seq = l.run.seq)
    BY <2>2, <2>5
  <2>q. QED  BY <2>1, <2>6 DEF Keeper, Keeping, Fresh
<1>q. QED  BY <1>1, <1>2 DEF Tended

\* An execution goes on with its run, which no step of the store touches.
LEMMA KeptGoesOn ==
    ASSUME RunsInv, RunsKept, NEW t \in Slots, NEW l, task[t].pc # "free",
           task' = [task EXCEPT ![t] = l], UNCHANGED <<runs, intake, begun>>,
           l.pc \in Keeping \ {"finish"} \/ task[t].pc \notin Keeping,
           l.pc \in Keeping \ {"finish"} => l.id = task[t].id
    PROVE  RunsKept'
<1>1. PICK r : r = task[t].id
  OBVIOUS
<1>2. TaskTouches(t, l, r)
  BY <1>1 DEF TaskTouches
<1>3. CASE l.pc \in Keeping \ {"finish"}
  BY <1>1, <1>2, <1>3, KeptByTask
<1>4. CASE task[t].pc \notin Keeping
  BY <1>2, <1>4, KeptByTask
<1>q. QED  BY <1>3, <1>4

LEMMA FailingFields ==
    ASSUME NEW k, DOMAIN k = TaskFields
    PROVE  Failing(k).pc = "settle" /\ Failing(k).id = k.id
BY DEF Failing, TaskFields

LEMMA StartKept ==
    ASSUME RunsInv, RunsKept, NEW t \in Slots, Start(t)
    PROVE  RunsKept'
<1> DEFINE k == task[t]
<1>1. /\ DOMAIN k = TaskFields /\ k.pc = "wait"
      /\ UNCHANGED <<runs, intake>>
  BY TaskFacts DEF Start
<1>2. PICK r : r = k.id
  OBVIOUS
<1>3. \/ task' = [task EXCEPT ![t] = [k EXCEPT !.pc = "dead"]] /\ begun' = begun
      \/ /\ begun' = begun \cup {k.id}
         /\ task' = [task EXCEPT ![t] =
                 [k EXCEPT !.closed = ClosedRecovered(journal[k.id], k.run),
                           !.used = Ids(journal[k.id]), !.timer = k.run.deadline,
                           !.pc = IF k.aborted = None /\ (k.run.deadline = 0 \/ clock < k.run.deadline)
                                  THEN "drive" ELSE "settle",
                           !.pend = IF k.aborted = None THEN "deadline_exceeded" ELSE "aborted"]]
  BY DEF Start
<1>4. CASE task' = [task EXCEPT ![t] = [k EXCEPT !.pc = "dead"]] /\ begun' = begun
  <2>1. PICK l : l = [k EXCEPT !.pc = "dead"]
    OBVIOUS
  <2>2. TaskTouches(t, l, r) /\ k.pc \notin Keeping
    BY <1>1, <1>2, <1>4, <2>1 DEF TaskTouches, Keeping, Driving
  <2>q. QED  BY <1>1, <1>4, <2>2, KeptByTask
<1>5. CASE /\ begun' = begun \cup {k.id}
           /\ task' = [task EXCEPT ![t] =
                 [k EXCEPT !.closed = ClosedRecovered(journal[k.id], k.run),
                           !.used = Ids(journal[k.id]), !.timer = k.run.deadline,
                           !.pc = IF k.aborted = None /\ (k.run.deadline = 0 \/ clock < k.run.deadline)
                                  THEN "drive" ELSE "settle",
                           !.pend = IF k.aborted = None THEN "deadline_exceeded" ELSE "aborted"]]
  <2>1. PICK l : l = [k EXCEPT !.closed = ClosedRecovered(journal[k.id], k.run),
                           !.used = Ids(journal[k.id]), !.timer = k.run.deadline,
                           !.pc = IF k.aborted = None /\ (k.run.deadline = 0 \/ clock < k.run.deadline)
                                  THEN "drive" ELSE "settle",
                           !.pend = IF k.aborted = None THEN "deadline_exceeded" ELSE "aborted"]
    OBVIOUS
  <2>2. TaskTouches(t, l, r)
    BY <1>1, <1>2, <1>5, <2>1 DEF TaskTouches
  <2>3. l.pc \in {"drive", "settle"} /\ l.id = r
    BY <1>1, <1>2, <2>1 DEF TaskFields
  <2>q. QED  BY <2>2, <2>3, KeptByTask DEF Keeping, Driving
<1>q. QED  BY <1>3, <1>4, <1>5

LEMMA YieldKept ==
    ASSUME RunsInv, RunsKept, NEW t \in Slots, NEW kind, NEW o, Yield(t, kind, o)
    PROVE  RunsKept'
<1> DEFINE k == task[t]
           id == IF k.out[o].id = None THEN DeliveryId(k.used, k.run.attempt, o)
                 ELSE k.out[o].id
           entry == Entry(kind, k.run, o, IF kind \in Outputs THEN id ELSE None, None)
           fails == [k EXCEPT !.pc = "settle", !.pend = "failed"]
           commits == [k EXCEPT !.pc = "commit", !.pend = entry,
                           !.used = IF kind \in Outputs THEN @ \cup {id} ELSE @,
                           !.out[o].id = IF kind \in Outputs THEN id ELSE @]
<1>1. /\ DOMAIN k = TaskFields /\ task[t].pc # "free" /\ UNCHANGED <<runs, intake, begun>>
  BY TaskFacts DEF Yield, durable
<1>2. PICK l : l \in {fails, commits} /\ task' = [task EXCEPT ![t] = l]
  BY DEF Yield
<1>3. l.pc \in {"settle", "commit"} /\ l.id = k.id
  <2> HIDE DEF k, id, entry
  <2>q. QED  BY <1>1, <1>2 DEF TaskFields
<1>q. QED  BY <1>1, <1>2, <1>3, KeptGoesOn DEF Keeping, Driving

LEMMA DriverEndsKept ==
    ASSUME RunsInv, RunsKept, NEW t \in Slots, DriverEnds(t)
    PROVE  RunsKept'
<1> DEFINE k == task[t]
           entry == Entry("completed", k.run, None, None, None)
<1>1. /\ DOMAIN k = TaskFields /\ task[t].pc # "free" /\ UNCHANGED <<runs, intake, begun>>
  BY TaskFacts DEF DriverEnds, durable
<1>2. PICK l : /\ task' = [task EXCEPT ![t] = l]
               /\ \/ l = [k EXCEPT !.pc = "settle", !.pend = "failed"]
                  \/ l = [k EXCEPT !.pc = "commit", !.pend = entry]
  BY DEF DriverEnds
<1>3. l.pc \in {"settle", "commit"} /\ l.id = k.id
  <2> HIDE DEF k, entry
  <2>q. QED  BY <1>1, <1>2 DEF TaskFields
<1>q. QED  BY <1>1, <1>2, <1>3, KeptGoesOn DEF Keeping, Driving

\* Throwing, seeing an abort, and returning.
LEMMA FailsKept ==
    ASSUME RunsInv, RunsKept, NEW t \in Slots, DriverThrows(t) \/ SeesAbort(t) \/ Return(t)
    PROVE  RunsKept'
<1>1. /\ task[t].pc # "free" /\ UNCHANGED <<runs, intake, begun>>
  BY DEF DriverThrows, SeesAbort, Return, durable
<1>2. DOMAIN task[t] = TaskFields
  BY <1>1, TaskFacts
<1>3. PICK l : /\ task' = [task EXCEPT ![t] = l]
               /\ \/ l = Failing(task[t])
                  \/ l = FreeTask /\ task[t].pc = "return"
  BY DEF DriverThrows, SeesAbort, Return, EndTask
<1>4. \/ l.pc = "settle" /\ l.id = task[t].id
      \/ task[t].pc = "return" /\ l.pc = "free"
  BY <1>2, <1>3, FailingFields DEF FreeTask
<1>q. QED  BY <1>1, <1>3, <1>4, KeptGoesOn DEF Keeping, Driving

LEMMA UtterKept ==
    ASSUME RunsInv, RunsKept, NEW t \in Slots, Utter(t)
    PROVE  RunsKept'
<1> DEFINE k == task[t]
<1>1. /\ DOMAIN k = TaskFields /\ task[t].pc # "free" /\ UNCHANGED <<runs, intake, begun>>
  BY TaskFacts DEF Utter, durable
<1>2. PICK l, e : task' = [task EXCEPT ![t] = l] /\ l = [k EXCEPT !.pc = "commit", !.pend = e]
  BY DEF Utter
<1>3. l.pc = "commit" /\ l.id = k.id
  <2> HIDE DEF k
  <2>q. QED  BY <1>1, <1>2 DEF TaskFields
<1>q. QED  BY <1>1, <1>2, <1>3, KeptGoesOn DEF Keeping, Driving

LEMMA RecordOutputKept ==
    ASSUME RunsInv, RunsKept, NEW t \in Slots, RecordOutput(t)
    PROVE  RunsKept'
<1> DEFINE k == task[t]
<1>1. /\ DOMAIN k = TaskFields /\ task[t].pc # "free" /\ UNCHANGED <<runs, intake, begun>>
  BY TaskFacts DEF RecordOutput
<1>2. PICK l : /\ task' = [task EXCEPT ![t] = l]
               /\ l = [k EXCEPT !.pc = "drive"] \/ l = Failing(k)
  BY DEF RecordOutput
<1>3. l.pc \in {"drive", "settle"} /\ l.id = k.id
  <2>1. l = [k EXCEPT !.pc = "drive"] => l.pc = "drive" /\ l.id = k.id
    BY <1>1 DEF TaskFields
  <2>q. QED  BY <1>1, <1>2, <2>1, FailingFields
<1>q. QED  BY <1>1, <1>2, <1>3, KeptGoesOn DEF Keeping, Driving

LEMMA SettleKept ==
    ASSUME RunsInv, RunsKept, NEW t \in Slots, Settle(t)
    PROVE  RunsKept'
<1> DEFINE k == task[t]
<1>1. /\ DOMAIN k = TaskFields /\ task[t].pc # "free" /\ UNCHANGED runs
      /\ begun' \subseteq begun
  BY TaskFacts DEF Settle, EndLost, durable
<1>2. PICK r, l : /\ r = k.id /\ task' = [task EXCEPT ![t] = l]
                  /\ \/ runs[k.id].status \in Terminal
                     \/ r \notin begun'
                     \/ l = [k EXCEPT !.pc = "finish", !.run = runs[k.id]]
  BY DEF Settle, EndLost, EndTask
<1>6. CASE r \notin begun'
  BY <1>1, <1>2, <1>6, KeptByTask DEF TaskTouches
<1>3. TaskTouches(t, l, r)
  BY <1>1, <1>2 DEF TaskTouches
<1>4. CASE runs[k.id].status \in Terminal
  <2>1. runs'[r].status # "active"
    BY <1>1, <1>2, <1>4 DEF Terminal
  <2>q. QED  BY <1>3, <2>1, KeptByTask
<1>5. CASE l = [k EXCEPT !.pc = "finish", !.run = runs[k.id]]
  <2>1. PICK rec : rec = runs[k.id] /\ rec = runs'[r]
    BY <1>1, <1>2
  <2>2. l = [k EXCEPT !.pc = "finish", !.run = rec]
    BY <1>5, <2>1
  <2>3. l.pc = "finish" /\ l.id = k.id /\ l.run = rec
    <3> HIDE DEF k
    <3>q. QED  BY <1>1, <2>2 DEF TaskFields
  <2>q. QED  BY <1>2, <1>3, <2>1, <2>3, KeptByTask DEF Keeping
<1>q. QED  BY <1>2, <1>4, <1>5, <1>6

LEMMA FinishKept ==
    ASSUME RunsInv, RunsKept, NEW t \in Slots, Finish(t)
    PROVE  RunsKept'
<1> DEFINE k == task[t]
           status == CASE k.pend # "aborted" -> k.pend
                       [] k.aborted = "deadline" -> "deadline_exceeded"
                       [] OTHER -> "canceled"
           reason == IF status = "canceled" THEN k.aborted ELSE None
<1>1. /\ TaskOK(k) /\ k.pc = "finish" /\ k.pend \in Failures /\ Snapshot(k.id, k.run)
      /\ intake' = intake /\ begun' \subseteq begun /\ task' = [task EXCEPT ![t] = FreeTask]
  <2>1. TaskOK(k) /\ k.pc = "finish"
    BY TaskFacts DEF Finish
  <2>q. QED  BY <2>1 DEF TaskOK, Finish, EndLost, EndTask
<1>2. PICK r, l, rec, st, why : r = k.id /\ l = FreeTask /\ rec = k.run /\ st = status /\ why = reason
  OBVIOUS
<1>5. CASE UNCHANGED durable /\ r \notin begun'
  <2>1. TaskTouches(t, l, r)
    BY <1>1, <1>2, <1>5 DEF TaskTouches, durable
  <2>q. QED  BY <1>5, <2>1, KeptByTask
<1>3. CASE UNCHANGED <<durable, begun>> /\ ~Fresh(r, rec)
  <2>1. TaskTouches(t, l, r) /\ runs' = runs
    BY <1>1, <1>2, <1>3 DEF TaskTouches, durable
  <2>q. QED  BY <1>1, <1>2, <1>3, <2>1, KeptByTask
<1>4. CASE Fresh(r, rec) /\ Closed(r, rec, st, why)
  <2>1. st \in Terminal
    BY <1>1, <1>2 DEF Failures, Terminal
  <2> HIDE DEF status, reason
  <2>2. PICK next, e : /\ next = [rec EXCEPT !.status = st, !.token = 0]
                       /\ AppendedFrom(r, rec, next, e)
    <3>1. Snapshot(r, rec) /\ Stored
      BY <1>1, <1>2 DEF RunsInv
    <3>q. QED  BY <1>4, <2>1, <3>1, ClosedKeeps
  <2>3. AppendedRun(r, rec, next, e)
    BY <2>2, AppendedGives DEF RunsInv
  <2>4. next.status = st
    BY <1>1, <1>2, <2>2 DEF Snapshot, RunRecord
  <2>5. runs'[r].status # "active"
    BY <2>1, <2>3, <2>4 DEF AppendedRun, Terminal
  <2>6. TaskTouches(t, l, r)
    BY <1>1, <1>2, <2>3 DEF TaskTouches, AppendedRun
  <2>q. QED  BY <2>5, <2>6, KeptByTask
<1>q. QED  BY <1>2, <1>3, <1>4, <1>5 DEF Finish, EndLost

LEMMA SaveRunKept ==
    ASSUME RunsInv, RunsKept, NEW t \in Slots, SaveRun(t)
    PROVE  RunsKept'
<1> DEFINE k == task[t]
<1>1. /\ DOMAIN k = TaskFields /\ k.pc = "save" /\ k.id \in RunIds
      /\ UNCHANGED <<intake, begun>> /\ DOMAIN runs = RunIds
  BY TaskFacts DEF SaveRun, RunsInv, Stored
<1>2. CASE task' = [task EXCEPT ![t] = FreeTask] /\ UNCHANGED runs
  <2>1. PICK l : l = FreeTask
    OBVIOUS
  <2>q. QED  BY <1>1, <1>2, <2>1, KeptGoesOn DEF Keeping, Driving, FreeTask
<1>3. CASE /\ Acquirable(runs[k.id], k.run)
           /\ runs' = [runs EXCEPT ![k.id] = k.run]
           /\ task' = [task EXCEPT ![t].pc = "wait"]
  <2>1. PICK r, l : r = k.id /\ l = [k EXCEPT !.pc = "wait"] /\ task' = [task EXCEPT ![t] = l]
    BY <1>3
  <2>2. TaskTouches(t, l, r)
    BY <1>1, <1>3, <2>1 DEF TaskTouches
  <2>3. IsActive(r) /\ runs'[r].seq = runs[r].seq
    BY <1>1, <1>3, <2>1, TaskFacts DEF Acquirable, IsActive
  <2>4. begun' = begun /\ task[t].pc \notin Keeping
    BY <1>1 DEF Keeping, Driving
  <2>q. QED  BY <2>2, <2>3, <2>4, KeptByTask
<1>4. CASE task' = [task EXCEPT ![t].pc = "dead"] /\ UNCHANGED runs
  <2>1. PICK l : l = [k EXCEPT !.pc = "dead"] /\ task' = [task EXCEPT ![t] = l]
    BY <1>4
  <2>2. l.pc = "dead"
    BY <1>1, <2>1 DEF TaskFields
  <2>q. QED  BY <1>1, <1>4, <2>1, <2>2, KeptGoesOn DEF Keeping, Driving
<1>q. QED  BY <1>2, <1>3, <1>4 DEF SaveRun, EndTask

LEMMA CommitEventKept ==
    ASSUME RunsInv, RunsKept, NEW t \in Slots, CommitEvent(t)
    PROVE  RunsKept'
<1> DEFINE k == task[t]
           settled == [Transition(k) EXCEPT !.seq = Len(journal[k.id]) + 1]
           out == IF k.pend.kind \in Outputs /\ k.pend.out # None
                  THEN [k.out EXCEPT ![k.pend.out].text = @ + 1,
                                     ![k.pend.out].final = (k.pend.kind = "final")]
                  ELSE k.out
           next == CASE k.pend.kind = "final" -> "record"
                     [] k.pend.kind = "decision" -> "utter"
                     [] k.pend.kind \in {"completed", "input_requested"} -> "return"
                     [] OTHER -> "drive"
<1>1. /\ TaskOK(k) /\ DOMAIN k = TaskFields /\ k.pc = "commit" /\ task[t].pc # "free"
      /\ Snapshot(k.id, k.run) /\ k.run.status = "active"
      /\ intake' = intake /\ begun' = begun
  <2>1. TaskOK(k) /\ DOMAIN k = TaskFields /\ k.pc = "commit"
    BY TaskFacts DEF CommitEvent
  <2>q. QED  BY <2>1 DEF TaskOK, Working, Driving, CommitEvent
<1>2. CASE task' = [task EXCEPT ![t] = Failing(k)] /\ UNCHANGED durable
  <2>1. PICK l : l = Failing(k)
    OBVIOUS
  <2>q. QED  BY <1>1, <1>2, <2>1, FailingFields, KeptGoesOn DEF Keeping, durable
<1>3. CASE /\ Fresh(k.id, k.run)
           /\ Appended(k.id, Transition(k), k.pend)
           /\ \/ task' = [task EXCEPT ![t] = Failing([k EXCEPT !.run = settled])]
              \/ task' = [task EXCEPT ![t] = [k EXCEPT !.run = settled, !.out = out, !.pc = next]]
  <2>1. AppendedFrom(k.id, k.run, Transition(k), k.pend)
    <3>1. /\ Transition(k) \in RunRecord
          /\ Transition(k).input = k.run.input /\ Transition(k).root = k.run.root
          /\ Transition(k).attempt = k.run.attempt
          /\ Transition(k).status = "waiting_for_input" => Transition(k).attempt < MaxAttempt
      BY <1>1, TransitionOK
    <3>q. QED  BY <1>1, <1>3, <3>1 DEF AppendedFrom
  <2>2. PICK r, rec, e, next0 : r = k.id /\ rec = k.run /\ e = k.pend /\ next0 = Transition(k)
    OBVIOUS
  <2>3. AppendedRun(r, rec, next0, e)
    BY <2>1, <2>2, AppendedGives DEF RunsInv
  <2>4. PICK after, out0, next1 : after = settled /\ out0 = out /\ next1 = next
    OBVIOUS
  <2>5. /\ next1 \in {"record", "utter", "return", "drive"}
        /\ next1 = "return" => k.pend.kind \in {"completed", "input_requested"}
    BY <2>4
  <2>6. PICK l : /\ task' = [task EXCEPT ![t] = l]
                 /\ \/ l = Failing([k EXCEPT !.run = after])
                    \/ l = [k EXCEPT !.run = after, !.out = out0, !.pc = next1]
    BY <1>3, <2>4
  <2> HIDE DEF settled, out, next
  <2>7. TaskTouches(t, l, r)
    BY <1>1, <2>2, <2>3, <2>6 DEF TaskTouches, AppendedRun
  <2>8. l.id = r /\ l.pc \in {"settle", next1}
    <3> HIDE DEF k
    <3>1. l = Failing([k EXCEPT !.run = after]) => l.id = k.id /\ l.pc = "settle"
      BY <1>1 DEF TaskFields, Failing
    <3>2. l = [k EXCEPT !.run = after, !.out = out0, !.pc = next1] => l.id = k.id /\ l.pc = next1
      BY <1>1 DEF TaskFields
    <3>q. QED  BY <2>2, <2>6, <3>1, <3>2
  <2>9. CASE next1 = "return"
    <3>1. Transition(k).status # "active"
      BY <1>1, <2>5, <2>9, TransitionOK
    <3>2. runs'[r].status # "active"
      BY <2>2, <2>3, <3>1 DEF AppendedRun
    <3>q. QED  BY <2>7, <3>2, KeptByTask
  <2>10. CASE next1 # "return"
    BY <2>5, <2>7, <2>8, <2>10, KeptByTask DEF Keeping, Driving
  <2>q. QED  BY <2>9, <2>10
<1>4. \/ task' = [task EXCEPT ![t] = Failing(k)] /\ UNCHANGED durable
      \/ /\ Fresh(k.id, k.run)
         /\ Appended(k.id, Transition(k), k.pend)
         /\ \/ task' = [task EXCEPT ![t] = Failing([k EXCEPT !.run = settled])]
            \/ task' = [task EXCEPT ![t] = [k EXCEPT !.run = settled, !.out = out, !.pc = next]]
  BY DEF CommitEvent, Transition
<1>q. QED  BY <1>2, <1>3, <1>4

\* Steps that leave the runs and what executions have begun alone.
LEMMA KeptQuietly ==
    ASSUME RunsInv, RunsKept, UNCHANGED <<runs, begun>>,
           \A u \in Slots : Alike(task[u], task'[u]) \/ task[u].pc \in {"free", "resume"}
    PROVE  RunsKept'
<1>1. \A s \in RunIds : IsActive(s)' => IsActive(s) /\ runs'[s].seq = runs[s].seq
  BY DEF IsActive, Exists
<1>q. QED  BY <1>1, KeptByRest

\* A run is closed by the intake or by the host.
LEMMA KeptClosed ==
    ASSUME RunsInv, RunsKept, NEW r, NEW rec, NEW reason, Snapshot(r, rec), Fresh(r, rec),
           Closed(r, rec, "canceled", reason), UNCHANGED begun,
           \A u \in Slots : Alike(task[u], task'[u])
    PROVE  RunsKept'
<1>1. "canceled" \in Terminal /\ "canceled" # "active"
  BY DEF Terminal
<1>2. PICK st : st = "canceled"
  OBVIOUS
<1>3. PICK next, e : /\ next = [rec EXCEPT !.status = st, !.token = 0]
                     /\ AppendedFrom(r, rec, next, e)
  BY <1>1, <1>2, ClosedKeeps DEF RunsInv
<1>4. AppendedRun(r, rec, next, e)
  BY <1>3, AppendedGives DEF RunsInv
<1>5. next.status = "canceled"
  BY <1>2, <1>3 DEF Snapshot, RunRecord
<1>6. \A s \in RunIds : IsActive(s)' => IsActive(s) /\ runs'[s].seq = runs[s].seq
  BY <1>1, <1>4, <1>5 DEF AppendedRun, IsActive, Exists
<1>q. QED  BY <1>6, KeptByRest

LEMMA RejectedAlike ==
    ASSUME Rejected \/ UNCHANGED task
    PROVE  \A u \in Slots : Alike(task[u], task'[u])
<1>1. CASE Rejected
  BY <1>1, DequeueAlike DEF Rejected
<1>2. CASE UNCHANGED task
  BY <1>2 DEF Alike
<1>q. QED  BY <1>1, <1>2

LEMMA HostKept ==
    ASSUME RunsInv, RunsKept,
           \/ CancelClose \/ Interrupt \/ Tick
           \/ \E t \in Slots : Timer(t) \/ TakeChannel(t)
           \/ \E t \in Slots, r \in RunIds : ResumeRun(t, r)
           \/ \E r \in RunIds : CancelRun(r)
           \/ \E q \in Request : Submit(q)
    PROVE  RunsKept'
<1>1. CASE CancelClose
  <2>1. /\ Snapshot(canceller.id, canceller.read)
        /\ UNCHANGED <<intake, task, begun>>
    BY <1>1 DEF CancelClose, RunsInv, CancellerOK, Idle
  <2>2. \A u \in Slots : Alike(task[u], task'[u])
    BY <2>1, RejectedAlike
  <2>3. CASE UNCHANGED durable
    BY <2>1, <2>2, <2>3, KeptQuietly DEF durable
  <2>4. CASE /\ Fresh(canceller.id, canceller.read)
             /\ Closed(canceller.id, canceller.read, "canceled", "host")
    <3>1. PICK r, rec, why : r = canceller.id /\ rec = canceller.read /\ why = "host"
      OBVIOUS
    <3>q. QED  BY <2>1, <2>2, <2>4, <3>1, KeptClosed
  <2>q. QED  BY <1>1, <2>3, <2>4 DEF CancelClose
<1>2. CASE Interrupt
  <2>1. UNCHANGED <<runs, intake, begun>> /\ task' = AbortAll(task, {active}, "host")
    BY <1>2 DEF Interrupt, durable
  <2>2. \A u \in Slots : Alike(task[u], task'[u])
    BY <2>1, AbortAllAlike
  <2>q. QED  BY <2>1, <2>2, KeptQuietly
<1>3. CASE Tick \/ \E q \in Request : Submit(q)
  <2>1. UNCHANGED <<runs, intake, begun, task>>
    BY <1>3 DEF Tick, Submit, durable
  <2>q. QED  BY <2>1, RejectedAlike, KeptQuietly
<1>4. ASSUME NEW t \in Slots, Timer(t) PROVE RunsKept'
  <2>1. UNCHANGED <<runs, intake, begun>> /\ task' = [task EXCEPT ![t].aborted = "deadline"]
        /\ DOMAIN task = Slots
    BY <1>4 DEF Timer, durable, RunsInv, Typed
  <2>2. PICK l : l = [task[t] EXCEPT !.aborted = "deadline"] /\ task' = [task EXCEPT ![t] = l]
    BY <2>1
  <2>3. Alike(task[t], l)
    BY <2>2 DEF Alike
  <2>4. \A u \in Slots : Alike(task[u], task'[u])
    BY <2>1, <2>2, <2>3 DEF Alike
  <2>q. QED  BY <2>1, <2>4, KeptQuietly
<1>5. ASSUME NEW t \in Slots, TakeChannel(t) PROVE RunsKept'
  <2>1. PICK which, l : /\ task' = [AbortAll(task, which, "resumed") EXCEPT ![t] = l]
                        /\ UNCHANGED <<runs, intake, begun>> /\ task[t].pc = "resume"
    BY <1>5 DEF TakeChannel, durable
  <2>2. PICK f : f = AbortAll(task, which, "resumed") /\ task' = [f EXCEPT ![t] = l]
    BY <2>1
  <2>3. DOMAIN f = Slots /\ \A u \in Slots : Alike(task[u], f[u])
    BY <2>2, AbortAllAlike DEF AbortAll
  <2>4. \A u \in Slots \ {t} : Alike(task[u], task'[u])
    BY <2>2, <2>3
  <2>q. QED  BY <2>1, <2>4, KeptQuietly
<1>6. ASSUME NEW t \in Slots, NEW r \in RunIds, ResumeRun(t, r) PROVE RunsKept'
  <2>1. PICK l : /\ task' = [task EXCEPT ![t] = l] /\ task[t].pc = "free"
                 /\ UNCHANGED <<runs, intake, begun>> /\ DOMAIN task = Slots
    BY <1>6 DEF ResumeRun, durable, RunsInv, Typed
  <2>2. \A u \in Slots \ {t} : Alike(task[u], task'[u])
    BY <2>1 DEF Alike
  <2>q. QED  BY <2>1, <2>2, KeptQuietly
<1>7. ASSUME NEW r \in RunIds, CancelRun(r) PROVE RunsKept'
  <2>1. UNCHANGED <<runs, intake, begun>> /\ task' = AbortAll(task, ActiveOf(r), "host")
    BY <1>7 DEF CancelRun, durable
  <2>2. \A u \in Slots : Alike(task[u], task'[u])
    BY <2>1, AbortAllAlike
  <2>q. QED  BY <2>1, <2>2, KeptQuietly
<1>q. QED  BY <1>1, <1>2, <1>3, <1>4, <1>5, <1>6, <1>7

LEMMA CrashKept ==
    ASSUME RunsInv, Crash
    PROVE  RunsKept'
<1>1. begun' = {}
  BY DEF Crash
<1>q. QED  BY <1>1 DEF RunsKept, Tended

LEMMA IntakeKept ==
    ASSUME RunsInv, RunsKept, Serve
    PROVE  RunsKept'
<1>1. ASSUME Rejected, begun' = begun PROVE RunsKept'
  <2>1. UNCHANGED runs /\ \A u \in Slots : Alike(task[u], task'[u])
    BY <1>1, RejectedAlike DEF Rejected, durable
  <2>q. QED  BY <1>1, <2>1, KeptQuietly
<1>2. ASSUME UNCHANGED <<runs, task, begun>> PROVE RunsKept'
  BY <1>2, RejectedAlike, KeptQuietly
<1>3. ASSUME NEW q, NEW open, Proceed(q, open), begun' = begun PROVE RunsKept'
  BY <1>1, <1>2, <1>3 DEF Proceed, durable
<1>4. CASE IntakeLook
  BY <1>1, <1>2, <1>4 DEF IntakeLook, durable
<1>5. CASE IntakeOpen
  <2>1. begun' = begun
    BY <1>5 DEF IntakeOpen
  <2>2. Rejected \/ (\E open : Proceed(Head(queue), open)) \/ UNCHANGED <<runs, task>>
    BY <1>5 DEF IntakeOpen, durable
  <2>q. QED  BY <1>1, <1>2, <1>3, <2>1, <2>2
<1>6. CASE IntakeSupersede
  <2>1. /\ intake.pc = "supersede" /\ begun' = begun
        /\ \/ Rejected \/ Proceed(Head(queue), intake.open) \/ UNCHANGED <<runs, task>>
           \/ /\ Fresh(intake.open, intake.record)
              /\ Closed(intake.open, intake.record, "canceled", "input")
              /\ \/ task' = AbortAll(task, ActiveOf(intake.open), "input")
                 \/ Dequeue(AbortAll(task, ActiveOf(intake.open), "input"))
    BY <1>6 DEF IntakeSupersede, durable
  <2>2. CASE /\ Fresh(intake.open, intake.record)
             /\ Closed(intake.open, intake.record, "canceled", "input")
             /\ \/ task' = AbortAll(task, ActiveOf(intake.open), "input")
                \/ Dequeue(AbortAll(task, ActiveOf(intake.open), "input"))
    <3>1. Snapshot(intake.open, intake.record)
      BY <2>1 DEF RunsInv, IntakeOK, Idle
    <3>2. PICK r, rec, why : r = intake.open /\ rec = intake.record /\ why = "input"
      OBVIOUS
    <3>3. \A u \in Slots : Alike(task[u], task'[u])
      BY <2>2, AbortedAlike
    <3>q. QED  BY <2>1, <2>2, <3>1, <3>2, <3>3, KeptClosed
  <2>q. QED  BY <1>1, <1>2, <1>3, <2>1, <2>2
<1>7. CASE IntakeCancel
  <2>1. /\ UNCHANGED <<runs, begun>>
        /\ \/ task' = AbortAll(task, ActiveOf(intake.open), "input")
           \/ Dequeue(AbortAll(task, ActiveOf(intake.open), "input"))
           \/ UNCHANGED task
    BY <1>7 DEF IntakeCancel, durable
  <2>2. \A u \in Slots : Alike(task[u], task'[u])
    BY <2>1, AbortedAlike, RejectedAlike
  <2>q. QED  BY <2>1, <2>2, KeptQuietly
<1>8. CASE IntakeClose
  <2>1. /\ intake.pc = "close" /\ begun' = begun
        /\ \/ Rejected
           \/ /\ Fresh(intake.open, intake.read)
              /\ Closed(intake.open, intake.read, "canceled", "input")
              /\ UNCHANGED task \/ Dequeue(task)
    BY <1>8 DEF IntakeClose
  <2>2. CASE /\ Fresh(intake.open, intake.read)
             /\ Closed(intake.open, intake.read, "canceled", "input")
             /\ UNCHANGED task \/ Dequeue(task)
    <3>1. Snapshot(intake.open, intake.read)
      BY <2>1 DEF RunsInv, IntakeOK, Idle
    <3>2. PICK r, rec, why : r = intake.open /\ rec = intake.read /\ why = "input"
      OBVIOUS
    <3>3. \A u \in Slots : Alike(task[u], task'[u])
      BY <2>2, DequeueAlike, RejectedAlike
    <3>q. QED  BY <2>1, <2>2, <3>1, <3>2, <3>3, KeptClosed
  <2>q. QED  BY <1>1, <2>1, <2>2
<1>11. CASE IntakeFails
  BY <1>1, <1>11 DEF IntakeFails
<1>9. CASE IntakeAdmit
  <2>1. CASE Rejected /\ UNCHANGED begun
    BY <1>1, <2>1
  <2>2. CASE /\ runs' = [runs EXCEPT ![intake.id] = intake.record]
             /\ begun' = begun \ {intake.id}
             /\ UNCHANGED task
    <3>1. PICK r : r = intake.id
      OBVIOUS
    <3>2. r \notin begun' /\ begun' \subseteq begun
      BY <2>2, <3>1
    <3>3. \A s \in RunIds \ {r} : runs'[s] = runs[s]
      BY <2>2, <3>1 DEF RunsInv, Stored
    <3>4. \A s \in RunIds : IsActive(s)' =>
               (IsActive(s) /\ runs'[s].seq = runs[s].seq) \/ Tended(s)'
      BY <3>2, <3>3 DEF IsActive, Exists, Tended
    <3>q. QED  BY <2>2, <3>2, <3>4, RejectedAlike, KeptByRest
  <2>q. QED  BY <1>9, <2>1, <2>2 DEF IntakeAdmit
<1>10. CASE IntakeHandoff
  <2>1. UNCHANGED <<runs, begun>>
    BY <1>10 DEF IntakeHandoff, durable
  <2>2. CASE Dequeue(AbortAll(task, ActiveNotOf(intake.id), "input"))
    BY <2>1, <2>2, AbortedAlike, KeptQuietly
  <2>3. ASSUME NEW t \in Slots, task[t].pc = "free",
               NEW k, Dequeue([AbortAll(task, ActiveNotOf(intake.id), "input") EXCEPT ![t] = k])
        PROVE  RunsKept'
    <3>1. PICK f, tasks : /\ f = AbortAll(task, ActiveNotOf(intake.id), "input")
                          /\ tasks = [f EXCEPT ![t] = k] /\ Dequeue(tasks)
      BY <2>3
    <3>2. DOMAIN f = Slots /\ \A u \in Slots : Alike(task[u], f[u])
      BY <3>1, AbortAllAlike DEF AbortAll
    <3>3. \A u \in Slots \ {t} : Alike(task[u], tasks[u])
      BY <3>1, <3>2
    <3>4. \A u \in Slots : Alike(tasks[u], task'[u])
      BY <3>1, DequeueAlike
    <3>5. \A u \in Slots : Alike(task[u], task'[u]) \/ task[u].pc \in {"free", "resume"}
      BY <2>3, <3>3, <3>4 DEF Alike
    <3>q. QED  BY <2>1, <3>5, KeptQuietly
  <2>q. QED  BY <1>10, <2>2, <2>3 DEF IntakeHandoff
<1>q. QED  BY <1>4, <1>5, <1>6, <1>7, <1>8, <1>9, <1>10, <1>11 DEF Serve

LEMMA KeptStep ==
    ASSUME RunsInv, RunsKept, [Next]_vars
    PROVE  RunsKept'
<1>1. CASE Serve
  BY <1>1, IntakeKept
<1>2. ASSUME NEW t \in Slots, Drive(t) PROVE RunsKept'
  BY <1>2, YieldKept, DriverEndsKept, FailsKept DEF Drive
<1>3. ASSUME NEW t \in Slots, Run(t) PROVE RunsKept'
  BY <1>3, StartKept, FailsKept, CommitEventKept, UtterKept, RecordOutputKept, SettleKept,
     FinishKept, SaveRunKept, HostKept DEF Run
<1>4. CASE Crash
  BY <1>4, CrashKept
<1>5. CASE UNCHANGED vars
  <2>1. UNCHANGED <<runs, intake, begun, task>>
    BY <1>5 DEF vars
  <2>q. QED  BY <2>1, RejectedAlike, KeptQuietly
<1>q. QED  BY <1>1, <1>2, <1>3, <1>4, <1>5, HostKept DEF Next

\* Whatever the driver, its observers, the speech adapter and the store fail at, and however
\* admissions, resumptions and cancellations interleave, a run that an execution has begun
\* to drive and that is active has an execution that will end it, unless the process stops
\* or the store fails where the end is written. A run whose admission or whose execution's
\* beginning failed is not among them.
THEOREM BegunRunsAreTended == Spec => []BegunRunsTended
<1>1. Init => RunsKept
  BY DEF Init, RunsKept, IsActive, Exists
<1>2. RunsInv /\ RunsKept /\ [Next]_vars => RunsKept'
  BY KeptStep
<1>3. RunsKept => BegunRunsTended
  <2> SUFFICES ASSUME RunsKept PROVE BegunRunsTended
    OBVIOUS
  <2>1. \A t \in Slots, r \in RunIds : Keeper(t, r) =>
          /\ task[t].pc \in {"drive", "commit", "utter", "record", "settle", "finish"}
          /\ task[t].id = r
    BY DEF Keeper, Driving
  <2>q. QED  BY <2>1 DEF RunsKept, BegunRunsTended, IsActive, Tended
<1>q. QED  BY <1>1, <1>2, <1>3, RunsAlways, PTL DEF Spec

-----------------------------------------------------------------------------
(* Outputs: lemmas about the journal.                                      *)

LEMMA LastExists ==
    \A n \in Nat : \A S \in SUBSET (1..n) : S # {} => \E m \in S : \A j \in S : j <= m
<1> DEFINE P(n) == \A S \in SUBSET (1..n) : S # {} => \E m \in S : \A j \in S : j <= m
           N == {n \in Nat : P(n)}
<1>1. 0 \in N
  <2>1. \A S \in SUBSET (1..0) : S = {}
    OBVIOUS
  <2>q. QED  BY <2>1
<1>2. ASSUME NEW n \in N PROVE n + 1 \in N
  <2>1. n \in Nat /\ P(n)
    OBVIOUS
  <2>2. ASSUME NEW S \in SUBSET (1..(n + 1)), S # {}
        PROVE  \E m \in S : \A j \in S : j <= m
    <3>1. CASE n + 1 \in S
      BY <2>1, <3>1
    <3>2. CASE n + 1 \notin S
      <4>1. S \in SUBSET (1..n)
        BY <2>1, <3>2
      <4>q. QED  BY <2>1, <2>2, <4>1
    <3>q. QED  BY <3>1, <3>2
  <2>q. QED  BY <2>1, <2>2
<1> HIDE DEF P
<1>3. N \subseteq Nat
  OBVIOUS
<1> HIDE DEF N
<1>4. N = Nat
  BY <1>1, <1>2, <1>3, SetInduction
<1>q. QED  BY <1>4 DEF N, P

LastOf(S) == CHOOSE k \in S : \A j \in S : j <= k

LEMMA LastOfIn ==
    ASSUME NEW n \in Nat, NEW S, S \subseteq 1..n, S # {}
    PROVE  LastOf(S) \in S /\ \A j \in S : j <= LastOf(S)
<1>1. \E m \in S : \A j \in S : j <= m
  BY LastExists
<1>q. QED  BY <1>1 DEF LastOf

\* An appended entry closes an output only if it is its final.
LEMMA ClosedAppend ==
    ASSUME NEW events, Listed(events), NEW e
    PROVE  ClosedIds(Append(events, e)) \subseteq
               ClosedIds(events) \cup (IF e.kind = "final" THEN {e.id} ELSE {})
<1> DEFINE more == Append(events, e)
           n == Len(events)
<1>1. /\ n \in Nat /\ DOMAIN events = 1..n /\ DOMAIN more = 1..(n + 1)
      /\ \A j \in 1..n : more[j] = events[j]
      /\ more[n + 1] = e
  BY JournalAppend
<1> HIDE DEF more, n
<1> SUFFICES ASSUME NEW id \in ClosedIds(more), ~(e.kind = "final" /\ e.id = id)
             PROVE  id \in ClosedIds(events)
  BY DEF more
<1>2. \A evs : LastDelta(evs, id) = LastOf(Deltas(evs, id))
  BY DEF LastDelta, LastOf
<1>3. Deltas(more, id) # {} /\ more[LastDelta(more, id)].kind = "final"
  BY DEF ClosedIds, Ids, Deltas
<1>4. Deltas(more, id) \subseteq 1..(n + 1)
  BY <1>1 DEF Deltas
<1>5. /\ LastOf(Deltas(more, id)) \in Deltas(more, id)
      /\ \A j \in Deltas(more, id) : j <= LastOf(Deltas(more, id))
  BY <1>1, <1>3, <1>4, LastOfIn
<1>6. n + 1 \notin Deltas(more, id)
  <2>1. SUFFICES ASSUME n + 1 \in Deltas(more, id) PROVE FALSE
    OBVIOUS
  <2>2. LastOf(Deltas(more, id)) = n + 1
    BY <1>1, <1>4, <1>5, <2>1
  <2>3. e.kind = "final" /\ e.id = id
    BY <1>1, <1>2, <1>3, <2>1, <2>2 DEF Deltas
  <2>q. QED  BY <2>3
<1>7. Deltas(events, id) = Deltas(more, id)
  BY <1>1, <1>6 DEF Deltas
<1>8. LastDelta(events, id) = LastDelta(more, id) /\ LastDelta(more, id) \in Deltas(events, id)
  BY <1>2, <1>5, <1>7
<1>9. LastDelta(more, id) \in 1..n
  BY <1>1, <1>8 DEF Deltas
<1>10. events[LastDelta(events, id)].kind = "final"
  BY <1>1, <1>3, <1>8, <1>9
<1>11. id \in Ids(events)
  BY <1>8 DEF Deltas, Ids
<1>q. QED  BY <1>10, <1>11 DEF ClosedIds

LEMMA FinalsAppend ==
    ASSUME NEW events, Listed(events), NEW e, NEW input, NEW o
    PROVE  /\ Finals(events, input, o) # {} => Finals(Append(events, e), input, o) # {}
           /\ Finals(Append(events, e), input, o) # {} =>
                \/ Finals(events, input, o) # {}
                \/ e.kind = "final" /\ e.out = o /\ e.input = input
           /\ e.kind = "final" /\ e.out = o /\ e.input = input =>
                Finals(Append(events, e), input, o) # {}
<1> DEFINE more == Append(events, e)
           n == Len(events)
<1>1. /\ n \in Nat /\ DOMAIN events = 1..n /\ DOMAIN more = 1..(n + 1)
      /\ \A j \in 1..n : more[j] = events[j]
      /\ more[n + 1] = e
  BY JournalAppend
<1> HIDE DEF more, n
<1>2. \A j : j \in 1..(n + 1) <=> j \in 1..n \/ j = n + 1
  BY <1>1
<1>3. \A j \in 1..n : j \in Finals(events, input, o) <=> j \in Finals(more, input, o)
  BY <1>1, <1>2 DEF Finals
<1>4. n + 1 \in Finals(more, input, o) <=> e.kind = "final" /\ e.out = o /\ e.input = input
  BY <1>1, <1>2 DEF Finals
<1>5. Finals(events, input, o) \subseteq 1..n /\ Finals(more, input, o) \subseteq 1..(n + 1)
  BY <1>1 DEF Finals
<1>q. QED  BY <1>2, <1>3, <1>4, <1>5 DEF more

\* A record that is still good after a step was so before, and nothing was appended.
LEMMA FreshBack ==
    ASSUME Stored, Stored', Moves, NEW r, NEW rec, Snapshot(r, rec), Fresh(r, rec)'
    PROVE  Fresh(r, rec) /\ journal'[r] = journal[r]
<1>1. /\ r \in RunIds /\ Exists(r) /\ RunMoves(r)
      /\ rec.seq <= runs[r].seq /\ runs'[r].seq = rec.seq
      /\ rec \in RunRecord /\ runs[r] \in RunRecord
  BY DEF Snapshot, Moves, Fresh, Stored, Exists
<1>2. rec.seq \in Nat /\ runs[r].seq \in Nat
  BY <1>1, RecordFields
<1>3. runs'[r].seq >= runs[r].seq
  BY <1>1, <1>2 DEF RunMoves
<1>4. runs'[r].seq = runs[r].seq
  BY <1>1, <1>2, <1>3
<1>5. ~(runs'[r].seq > runs[r].seq)
  BY <1>2, <1>4
<1>q. QED  BY <1>1, <1>4, <1>5 DEF RunMoves, Fresh

LEMMA WriterKeeps ==
    ASSUME Stored, Stored', Moves, transcript \subseteq transcript',
           NEW k, TaskOK(k), k.pc \in Working, WriterOK(k)
    PROVE  WriterOK(k)'
<1>1. Snapshot(k.id, k.run) /\ k.id \in RunIds
  BY DEF TaskOK, Snapshot
<1>2. PendOK(k)' = PendOK(k)
  BY DEF PendOK
<1>3. Fresh(k.id, k.run)' => Fresh(k.id, k.run) /\ journal'[k.id] = journal[k.id]
  <2>1. PICK r, rec : r = k.id /\ rec = k.run
    OBVIOUS
  <2>2. Fresh(r, rec)' => Fresh(r, rec) /\ journal'[r] = journal[r]
    BY <1>1, <2>1, FreshBack
  <2>q. QED  BY <2>1, <2>2
<1>4. ASSUME Fresh(k.id, k.run)'
      PROVE  /\ \A n : AttemptsUpTo(k.id, n)' <=> AttemptsUpTo(k.id, n)
             /\ \A n : AttemptsBelow(k.id, n)' <=> AttemptsBelow(k.id, n)
             /\ \A i : NothingFor(k.id, i)' <=> NothingFor(k.id, i)
             /\ Aware(k)' <=> Aware(k)
             /\ Noted(k.id) => Noted(k.id)'
             /\ NotedBut(k.id, k.pend.id) => NotedBut(k.id, k.pend.id)'
  BY <1>3, <1>4 DEF AttemptsUpTo, AttemptsBelow, NothingFor, Aware, Noted, NotedBut
<1>q. QED  BY <1>2, <1>3, <1>4 DEF WriterOK

LEMMA WriterAlike ==
    ASSUME NEW k, NEW l, Alike(k, l), TaskOK(k), k.pc \in Working, WriterOK(k)
    PROVE  WriterOK(l)
<1>1. k.pc # "free" /\ "pc" \in DOMAIN k /\ DOMAIN k = TaskFields
  BY DEF TaskOK, Working, Driving
<1>2. /\ l.pc = k.pc /\ l.id = k.id /\ l.run = k.run /\ l.resumed = k.resumed
      /\ l.closed = k.closed /\ l.out = k.out /\ l.pend = k.pend
  BY <1>1, AlikeFields
<1>q. QED  BY <1>2 DEF WriterOK, PendOK, Aware

LEMMA WritersKeep ==
    ASSUME RunsInv, WritersOK, Stored', Moves, transcript \subseteq transcript',
           \A t \in Slots : \/ Alike(task[t], task'[t])
                            \/ (task'[t].pc \in Working => WriterOK(task[t])')
    PROVE  WritersOK'
<1> SUFFICES ASSUME NEW t \in Slots, Alike(task[t], task'[t]), task'[t].pc \in Working
             PROVE  WriterOK(task[t])'
  BY DEF WritersOK
<1>1. PICK k, l : k = task[t] /\ l = task'[t]
  OBVIOUS
<1>2. TaskOK(k) /\ "pc" \in DOMAIN k /\ (k.pc # "free" => DOMAIN k = TaskFields)
  BY <1>1 DEF RunsInv, TaskOK
<1>3. l.pc = k.pc /\ k.pc \in Working
  BY <1>1, <1>2, AlikeFields
<1>4. WriterOK(k)
  BY <1>1, <1>3 DEF WritersOK
<1>5. TaskOK(l) /\ WriterOK(l) /\ l.pc \in Working
  BY <1>1, <1>2, <1>3, <1>4, TaskAlike, WriterAlike
<1>6. WriterOK(l)'
  BY <1>5, WriterKeeps DEF RunsInv
<1>q. QED  BY <1>1, <1>6

LEMMA HandoffKeeps ==
    ASSUME RunsInv, HandoffOK, Stored', Moves, intake' = intake
    PROVE  HandoffOK'
<1> SUFFICES ASSUME intake.pc = "handoff", Fresh(intake.id, intake.record)'
             PROVE  /\ AttemptsUpTo(intake.id, intake.record.attempt)'
                    /\ NothingFor(intake.id, intake.record.input)'
  BY DEF HandoffOK
<1>1. PICK r, rec : r = intake.id /\ rec = intake.record
  OBVIOUS
<1>2. Snapshot(r, rec)
  BY <1>1 DEF RunsInv, IntakeOK, Idle
<1>3. Fresh(r, rec)'
  BY <1>1 DEF Fresh
<1>4. Fresh(r, rec) /\ journal'[r] = journal[r]
  BY <1>2, <1>3, FreshBack DEF RunsInv
<1>5. AttemptsUpTo(r, rec.attempt) /\ NothingFor(r, rec.input)
  BY <1>1, <1>4 DEF HandoffOK
<1>q. QED  BY <1>1, <1>4, <1>5 DEF AttemptsUpTo, NothingFor

\* Closing entries stay.
FinalsStay ==
    \A r \in RunIds, i \in Inputs : \A o :
        Finals(journal[r], i, o) # {} => Finals(journal'[r], i, o) # {}

LEMMA SpeakersKeep ==
    ASSUME RunsInv, SpeakersOK, FinalsStay, presented' = presented,
           \A t \in Slots : Alike(task[t], task'[t]) \/ task'[t].pc # "record"
    PROVE  SpeakersOK'
<1>1. ASSUME NEW t \in Slots, Speaking(t)'
      PROVE  /\ Speaking(t) /\ KeyOf(task'[t]) = KeyOf(task[t])
             /\ task'[t].id = task[t].id /\ task'[t].run = task[t].run
             /\ task'[t].pend = task[t].pend
             /\ task[t].id \in RunIds /\ task[t].run.input \in Inputs
  <2>1. PICK k, l : k = task[t] /\ l = task'[t]
    OBVIOUS
  <2>2. Alike(k, l) /\ l.pc = "record" /\ l.pend.out # None
    BY <1>1, <2>1 DEF Speaking
  <2>3. TaskOK(k) /\ "pc" \in DOMAIN k /\ (k.pc # "free" => DOMAIN k = TaskFields)
    BY <2>1 DEF RunsInv, TaskOK
  <2>4. k.pc = "record" /\ l.id = k.id /\ l.run = k.run /\ l.pend = k.pend
    BY <2>2, <2>3, AlikeFields
  <2>5. k.id \in RunIds /\ k.run \in RunRecord
    BY <2>3, <2>4 DEF TaskOK, Working, Driving, Snapshot
  <2>6. k.run.input \in Inputs
    BY <2>5, RecordFields
  <2>q. QED  BY <2>1, <2>2, <2>4, <2>5, <2>6 DEF Speaking, KeyOf
<1>2. ASSUME NEW t \in Slots, Speaking(t)'
      PROVE  /\ presented'[KeyOf(task'[t])] = 0
             /\ Finals(journal'[task'[t].id], task'[t].run.input, task'[t].pend.out) # {}
  <2>1. PICK r, i, o : r = task[t].id /\ i = task[t].run.input /\ o = task[t].pend.out
    OBVIOUS
  <2>2. presented[KeyOf(task[t])] = 0 /\ Finals(journal[r], i, o) # {}
    BY <1>1, <1>2, <2>1 DEF SpeakersOK
  <2>3. Finals(journal'[r], i, o) # {}
    BY <1>1, <1>2, <2>1, <2>2 DEF FinalsStay
  <2>q. QED  BY <1>1, <1>2, <2>1, <2>2, <2>3
<1>3. ASSUME NEW t \in Slots, Speaking(t)', NEW u \in Slots, Speaking(u)',
             KeyOf(task'[u]) = KeyOf(task'[t])
      PROVE  u = t
  BY <1>1, <1>3 DEF SpeakersOK
<1>q. QED  BY <1>2, <1>3 DEF SpeakersOK, KeyOf

LEMMA PresentedKeeps ==
    ASSUME PresentedOK, FinalsStay, presented' = presented
    PROVE  PresentedOK'
BY DEF PresentedOK, FinalsStay

LEMMA JournalSame ==
    ASSUME Stored, Moves, JournalOK, journal' = journal
    PROVE  JournalOK' /\ FinalsStay
<1>1. \A r \in RunIds : r # NoRun
  BY RoomRunsAssumption
<1>q. QED  BY <1>1 DEF JournalOK, Moves, FinalsStay

LEMMA JournalAppended ==
    ASSUME Stored, Moves, JournalOK, NEW r, NEW rec, NEW next, NEW e,
           Snapshot(r, rec), AppendedRun(r, rec, next, e),
           e.input = rec.input, e.attempt \in Nat
    PROVE  JournalOK' /\ FinalsStay
<1>1. /\ r \in RunIds /\ journal'[r] = Append(journal[r], e) /\ inputRun' = inputRun
      /\ \A s \in RunIds \ {r} : journal'[s] = journal[s]
  BY DEF AppendedRun
<1>2. Listed(journal[r])
  BY <1>1 DEF Stored, RunOK
<1>3. /\ DOMAIN journal[r] = 1..Len(journal[r]) /\ Len(journal[r]) \in Nat
      /\ DOMAIN journal'[r] = 1..(Len(journal[r]) + 1)
      /\ \A j \in 1..Len(journal[r]) : journal'[r][j] = journal[r][j]
      /\ journal'[r][Len(journal[r]) + 1] = e
  BY <1>1, <1>2, JournalAppend
<1>4. e.input \in Inputs /\ inputRun[e.input] = r
  BY RecordFields DEF Snapshot
<1>5. \A n \in DOMAIN journal'[r] :
        /\ journal'[r][n].attempt \in Nat /\ journal'[r][n].input \in Inputs
        /\ inputRun'[journal'[r][n].input] = r
  <2>1. \A n \in DOMAIN journal'[r] : n \in DOMAIN journal[r] \/ n = Len(journal[r]) + 1
    BY <1>3
  <2>q. QED  BY <1>1, <1>3, <1>4, <2>1 DEF JournalOK
<1>6. JournalOK'
  BY <1>1, <1>5 DEF JournalOK
<1>7. \A i \in Inputs : \A o :
        Finals(journal[r], i, o) # {} => Finals(journal'[r], i, o) # {}
  BY <1>1, <1>2, FinalsAppend
<1>8. FinalsStay
  BY <1>1, <1>7 DEF FinalsStay
<1>q. QED  BY <1>6, <1>8

-----------------------------------------------------------------------------
(* Outputs: what a step leaves of them.                                    *)

\* A step that appends nothing.
LEMMA QuietStore ==
    ASSUME RunsInv, OutputsInv, Stored', Moves, journal' = journal,
           transcript \subseteq transcript',
           \A r \in RunIds : \/ runs'[r] = runs[r]
                             \/ runs'[r].status = "active" /\ AttemptsUpTo(r, runs'[r].attempt),
           \A t \in Slots :
               \/ Alike(task[t], task'[t])
               \/ task'[t].pc # "record" /\ (task'[t].pc \in Working => WriterOK(task[t])'),
           intake' = intake \/ HandoffOK'
    PROVE  JournalOK' /\ FinalsStay /\ AttemptsOK' /\ RecordedOutputs' /\ WritersOK' /\ HandoffOK'
<1>1. JournalOK' /\ FinalsStay
  BY JournalSame DEF RunsInv, OutputsInv
<1>2. AttemptsOK'
  <2> SUFFICES ASSUME NEW r \in RunIds, Exists(r)', runs'[r].status \in Open
               PROVE  AttemptsUpTo(r, runs[r].attempt)'
    BY DEF AttemptsOK
  <2>1. AttemptsUpTo(r, runs'[r].attempt)
    BY DEF AttemptsOK, OutputsInv, Exists
  <2>q. QED  BY <2>1 DEF AttemptsUpTo
<1>3. RecordedOutputs'
  <2> SUFFICES ASSUME NEW r \in RunIds, Exists(r)',
                      runs'[r].status \in {"completed", "waiting_for_input"},
                      NEW id \in ClosedIds(journal[r])
               PROVE  \E e \in transcript' : e.id = <<r, id>>
    BY DEF RecordedOutputs
  <2>1. runs'[r] = runs[r]
    OBVIOUS
  <2>q. QED  BY <2>1 DEF OutputsInv, RecordedOutputs, Exists
<1>4. WritersOK'
  BY WritersKeep DEF OutputsInv
<1>5. HandoffOK'
  BY HandoffKeeps DEF OutputsInv
<1>q. QED  BY <1>1, <1>2, <1>3, <1>4, <1>5

\* A step that appends nothing and speaks nothing.
LEMMA QuietOutputs ==
    ASSUME RunsInv, OutputsInv, Stored', Moves, UNCHANGED <<journal, presented>>,
           transcript \subseteq transcript',
           \A r \in RunIds : \/ runs'[r] = runs[r]
                             \/ runs'[r].status = "active" /\ AttemptsUpTo(r, runs'[r].attempt),
           \A t \in Slots :
               \/ Alike(task[t], task'[t])
               \/ task'[t].pc # "record" /\ (task'[t].pc \in Working => WriterOK(task[t])'),
           intake' = intake \/ HandoffOK'
    PROVE  OutputsInv'
<1>1. JournalOK' /\ FinalsStay /\ AttemptsOK' /\ RecordedOutputs' /\ WritersOK' /\ HandoffOK'
  BY QuietStore
<1>2. PresentedOK' /\ SpeakersOK'
  BY <1>1, PresentedKeeps, SpeakersKeep DEF OutputsInv
<1>q. QED  BY <1>1, <1>2 DEF OutputsInv

\* A run is closed before its time: canceled, failed, too late.
LEMMA ClosingOutputs ==
    ASSUME RunsInv, OutputsInv, NEW r, NEW rec, NEW st, NEW why,
           Snapshot(r, rec), Fresh(r, rec), st \in Terminal \ {"completed"},
           Closed(r, rec, st, why), UNCHANGED presented,
           \A t \in Slots : Alike(task[t], task'[t]) \/ task'[t].pc \notin Working,
           intake' = intake \/ intake'.pc # "handoff"
    PROVE  OutputsInv'
<1>1. PICK next, e : /\ next = [rec EXCEPT !.status = st, !.token = 0]
                     /\ e = Entry(st, rec, None, None, why)
                     /\ AppendedFrom(r, rec, next, e)
  BY ClosedKeeps DEF RunsInv
<1>2. AppendedRun(r, rec, next, e) /\ Stored' /\ Moves
  BY <1>1, AppendedGives, AppendedKeeps DEF RunsInv
<1>3. rec \in RunRecord /\ next.status = st /\ e.input = rec.input /\ e.attempt = rec.attempt
  BY <1>1 DEF Snapshot, RunRecord, Entry
<1>4. JournalOK' /\ FinalsStay
  <2>1. e.attempt \in Nat
    BY <1>3, RecordFields
  <2>q. QED  BY <1>2, <1>3, <2>1, JournalAppended DEF RunsInv, OutputsInv
<1>5. /\ runs'[r].status \in Terminal \ {"completed"}
      /\ \A s \in RunIds \ {r} : runs'[s] = runs[s] /\ journal'[s] = journal[s]
      /\ transcript' = transcript
  BY <1>2, <1>3 DEF AppendedRun
<1>6. AttemptsOK'
  BY <1>5 DEF AttemptsOK, AttemptsUpTo, OutputsInv, Exists, Open, Terminal
<1>7. RecordedOutputs'
  BY <1>5 DEF RecordedOutputs, OutputsInv, Exists, Terminal
<1>8. WritersOK'
  <2>1. \A t \in Slots : \/ Alike(task[t], task'[t])
                          \/ (task'[t].pc \in Working => WriterOK(task[t])')
    OBVIOUS
  <2>q. QED  BY <1>2, <1>5, <2>1, WritersKeep DEF OutputsInv
<1>9. HandoffOK'
  <2>1. intake'.pc # "handoff" => HandoffOK'
    BY DEF HandoffOK
  <2>q. QED  BY <1>2, <2>1, HandoffKeeps DEF OutputsInv
<1>10. PresentedOK' /\ SpeakersOK'
  <2>1. \A t \in Slots : Alike(task[t], task'[t]) \/ task'[t].pc # "record"
    BY DEF Working, Driving
  <2>q. QED  BY <1>4, <2>1, PresentedKeeps, SpeakersKeep DEF OutputsInv
<1>q. QED  BY <1>4, <1>6, <1>7, <1>8, <1>9, <1>10 DEF OutputsInv

\* What is known of an execution depends on its run, its journal and the transcript.
LEMMA WriterSame ==
    ASSUME NEW k, UNCHANGED <<runs, journal>>, transcript \subseteq transcript', WriterOK(k)
    PROVE  WriterOK(k)'
<1>1. Fresh(k.id, k.run)' = Fresh(k.id, k.run) /\ PendOK(k)' = PendOK(k)
  BY DEF Fresh, PendOK
<1>2. /\ \A n : AttemptsUpTo(k.id, n)' <=> AttemptsUpTo(k.id, n)
      /\ \A n : AttemptsBelow(k.id, n)' <=> AttemptsBelow(k.id, n)
      /\ \A i : NothingFor(k.id, i)' <=> NothingFor(k.id, i)
      /\ Aware(k)' <=> Aware(k)
      /\ Noted(k.id) => Noted(k.id)'
      /\ NotedBut(k.id, k.pend.id) => NotedBut(k.id, k.pend.id)'
  BY DEF AttemptsUpTo, AttemptsBelow, NothingFor, Aware, Noted, NotedBut
<1>q. QED  BY <1>1, <1>2 DEF WriterOK

\* One execution goes on and no output is closed or spoken.
LEMMA TaskOutputs ==
    ASSUME RunsInv, OutputsInv, NEW t \in Slots, NEW l, task' = [task EXCEPT ![t] = l],
           UNCHANGED <<runs, journal, inputRun, presented, intake>>,
           transcript \subseteq transcript',
           \/ Alike(task[t], l)
           \/ l.pc # "record" /\ (l.pc \in Working => WriterOK(l)')
    PROVE  OutputsInv'
<1>1. task'[t] = l /\ \A u \in Slots \ {t} : task'[u] = task[u]
  BY DEF RunsInv, Typed
<1>2. Stored' /\ Moves
  BY UnchangedRuns DEF RunsInv
<1>3. WriterOK(task[t])' <=> WriterOK(l)'
  BY <1>1 DEF WriterOK, PendOK, Aware
<1>4. \A u \in Slots :
         \/ Alike(task[u], task'[u])
         \/ task'[u].pc # "record" /\ (task'[u].pc \in Working => WriterOK(task[u])')
  <2> SUFFICES ASSUME NEW u \in Slots
               PROVE  \/ Alike(task[u], task'[u])
                      \/ task'[u].pc # "record" /\ (task'[u].pc \in Working => WriterOK(task[u])')
    OBVIOUS
  <2>1. CASE u = t
    BY <1>1, <1>3, <2>1
  <2>2. CASE u # t
    BY <1>1, <2>2 DEF Alike
  <2>q. QED  BY <2>1, <2>2
<1>q. QED  BY <1>2, <1>4, QuietOutputs

LEMMA WriterNow ==
    ASSUME RunsInv, OutputsInv, NEW t \in Slots, task[t].pc \in Working
    PROVE  WriterOK(task[t]) /\ DOMAIN task[t] = TaskFields /\ TaskOK(task[t])
BY TaskFacts DEF OutputsInv, WritersOK, Working, Driving

LEMMA YieldOutputs ==
    ASSUME RunsInv, OutputsInv, NEW t \in Slots, NEW kind, NEW o \in Outs, Yield(t, kind, o)
    PROVE  OutputsInv'
<1> DEFINE k == task[t]
           id == IF k.out[o].id = None THEN DeliveryId(k.used, k.run.attempt, o)
                 ELSE k.out[o].id
           entry == Entry(kind, k.run, o, IF kind \in Outputs THEN id ELSE None, None)
           fails == [k EXCEPT !.pc = "settle", !.pend = "failed"]
           commits == [k EXCEPT !.pc = "commit", !.pend = entry,
                           !.used = IF kind \in Outputs THEN @ \cup {id} ELSE @,
                           !.out[o].id = IF kind \in Outputs THEN id ELSE @]
<1>1. /\ k.pc = "drive" /\ task[t].pc \in Working
      /\ kind \in Outputs => ~(k.resumed /\ o \in k.closed)
      /\ UNCHANGED <<runs, journal, inputRun, transcript, presented, intake>>
  BY DEF Yield, Working, Driving, durable
<1>2. WriterOK(k) /\ DOMAIN k = TaskFields
  BY <1>1, WriterNow
<1>3. task' = [task EXCEPT ![t] = fails] \/ task' = [task EXCEPT ![t] = commits]
  BY DEF Yield
<1>4. CASE task' = [task EXCEPT ![t] = fails]
  <2>1. PICK l : l = fails
    OBVIOUS
  <2>2. l.pc = "settle"
    BY <1>2, <2>1 DEF TaskFields
  <2>q. QED  BY <1>1, <1>4, <2>1, <2>2, TaskOutputs DEF Working, Driving
<1>5. CASE task' = [task EXCEPT ![t] = commits]
  <2>1. PICK l, used, ident : /\ l = [k EXCEPT !.pc = "commit", !.pend = entry, !.used = used,
                                              !.out[o].id = ident]
                              /\ task' = [task EXCEPT ![t] = l]
    BY <1>5
  <2>2. /\ entry.kind = kind /\ entry.out = o
        /\ entry.input = k.run.input /\ entry.attempt = k.run.attempt
    BY DEF Entry
  <2> HIDE DEF k, id, entry, fails, commits
  <2>3. /\ l.pc = "commit" /\ l.id = k.id /\ l.run = k.run /\ l.resumed = k.resumed
        /\ l.closed = k.closed /\ l.pend = entry
        /\ l.out = [k.out EXCEPT ![o].id = ident]
    BY <1>2, <2>1 DEF TaskFields
  <2>4. DOMAIN k.out = Outs /\ \A p \in Outs : DOMAIN k.out[p] = {"id", "text", "final"}
    BY <1>2 DEF WriterOK
  <2>5. DOMAIN l.out = Outs /\ \A p \in Outs : /\ DOMAIN l.out[p] = {"id", "text", "final"}
                                              /\ l.out[p].final = k.out[p].final
    BY <2>3, <2>4
  <2>6. PendOK(l)
    BY <1>1, <2>2, <2>3 DEF PendOK
  <2>7. Aware(k) => Aware(l)
    BY <2>3, <2>5 DEF Aware
  <2>8. WriterOK(l)
    BY <1>1, <1>2, <2>3, <2>5, <2>6, <2>7 DEF WriterOK, Driving
  <2>9. WriterOK(l)'
    BY <1>1, <2>8, WriterSame
  <2>q. QED  BY <1>1, <2>1, <2>3, <2>9, TaskOutputs
<1>q. QED  BY <1>3, <1>4, <1>5

\* The runtime itself makes the next event: no output, or an utterance of its own.
OwnEvent(t, kind, id) ==
    /\ task[t].pc \in {"drive", "utter"}
    /\ task' = [task EXCEPT ![t] = [task[t] EXCEPT
           !.pc = "commit", !.pend = Entry(kind, task[t].run, None, id, None)]]

LEMMA EventOutputs ==
    ASSUME RunsInv, OutputsInv, NEW t \in Slots, NEW kind, NEW id, OwnEvent(t, kind, id),
           UNCHANGED <<runs, journal, inputRun, transcript, presented, intake>>
    PROVE  OutputsInv'
<1>1. PICK k, e : k = task[t] /\ e = Entry(kind, task[t].run, None, id, None)
  OBVIOUS
<1>2. WriterOK(k) /\ DOMAIN k = TaskFields /\ k.pc \in {"drive", "utter"}
  BY <1>1, WriterNow DEF Working, Driving, OwnEvent
<1>3. e.kind = kind /\ e.out = None /\ e.input = k.run.input /\ e.attempt = k.run.attempt
  BY <1>1 DEF Entry
<1>4. PICK l : l = [k EXCEPT !.pc = "commit", !.pend = e] /\ task' = [task EXCEPT ![t] = l]
  BY <1>1 DEF OwnEvent
<1>5. /\ l.pc = "commit" /\ l.id = k.id /\ l.run = k.run /\ l.resumed = k.resumed
      /\ l.closed = k.closed /\ l.pend = e /\ l.out = k.out
  BY <1>2, <1>4 DEF TaskFields
<1>6. PendOK(l) /\ (Aware(k) => Aware(l))
  BY <1>3, <1>5 DEF PendOK, Aware
<1>7. WriterOK(l)
  BY <1>2, <1>5, <1>6 DEF WriterOK, Driving
<1>8. WriterOK(l)'
  BY <1>7, WriterSame
<1>q. QED  BY <1>4, <1>5, <1>8, TaskOutputs

\* An execution is on its way out.
LEMMA LeavingOutputs ==
    ASSUME RunsInv, OutputsInv, NEW t \in Slots, NEW l, task' = [task EXCEPT ![t] = l],
           l.pc \in {"free", "settle", "finish", "dead"},
           UNCHANGED <<runs, journal, inputRun, transcript, presented, intake>>
    PROVE  OutputsInv'
BY TaskOutputs DEF Working, Driving

LEMMA DriverOutputs ==
    ASSUME RunsInv, OutputsInv, NEW t \in Slots,
           DriverEnds(t) \/ DriverThrows(t) \/ SeesAbort(t) \/ Return(t) \/ Utter(t) \/ Settle(t)
    PROVE  OutputsInv'
<1>1. /\ UNCHANGED <<runs, journal, inputRun, transcript, presented, intake>>
      /\ task[t].pc \in {"drive", "commit", "utter", "record", "return", "settle"}
  BY DEF DriverEnds, DriverThrows, SeesAbort, Return, Utter, Settle, EndLost, durable
<1>2. DOMAIN task[t] = TaskFields
  BY <1>1, TaskFacts
<1>3. ASSUME NEW kind, NEW id, OwnEvent(t, kind, id) PROVE OutputsInv'
  BY <1>1, <1>3, EventOutputs
<1>4. ASSUME NEW l, task' = [task EXCEPT ![t] = l], l.pc \in {"free", "settle", "finish"}
      PROVE  OutputsInv'
  BY <1>1, <1>4, LeavingOutputs
<1>5. PICK k : k = task[t]
  OBVIOUS
<1>6. CASE DriverEnds(t)
  <2>1. PICK l : l = [k EXCEPT !.pc = "settle", !.pend = "failed"]
    OBVIOUS
  <2>2. task' = [task EXCEPT ![t] = l] \/ OwnEvent(t, "completed", None)
    BY <1>5, <1>6, <2>1 DEF DriverEnds, OwnEvent
  <2>3. l.pc = "settle"
    BY <1>2, <1>5, <2>1 DEF TaskFields
  <2>q. QED  BY <1>3, <1>4, <2>2, <2>3
<1>7. CASE DriverThrows(t) \/ SeesAbort(t) \/ Return(t)
  <2>1. task' = [task EXCEPT ![t] = Failing(k)] \/ task' = [task EXCEPT ![t] = FreeTask]
    BY <1>5, <1>7 DEF DriverThrows, SeesAbort, Return, EndTask
  <2>2. Failing(k).pc = "settle" /\ FreeTask.pc = "free"
    BY <1>2, <1>5, FailingFields DEF FreeTask
  <2>q. QED  BY <1>4, <2>1, <2>2
<1>8. CASE Utter(t)
  <2>1. PICK id : id = <<task[t].run.attempt, None, Len(journal[task[t].id])>>
    OBVIOUS
  <2>2. OwnEvent(t, "final", id)
    BY <1>8, <2>1 DEF Utter, OwnEvent
  <2>q. QED  BY <1>3, <2>2
<1>9. CASE Settle(t)
  <2>1. PICK rec : \/ task' = [task EXCEPT ![t] = FreeTask]
                   \/ task' = [task EXCEPT ![t] = [k EXCEPT !.pc = "finish", !.run = rec]]
    BY <1>5, <1>9 DEF Settle, EndLost, EndTask
  <2>2. [k EXCEPT !.pc = "finish", !.run = rec].pc = "finish" /\ FreeTask.pc = "free"
    BY <1>2, <1>5 DEF TaskFields, FreeTask
  <2>3. PICK l : l = [k EXCEPT !.pc = "finish", !.run = rec]
    OBVIOUS
  <2>q. QED  BY <1>4, <2>1, <2>2, <2>3
<1>q. QED  BY <1>6, <1>7, <1>8, <1>9

LEMMA StartOutputs ==
    ASSUME RunsInv, OutputsInv, NEW t \in Slots, Start(t)
    PROVE  OutputsInv'
<1>1. PICK k : k = task[t]
  OBVIOUS
<1>2. /\ WriterOK(k) /\ DOMAIN k = TaskFields /\ TaskOK(k) /\ k.pc = "wait"
      /\ UNCHANGED <<runs, journal, inputRun, presented, intake>>
  BY <1>1, WriterNow DEF Start, Working
<1>3. PICK events, closed, used, timer, pc, pend :
        /\ events = journal[k.id] /\ closed = ClosedRecovered(events, k.run)
        /\ used = Ids(events) /\ timer = k.run.deadline
        /\ pc = IF k.aborted = None /\ (k.run.deadline = 0 \/ clock < k.run.deadline)
                THEN "drive" ELSE "settle"
        /\ pend = IF k.aborted = None THEN "deadline_exceeded" ELSE "aborted"
  OBVIOUS
<1>4. PICK l : \/ /\ l = [k EXCEPT !.pc = "dead"]
                  /\ task' = [task EXCEPT ![t] = l] /\ transcript' = transcript
               \/ /\ l = [k EXCEPT !.closed = closed, !.used = used, !.timer = timer,
                                   !.pc = pc, !.pend = pend]
                  /\ task' = [task EXCEPT ![t] = l]
                  /\ transcript' = transcript \cup Recorded(events, k.id)
  BY <1>1, <1>3 DEF Start
<1>5. CASE /\ l = [k EXCEPT !.pc = "dead"]
           /\ task' = [task EXCEPT ![t] = l] /\ transcript' = transcript
  <2>1. l.pc = "dead"
    BY <1>2, <1>5 DEF TaskFields
  <2>q. QED  BY <1>2, <1>5, <2>1, LeavingOutputs
<1>6. CASE /\ l = [k EXCEPT !.closed = closed, !.used = used, !.timer = timer,
                            !.pc = pc, !.pend = pend]
           /\ task' = [task EXCEPT ![t] = l]
           /\ transcript' = transcript \cup Recorded(events, k.id)
  <2>1. /\ l.pc = pc /\ l.id = k.id /\ l.run = k.run /\ l.resumed = k.resumed
        /\ l.closed = closed /\ l.out = k.out
    BY <1>2, <1>6 DEF TaskFields
  <2>2. pc \in {"drive", "settle"}
    BY <1>3
  <2>3. k.id \in RunIds /\ k.run \in RunRecord /\ k.run.attempt \in Nat
    BY <1>2, RecordFields DEF TaskOK, Snapshot, Working
  <2>4. \A n \in DOMAIN events : events[n].attempt \in Nat
    BY <1>3, <2>3 DEF OutputsInv, JournalOK
  <2>5. Fresh(k.id, k.run) =>
          \/ k.resumed /\ \A n \in DOMAIN events : events[n].attempt < k.run.attempt
          \/ /\ \A n \in DOMAIN events : events[n].attempt <= k.run.attempt
             /\ \A n \in DOMAIN events : events[n].input # k.run.input
    BY <1>2, <1>3 DEF WriterOK, AttemptsBelow, AttemptsUpTo, NothingFor
  <2>6. Fresh(k.id, k.run) => \A n \in DOMAIN events : events[n].attempt <= k.run.attempt
    BY <2>3, <2>4, <2>5
  <2>7. ASSUME Fresh(k.id, k.run), NEW o \in Outs, Finals(events, k.run.input, o) # {}
        PROVE  k.resumed /\ o \in closed
    <3>1. PICK n \in DOMAIN events : /\ events[n].kind = "final" /\ events[n].out = o
                                     /\ events[n].input = k.run.input
      BY <2>7 DEF Finals
    <3>2. k.resumed /\ events[n].attempt < k.run.attempt
      BY <2>5, <2>7, <3>1
    <3>3. o \in ClosedRecovered(events, k.run)
      BY <3>1, <3>2 DEF ClosedRecovered
    <3>q. QED  BY <1>3, <3>2, <3>3
  <2>8. \A id \in ClosedIds(events) : \E e \in transcript' : e.id = <<k.id, id>>
    <3> SUFFICES ASSUME NEW id \in ClosedIds(events)
                 PROVE  \E e \in transcript' : e.id = <<k.id, id>>
      OBVIOUS
    <3>1. PICK e : e = [id |-> <<k.id, id>>, text |-> TextOf(events, id)]
      OBVIOUS
    <3>2. e \in Recorded(events, k.id)
      BY <3>1 DEF Recorded
    <3>q. QED  BY <1>6, <3>1, <3>2
  <2>9. journal'[l.id] = events /\ (Fresh(l.id, l.run)' <=> Fresh(k.id, k.run))
    BY <1>2, <1>3, <2>1 DEF Fresh
  <2>10. Fresh(l.id, l.run)' =>
           AttemptsUpTo(l.id, l.run.attempt)' /\ Aware(l)' /\ Noted(l.id)'
    BY <2>1, <2>6, <2>7, <2>8, <2>9 DEF AttemptsUpTo, Aware, Noted
  <2>11. WriterOK(l)'
    BY <1>2, <2>1, <2>2, <2>10 DEF WriterOK
  <2>q. QED  BY <1>2, <1>6, <2>1, <2>2, <2>11, TaskOutputs
<1>q. QED  BY <1>4, <1>5, <1>6

LEMMA TimerOutputs ==
    ASSUME RunsInv, OutputsInv, NEW t \in Slots, Timer(t)
    PROVE  OutputsInv'
<1>1. PICK l : l = [task[t] EXCEPT !.aborted = "deadline"] /\ task' = [task EXCEPT ![t] = l]
  BY DEF Timer
<1>2. Alike(task[t], l)
  BY <1>1 DEF Alike
<1>3. UNCHANGED <<runs, journal, inputRun, transcript, presented, intake>>
  BY DEF Timer, durable
<1>q. QED  BY <1>1, <1>2, <1>3, TaskOutputs

\* A new execution has the outputs of nobody yet.
LEMMA NewFields ==
    ASSUME NEW pc, NEW r, NEW rec, NEW wait, NEW resumed, NEW k,
           k = NewTask(pc, r, rec, wait, resumed)
    PROVE  /\ DOMAIN k = TaskFields
           /\ k.pc = pc /\ k.id = r /\ k.run = rec /\ k.resumed = resumed
           /\ DOMAIN k.out = Outs /\ \A o \in Outs : DOMAIN k.out[o] = {"id", "text", "final"}
<1>1. PICK out : out = [o \in Outs |-> [id |-> None, text |-> 0, final |-> FALSE]]
  OBVIOUS
<1>2. k.out = out /\ DOMAIN k = TaskFields /\ k.pc = pc /\ k.id = r /\ k.run = rec
      /\ k.resumed = resumed
  BY <1>1 DEF NewTask, TaskFields
<1>q. QED  BY <1>1, <1>2

LEMMA ResumeRunOutputs ==
    ASSUME RunsInv, OutputsInv, NEW t \in Slots, NEW r \in RunIds, ResumeRun(t, r)
    PROVE  OutputsInv'
<1>1. /\ Exists(r) /\ runs[r].status = "active"
      /\ UNCHANGED <<runs, journal, inputRun, transcript, presented, intake>>
  BY DEF ResumeRun, durable
<1>2. PICK l, rec : /\ task' = [task EXCEPT ![t] = l] /\ rec = runs[r]
                    /\ l = NewTask("resume", r, rec, 0, TRUE)
  BY DEF ResumeRun
<1>3. /\ l.pc = "resume" /\ l.id = r /\ l.run = rec /\ l.resumed = TRUE
      /\ DOMAIN l.out = Outs /\ \A o \in Outs : DOMAIN l.out[o] = {"id", "text", "final"}
  <2>1. PICK pc, wait, resumed : /\ pc = "resume" /\ wait = 0 /\ resumed = TRUE
                                 /\ l = NewTask(pc, r, rec, wait, resumed)
    BY <1>2
  <2>2. /\ l.pc = pc /\ l.id = r /\ l.run = rec /\ l.resumed = resumed
        /\ DOMAIN l.out = Outs /\ \A o \in Outs : DOMAIN l.out[o] = {"id", "text", "final"}
    <3>1. l = NewTask(pc, r, rec, wait, resumed)
      BY <2>1
    <3>q. QED  BY ONLY <3>1, NewFields
  <2>q. QED  BY <2>1, <2>2
<1>4. AttemptsUpTo(r, rec.attempt)
  BY <1>1, <1>2 DEF OutputsInv, AttemptsOK, Open
<1>5. WriterOK(l)
  BY <1>3, <1>4 DEF WriterOK, Driving
<1>6. WriterOK(l)'
  BY <1>1, <1>5, WriterSame
<1>q. QED  BY <1>1, <1>2, <1>3, <1>6, TaskOutputs

\* A step that leaves the store alone, aborts executions, ends them or moves the lane on.
LEMMA StillOutputs ==
    ASSUME RunsInv, OutputsInv, UNCHANGED <<runs, journal, inputRun, transcript, presented>>,
           \A t \in Slots : Alike(task[t], task'[t]) \/ task'[t].pc \notin Working,
           intake' = intake \/ intake'.pc # "handoff"
    PROVE  OutputsInv'
<1>1. Stored' /\ Moves
  BY UnchangedRuns DEF RunsInv
<1>2. \A t \in Slots :
        \/ Alike(task[t], task'[t])
        \/ task'[t].pc # "record" /\ (task'[t].pc \in Working => WriterOK(task[t])')
  BY DEF Working, Driving
<1>3. intake' = intake \/ HandoffOK'
  BY DEF HandoffOK
<1>q. QED  BY <1>1, <1>2, <1>3, QuietOutputs

LEMMA TakeChannelOutputs ==
    ASSUME RunsInv, OutputsInv, NEW t \in Slots, TakeChannel(t)
    PROVE  OutputsInv'
<1>1. PICK k : k = task[t]
  OBVIOUS
<1>2. /\ WriterOK(k) /\ DOMAIN k = TaskFields /\ TaskOK(k) /\ k.pc = "resume"
      /\ UNCHANGED <<runs, journal, inputRun, transcript, presented, intake>>
  BY <1>1, WriterNow DEF TakeChannel, Working, durable
<1>0. CASE task' = [AbortAll(task, {active}, "resumed") EXCEPT ![t] = FreeTask]
  <2>1. PICK l : l = FreeTask
    OBVIOUS
  <2>2. task'[t] = l /\ \A u \in Slots \ {t} : Alike(task[u], task'[u])
    BY <1>0, <2>1, ReplacedAlike
  <2>3. \A u \in Slots : Alike(task[u], task'[u]) \/ task'[u].pc \notin Working
    BY <2>1, <2>2 DEF FreeTask, Working, Driving
  <2>q. QED  BY <1>2, <2>3, StillOutputs
<1> SUFFICES ASSUME task' = [AbortAll(task, {active} \cap Slots, "resumed") EXCEPT ![t] =
                        [k EXCEPT !.pc = "save", !.run.attempt = @ + 1]]
             PROVE  OutputsInv'
  BY <1>0, <1>1 DEF TakeChannel
<1>3. PICK l, rec, which : /\ rec = [k.run EXCEPT !.attempt = @ + 1]
                           /\ l = [k EXCEPT !.pc = "save", !.run = rec]
                           /\ task' = [AbortAll(task, which, "resumed") EXCEPT ![t] = l]
  OBVIOUS
<1>4. task'[t] = l /\ \A u \in Slots \ {t} : Alike(task[u], task'[u])
  <2>1. PICK f : f = AbortAll(task, which, "resumed") /\ task' = [f EXCEPT ![t] = l]
    BY <1>3
  <2>2. DOMAIN f = Slots /\ \A u \in Slots : Alike(task[u], f[u])
    BY <2>1, AbortAllAlike DEF AbortAll
  <2>q. QED  BY <2>1, <2>2
<1>5. /\ k.id \in RunIds /\ k.run \in RunRecord /\ k.run.attempt \in Nat
  BY <1>2, RecordFields DEF TaskOK, Snapshot, Working
<1>6. rec.attempt = k.run.attempt + 1 /\ rec.seq = k.run.seq
  BY <1>3, <1>5 DEF RunRecord
<1>7. /\ l.pc = "save" /\ l.id = k.id /\ l.run = rec /\ l.resumed = k.resumed
      /\ l.out = k.out
  BY <1>2, <1>3 DEF TaskFields
<1>8. Fresh(k.id, rec) => AttemptsBelow(k.id, rec.attempt)
  <2> SUFFICES ASSUME Fresh(k.id, rec), NEW j \in DOMAIN journal[k.id]
               PROVE  journal[k.id][j].attempt < rec.attempt
    BY DEF AttemptsBelow
  <2>1. journal[k.id][j].attempt <= k.run.attempt
    BY <1>2, <1>6 DEF WriterOK, Fresh, AttemptsUpTo
  <2>2. journal[k.id][j].attempt \in Nat
    BY <1>5 DEF OutputsInv, JournalOK
  <2>q. QED  BY <1>5, <1>6, <2>1, <2>2
<1>9. WriterOK(l)
  BY <1>2, <1>7, <1>8 DEF WriterOK, Driving
<1>10. WriterOK(l)' /\ Stored' /\ Moves
  BY <1>2, <1>9, WriterSame, UnchangedRuns DEF RunsInv
<1>11. WriterOK(task[t])'
  BY <1>4, <1>10 DEF WriterOK, PendOK, Aware
<1>12. \A u \in Slots :
         \/ Alike(task[u], task'[u])
         \/ task'[u].pc # "record" /\ (task'[u].pc \in Working => WriterOK(task[u])')
  BY <1>4, <1>7, <1>11
<1>q. QED  BY <1>2, <1>10, <1>12, QuietOutputs

LEMMA SaveRunOutputs ==
    ASSUME RunsInv, OutputsInv, NEW t \in Slots, SaveRun(t)
    PROVE  OutputsInv'
<1>1. PICK k, r, rec : k = task[t] /\ r = k.id /\ rec = k.run
  OBVIOUS
<1>2. /\ WriterOK(k) /\ DOMAIN k = TaskFields /\ TaskOK(k) /\ k.pc = "save"
      /\ Snapshot(r, rec) /\ rec.status = "active"
      /\ UNCHANGED <<journal, inputRun, transcript, presented, intake>>
  <2>1. WriterOK(k) /\ DOMAIN k = TaskFields /\ TaskOK(k) /\ k.pc = "save"
    BY <1>1, WriterNow DEF SaveRun, Working
  <2>q. QED  BY <1>1, <2>1 DEF TaskOK, Working, SaveRun
<1>3. CASE task' = [task EXCEPT ![t] = FreeTask] /\ UNCHANGED runs
  <2>1. PICK l : l = FreeTask
    OBVIOUS
  <2>q. QED  BY <1>2, <1>3, <2>1, LeavingOutputs DEF FreeTask
<1>4. CASE /\ Acquirable(runs[r], rec)
           /\ runs' = [runs EXCEPT ![r] = rec]
           /\ task' = [task EXCEPT ![t].pc = "wait"]
  <2>1. /\ Stored' /\ Moves
        /\ runs'[r] = rec /\ \A s \in RunIds \ {r} : runs'[s] = runs[s]
    BY <1>2, <1>4, AcquiredKeeps DEF RunsInv
  <2>2. r \in RunIds /\ Fresh(r, rec) /\ rec \in RunRecord /\ rec.attempt \in Nat
    BY <1>2, <1>4, RecordFields DEF Acquirable, Fresh, Snapshot
  <2>3. AttemptsBelow(r, rec.attempt) /\ k.resumed
    BY <1>1, <1>2, <2>2 DEF WriterOK
  <2>4. \A j \in DOMAIN journal[r] : journal[r][j].attempt \in Nat
    BY <2>2 DEF OutputsInv, JournalOK
  <2>5. AttemptsUpTo(r, rec.attempt)
    BY <2>2, <2>3, <2>4 DEF AttemptsBelow, AttemptsUpTo
  <2>6. \A s \in RunIds : \/ runs'[s] = runs[s]
                          \/ runs'[s].status = "active" /\ AttemptsUpTo(s, runs'[s].attempt)
    BY <1>2, <2>1, <2>5
  <2>7. PICK l : l = [k EXCEPT !.pc = "wait"] /\ task' = [task EXCEPT ![t] = l]
    BY <1>1, <1>4
  <2>8. /\ l.pc = "wait" /\ l.id = r /\ l.run = rec /\ l.resumed = k.resumed
        /\ l.out = k.out
    BY <1>1, <1>2, <2>7 DEF TaskFields
  <2>9. AttemptsBelow(r, rec.attempt)'
    BY <1>2, <2>3 DEF AttemptsBelow
  <2>10. WriterOK(l)'
    BY <1>2, <2>3, <2>8, <2>9 DEF WriterOK, Driving
  <2>11. task'[t] = l /\ \A u \in Slots \ {t} : task'[u] = task[u]
    BY <2>7 DEF RunsInv, Typed
  <2>12. WriterOK(task[t])' /\ \A u \in Slots \ {t} : Alike(task[u], task'[u])
    BY <2>10, <2>11 DEF WriterOK, PendOK, Aware, Alike
  <2>13. \A u \in Slots :
           \/ Alike(task[u], task'[u])
           \/ task'[u].pc # "record" /\ (task'[u].pc \in Working => WriterOK(task[u])')
    BY <2>8, <2>11, <2>12
  <2>q. QED  BY <1>2, <2>1, <2>6, <2>13, QuietOutputs
<1>5. CASE task' = [task EXCEPT ![t].pc = "dead"] /\ UNCHANGED runs
  <2>1. PICK l : l = [k EXCEPT !.pc = "dead"] /\ task' = [task EXCEPT ![t] = l]
    BY <1>1, <1>5
  <2>2. l.pc = "dead"
    BY <1>2, <2>1 DEF TaskFields
  <2>q. QED  BY <1>2, <1>5, <2>1, <2>2, LeavingOutputs
<1>q. QED  BY <1>1, <1>3, <1>4, <1>5 DEF SaveRun, EndTask

LEMMA RecordOutputOutputs ==
    ASSUME RunsInv, OutputsInv, NEW t \in Slots, RecordOutput(t)
    PROVE  OutputsInv'
<1>1. PICK k, r, id, o, key :
        /\ k = task[t] /\ r = k.id /\ id = k.pend.id /\ o = k.pend.out
        /\ key = <<k.id, k.run.input, k.pend.out>>
  OBVIOUS
<1>2. /\ WriterOK(k) /\ DOMAIN k = TaskFields /\ TaskOK(k) /\ k.pc = "record"
      /\ UNCHANGED <<runs, journal, inputRun, intake>>
  BY <1>1, WriterNow DEF RecordOutput, Working, Driving
<1>3. CASE task' = [task EXCEPT ![t] = Failing(k)] /\ UNCHANGED <<transcript, presented>>
  <2>1. PICK l : l = Failing(k)
    OBVIOUS
  <2>q. QED  BY <1>2, <1>3, <2>1, FailingFields, LeavingOutputs
<1>4. CASE /\ \E text : transcript' = transcript \cup {[id |-> <<r, id>>, text |-> text]}
           /\ task' = [task EXCEPT ![t] = [k EXCEPT !.pc = "drive"]]
           /\ \/ presented' = presented
              \/ o # None /\ presented' = [presented EXCEPT ![key] = @ + 1]
  <2>1. PICK l, entry : /\ l = [k EXCEPT !.pc = "drive"] /\ task' = [task EXCEPT ![t] = l]
                        /\ entry.id = <<r, id>> /\ transcript' = transcript \cup {entry}
    BY <1>4
  <2>2. /\ l.pc = "drive" /\ l.id = r /\ l.run = k.run /\ l.resumed = k.resumed
        /\ l.closed = k.closed /\ l.out = k.out
    BY <1>1, <1>2, <2>1 DEF TaskFields
  <2>3. NotedBut(r, id) => Noted(r)'
    BY <1>2, <2>1 DEF NotedBut, Noted
  <2>4. (Aware(k) => Aware(l)') /\ (Fresh(l.id, l.run)' => Fresh(r, k.run))
        /\ (AttemptsUpTo(r, k.run.attempt) => AttemptsUpTo(l.id, l.run.attempt)')
    BY <1>1, <1>2, <2>2 DEF Aware, Fresh, AttemptsUpTo
  <2>5. Fresh(r, k.run) => AttemptsUpTo(r, k.run.attempt) /\ Aware(k) /\ NotedBut(r, id)
    BY <1>1, <1>2 DEF WriterOK, Driving
  <2>6. WriterOK(l)'
    BY <1>2, <2>2, <2>3, <2>4, <2>5 DEF WriterOK, Driving
  <2>7. transcript \subseteq transcript'
    BY <2>1
  <2>8. CASE presented' = presented
    BY <1>2, <2>1, <2>2, <2>6, <2>7, <2>8, TaskOutputs
  <2>9. CASE o # None /\ presented' = [presented EXCEPT ![key] = @ + 1]
    <3>1. task'[t] = l /\ \A u \in Slots \ {t} : task'[u] = task[u]
      BY <2>1 DEF RunsInv, Typed
    <3>2. WriterOK(task[t])' /\ \A u \in Slots \ {t} : Alike(task[u], task'[u])
      BY <2>6, <3>1 DEF WriterOK, PendOK, Aware, Alike
    <3>3. \A u \in Slots :
             \/ Alike(task[u], task'[u])
             \/ task'[u].pc # "record" /\ (task'[u].pc \in Working => WriterOK(task[u])')
      BY <2>2, <3>1, <3>2
    <3>4. Stored' /\ Moves
      BY <1>2, UnchangedRuns DEF RunsInv
    <3>5. JournalOK' /\ FinalsStay /\ AttemptsOK' /\ RecordedOutputs' /\ WritersOK' /\ HandoffOK'
      BY <1>2, <2>7, <3>3, <3>4, QuietStore
    <3>6. Speaking(t) /\ KeyOf(task[t]) = key
      BY <1>1, <1>2, <2>9 DEF Speaking, KeyOf
    <3>7. /\ presented[key] = 0 /\ Finals(journal[r], k.run.input, o) # {}
          /\ \A u \in Slots : Speaking(u) /\ KeyOf(task[u]) = key => u = t
      BY <1>1, <3>6 DEF OutputsInv, SpeakersOK
    <3>8. r \in RunIds /\ k.run.input \in Inputs /\ o \in Outs
      <4>1. k.run \in RunRecord /\ r \in RunIds /\ o \in Outs
        BY <1>1, <1>2, <2>9 DEF TaskOK, Working, Driving, Snapshot, WriterOK, PendOK
      <4>q. QED  BY <4>1, RecordFields
    <3>9. /\ DOMAIN presented = RunIds \X Inputs \X Outs /\ key \in DOMAIN presented
          /\ presented'[key] = 1 /\ DOMAIN presented' = DOMAIN presented
          /\ \A other : other # key => presented'[other] = presented[other]
      BY <1>1, <2>9, <3>7, <3>8 DEF OutputsInv, PresentedOK
    <3>10. PresentedOK'
      <4> SUFFICES ASSUME NEW s \in RunIds, NEW i \in Inputs, NEW p \in Outs
                   PROVE  /\ presented'[<<s, i, p>>] \in {0, 1}
                          /\ presented'[<<s, i, p>>] = 1 => Finals(journal[s], i, p) # {}
        BY <1>2, <3>9 DEF PresentedOK
      <4>1. CASE <<s, i, p>> = key
        <5>1. s = r /\ i = k.run.input /\ p = o
          BY <1>1, <4>1
        <5>q. QED  BY <3>7, <3>9, <4>1, <5>1
      <4>2. CASE <<s, i, p>> # key
        BY <3>9, <4>2 DEF OutputsInv, PresentedOK
      <4>q. QED  BY <4>1, <4>2
    <3>11. \A u \in Slots : Speaking(u)' => Speaking(u) /\ u # t /\ KeyOf(task'[u]) = KeyOf(task[u])
      BY <2>2, <3>1 DEF Speaking, KeyOf
    <3>12. SpeakersOK'
      <4>1. ASSUME NEW u \in Slots, Speaking(u)'
            PROVE  /\ presented'[KeyOf(task'[u])] = 0
                   /\ Finals(journal'[task'[u].id], task'[u].run.input, task'[u].pend.out) # {}
        <5>1. Speaking(u) /\ u # t /\ task'[u] = task[u] /\ KeyOf(task[u]) # key
          BY <3>1, <3>7, <3>11, <4>1
        <5>2. /\ presented[KeyOf(task[u])] = 0
              /\ Finals(journal[task[u].id], task[u].run.input, task[u].pend.out) # {}
          BY <5>1 DEF OutputsInv, SpeakersOK
        <5>q. QED  BY <1>2, <3>9, <5>1, <5>2
      <4>2. ASSUME NEW u \in Slots, Speaking(u)', NEW v \in Slots, Speaking(v)',
                   KeyOf(task'[v]) = KeyOf(task'[u])
            PROVE  v = u
        BY <3>11, <4>2 DEF OutputsInv, SpeakersOK
      <4>q. QED  BY <4>1, <4>2 DEF SpeakersOK, KeyOf
    <3>q. QED  BY <3>5, <3>10, <3>12 DEF OutputsInv
  <2>q. QED  BY <1>4, <2>8, <2>9
<1>5. \/ task' = [task EXCEPT ![t] = Failing(k)] /\ UNCHANGED <<transcript, presented>>
      \/ /\ \E text : transcript' = transcript \cup {[id |-> <<r, id>>, text |-> text]}
         /\ task' = [task EXCEPT ![t] = [k EXCEPT !.pc = "drive"]]
         /\ \/ presented' = presented
            \/ o # None /\ presented' = [presented EXCEPT ![key] = @ + 1]
  BY <1>1 DEF RecordOutput
<1>q. QED  BY <1>3, <1>4, <1>5

LEMMA FinishOutputs ==
    ASSUME RunsInv, OutputsInv, NEW t \in Slots, Finish(t)
    PROVE  OutputsInv'
<1> DEFINE status == CASE task[t].pend # "aborted" -> task[t].pend
                       [] task[t].aborted = "deadline" -> "deadline_exceeded"
                       [] OTHER -> "canceled"
           reason == IF status = "canceled" THEN task[t].aborted ELSE None
<1>1. PICK k, r, rec, st, why : /\ k = task[t] /\ r = k.id /\ rec = k.run
                                /\ st = status /\ why = reason
  OBVIOUS
<1>2. /\ TaskOK(k) /\ k.pc = "finish" /\ k.pend \in Failures /\ Snapshot(r, rec)
      /\ intake' = intake /\ presented' = presented /\ task' = [task EXCEPT ![t] = FreeTask]
      /\ DOMAIN task = Slots
  <2>1. TaskOK(k) /\ k.pc = "finish" /\ DOMAIN task = Slots
    BY <1>1, TaskFacts DEF Finish
  <2>q. QED  BY <1>1, <2>1 DEF TaskOK, Finish, EndLost, EndTask
<1>3. PICK l : l = FreeTask /\ l.pc = "free" /\ task' = [task EXCEPT ![t] = l]
  BY <1>2 DEF FreeTask
<1>4. CASE UNCHANGED durable
  BY <1>2, <1>3, <1>4, LeavingOutputs DEF durable
<1>5. CASE Fresh(r, rec) /\ Closed(r, rec, st, why)
  <2>1. st \in Terminal \ {"completed"}
    BY <1>1, <1>2 DEF Failures, Terminal
  <2>2. task'[t] = l /\ \A u \in Slots \ {t} : task'[u] = task[u]
    BY <1>2, <1>3
  <2>3. \A u \in Slots : Alike(task[u], task'[u]) \/ task'[u].pc \notin Working
    BY <1>3, <2>2 DEF Alike, Working, Driving
  <2> HIDE DEF status, reason
  <2>q. QED  BY <1>2, <1>5, <2>1, <2>3, ClosingOutputs
<1>q. QED  BY <1>1, <1>4, <1>5 DEF Finish, EndLost

LEMMA AttemptsAppend ==
    ASSUME NEW events, Listed(events), NEW e, NEW a,
           \A n \in DOMAIN events : events[n].attempt <= a, e.attempt <= a
    PROVE  \A n \in DOMAIN Append(events, e) : Append(events, e)[n].attempt <= a
<1>1. /\ Len(events) \in Nat /\ DOMAIN events = 1..Len(events)
      /\ DOMAIN Append(events, e) = 1..(Len(events) + 1)
      /\ \A j \in 1..Len(events) : Append(events, e)[j] = events[j]
      /\ Append(events, e)[Len(events) + 1] = e
  BY JournalAppend
<1> SUFFICES ASSUME NEW n \in DOMAIN Append(events, e)
             PROVE  Append(events, e)[n].attempt <= a
  OBVIOUS
<1>2. n \in 1..Len(events) \/ n = Len(events) + 1
  BY <1>1
<1>q. QED  BY <1>1, <1>2

\* What an execution knows of the outputs once its event is committed.
Learned(k, out) ==
    /\ DOMAIN out = Outs
    /\ \A p \in Outs : /\ DOMAIN out[p] = {"id", "text", "final"}
                       /\ k.out[p].final => out[p].final
                       /\ k.pend.kind = "final" /\ k.pend.out = p => out[p].final

\* An output that is yielded again after it was closed is an error.
Repeats(k) == k.pend.kind \in Outputs /\ k.pend.out # None /\ k.out[k.pend.out].final

LEMMA OutLearned ==
    ASSUME NEW k, WriterOK(k), PendOK(k), ~Repeats(k), NEW out,
           out = IF k.pend.kind \in Outputs /\ k.pend.out # None
                 THEN [k.out EXCEPT ![k.pend.out].text = @ + 1,
                                    ![k.pend.out].final = (k.pend.kind = "final")]
                 ELSE k.out
    PROVE  Learned(k, out)
<1>1. /\ DOMAIN k.out = Outs /\ \A p \in Outs : DOMAIN k.out[p] = {"id", "text", "final"}
      /\ k.pend.out \in Outs \cup {None}
  BY DEF WriterOK, PendOK
<1>2. CASE k.pend.kind \in Outputs /\ k.pend.out # None
  <2>1. PICK o, final, text :
          /\ o = k.pend.out /\ final = (k.pend.kind = "final") /\ text = k.out[o].text + 1
    OBVIOUS
  <2>2. o \in Outs /\ out = [k.out EXCEPT ![o].text = text, ![o].final = final]
    BY <1>1, <1>2, <2>1
  <2>3. DOMAIN out = Outs /\ \A p \in Outs \ {o} : out[p] = k.out[p]
    BY <1>1, <2>2
  <2>4. DOMAIN out[o] = {"id", "text", "final"} /\ out[o].final = final
    BY <1>1, <2>2
  <2>5. k.pend.kind = "final" => out[o].final
    BY <2>1, <2>4
  <2>6. ~k.out[o].final
    BY <1>2, <2>1 DEF Repeats
  <2>q. QED  BY <1>1, <2>1, <2>2, <2>3, <2>4, <2>5, <2>6 DEF Learned
<1>3. CASE ~(k.pend.kind \in Outputs /\ k.pend.out # None)
  <2>1. out = k.out /\ (k.pend.kind = "final" => k.pend.out = None)
    BY <1>3 DEF Outputs
  <2>2. \A p \in Outs : p # None
    BY RoomRunsAssumption
  <2>q. QED  BY <1>1, <2>1, <2>2 DEF Learned
<1>q. QED  BY <1>2, <1>3

\* An event is committed: what the execution then knows.
LEMMA CommittedWriter ==
    ASSUME RunsInv, OutputsInv, Stored', NEW r, NEW rec, NEW next0, NEW e, NEW k, NEW l,
           r = k.id, rec = k.run, e = k.pend,
           Snapshot(r, rec), WriterOK(k), k.pc = "commit", Fresh(r, rec),
           AppendedRun(r, rec, next0, e),
           NEW out0, Learned(k, out0),
           l.pc \in {"record", "utter", "drive"}, l.pc # "record" => e.kind # "final",
           l.id = r, l.run = runs'[r], l.out = out0, l.pend = e,
           l.resumed = k.resumed, l.closed = k.closed
    PROVE  WriterOK(l)'
<1>1. /\ AttemptsUpTo(r, rec.attempt) /\ Aware(k) /\ Noted(r) /\ PendOK(k)
      /\ k.resumed \in BOOLEAN
  BY DEF WriterOK, Driving
<1>2. /\ r \in RunIds /\ Listed(journal[r]) /\ journal'[r] = Append(journal[r], e)
      /\ l.run.attempt = rec.attempt /\ l.run.input = rec.input /\ transcript' = transcript
  BY DEF AppendedRun, RunsInv, Stored, RunOK
<1>3. rec.attempt \in Nat /\ e.attempt = rec.attempt /\ e.input = rec.input
  BY <1>1, RecordFields DEF Snapshot, PendOK
<1>4. AttemptsUpTo(l.id, l.run.attempt)'
  BY <1>1, <1>2, <1>3, AttemptsAppend DEF AttemptsUpTo
<1>5. ClosedIds(journal'[r]) \subseteq
          ClosedIds(journal[r]) \cup (IF e.kind = "final" THEN {e.id} ELSE {})
  BY <1>2, ClosedAppend
<1>6. l.pc # "record" => Noted(l.id)'
  BY <1>1, <1>2, <1>5 DEF Noted
<1>7. NotedBut(l.id, l.pend.id)'
  BY <1>1, <1>2, <1>5 DEF Noted, NotedBut
<1>8. Aware(l)'
  <2> SUFFICES ASSUME NEW p \in Outs, Finals(journal'[r], rec.input, p) # {}
               PROVE  (k.resumed /\ p \in k.closed) \/ out0[p].final
    BY <1>2 DEF Aware
  <2>1. \/ Finals(journal[r], rec.input, p) # {}
        \/ e.kind = "final" /\ e.out = p
    BY <1>2, FinalsAppend
  <2>2. Finals(journal[r], rec.input, p) # {} => (k.resumed /\ p \in k.closed) \/ k.out[p].final
    BY <1>1 DEF Aware
  <2>q. QED  BY <2>1, <2>2 DEF Learned
<1>9. PendOK(l)
  BY <1>1, <1>2 DEF PendOK
<1>10. DOMAIN l.out = Outs /\ \A p \in Outs : DOMAIN l.out[p] = {"id", "text", "final"}
  BY DEF Learned
<1>q. QED  BY <1>1, <1>4, <1>6, <1>7, <1>8, <1>9, <1>10 DEF WriterOK, PendOK, Driving

LEMMA SpeakerStays ==
    ASSUME RunsInv, OutputsInv, FinalsStay, presented' = presented,
           NEW u \in Slots, Speaking(u), task'[u] = task[u]
    PROVE  /\ presented'[KeyOf(task'[u])] = 0
           /\ Finals(journal'[task'[u].id], task'[u].run.input, task'[u].pend.out) # {}
<1>1. PICK k, r, i, o : k = task[u] /\ r = k.id /\ i = k.run.input /\ o = k.pend.out
  OBVIOUS
<1>2. k.pc = "record" /\ TaskOK(k)
  BY <1>1 DEF Speaking, RunsInv
<1>3. r \in RunIds /\ k.run \in RunRecord
  BY <1>1, <1>2 DEF TaskOK, Working, Driving, Snapshot
<1>4. i \in Inputs
  BY <1>1, <1>3, RecordFields
<1>5. Finals(journal[r], i, o) # {} /\ presented[KeyOf(k)] = 0
  BY <1>1 DEF OutputsInv, SpeakersOK
<1>6. Finals(journal'[r], i, o) # {}
  BY <1>3, <1>4, <1>5 DEF FinalsStay
<1>q. QED  BY <1>1, <1>5, <1>6

\* Nobody is about to speak an output that has no closing entry yet.
LEMMA NewlyClosed ==
    ASSUME OutputsInv, NEW r \in RunIds, NEW k, r = k.id, WriterOK(k), k.pc = "commit",
           Fresh(r, k.run), k.run.input \in Inputs, ~Repeats(k),
           k.pend.kind = "final", k.pend.out # None
    PROVE  /\ presented[KeyOf(k)] = 0
           /\ \A u \in Slots : Speaking(u) => KeyOf(task[u]) # KeyOf(k)
<1>1. PICK i, o : i = k.run.input /\ o = k.pend.out /\ KeyOf(k) = <<r, i, o>>
  BY DEF KeyOf
<1>2. o \in Outs /\ ~(k.resumed /\ o \in k.closed) /\ ~k.out[o].final
  BY <1>1 DEF WriterOK, PendOK, Repeats, Outputs
<1>3. Finals(journal[r], i, o) = {}
  BY <1>1, <1>2 DEF WriterOK, Driving, Aware
<1>4. presented[<<r, i, o>>] = 0
  BY <1>1, <1>2, <1>3 DEF OutputsInv, PresentedOK
<1>5. ASSUME NEW u \in Slots, Speaking(u), KeyOf(task[u]) = KeyOf(k) PROVE FALSE
  <2>1. task[u].id = r /\ task[u].run.input = i /\ task[u].pend.out = o
    BY <1>1, <1>5 DEF KeyOf
  <2>q. QED  BY <1>3, <1>5, <2>1 DEF OutputsInv, SpeakersOK
<1>q. QED  BY <1>1, <1>4, <1>5

LEMMA CommitEventOutputs ==
    ASSUME RunsInv, OutputsInv, NEW t \in Slots, CommitEvent(t)
    PROVE  OutputsInv'
<1> DEFINE settled == [Transition(task[t]) EXCEPT !.seq = Len(journal[task[t].id]) + 1]
           out(k) == IF k.pend.kind \in Outputs /\ k.pend.out # None
                     THEN [k.out EXCEPT ![k.pend.out].text = @ + 1,
                                        ![k.pend.out].final = (k.pend.kind = "final")]
                     ELSE k.out
           next(k) == CASE k.pend.kind = "final" -> "record"
                        [] k.pend.kind = "decision" -> "utter"
                        [] k.pend.kind \in {"completed", "input_requested"} -> "return"
                        [] OTHER -> "drive"
<1>1. PICK k, r, rec, e, next0, after, out0, next1 :
        /\ k = task[t] /\ r = k.id /\ rec = k.run /\ e = k.pend /\ next0 = Transition(k)
        /\ after = settled /\ out0 = out(k) /\ next1 = next(k)
  OBVIOUS
<1>2. /\ WriterOK(k) /\ PendOK(k) /\ DOMAIN k = TaskFields /\ TaskOK(k) /\ k.pc = "commit"
      /\ Snapshot(r, rec) /\ rec.status = "active" /\ r \in RunIds
      /\ UNCHANGED <<intake, presented>> /\ DOMAIN task = Slots
  <2>1. WriterOK(k) /\ DOMAIN k = TaskFields /\ TaskOK(k) /\ k.pc = "commit"
    BY <1>1, WriterNow DEF CommitEvent, Working, Driving
  <2>q. QED  BY <1>1, <2>1 DEF TaskOK, WriterOK, Working, Driving, CommitEvent, Snapshot,
                               RunsInv, Typed
<1>3. \/ task' = [task EXCEPT ![t] = Failing(k)] /\ UNCHANGED durable
      \/ /\ Fresh(r, rec) /\ Appended(r, next0, e)
         /\ \/ task' = [task EXCEPT ![t] = Failing([k EXCEPT !.run = after])]
            \/ /\ ~Repeats(k)
               /\ task' = [task EXCEPT ![t] = [k EXCEPT !.run = after, !.out = out0, !.pc = next1]]
  BY <1>1 DEF CommitEvent, Transition, Repeats
<1>4. CASE task' = [task EXCEPT ![t] = Failing(k)] /\ UNCHANGED durable
  <2>1. PICK l : l = Failing(k)
    OBVIOUS
  <2>q. QED  BY <1>2, <1>4, <2>1, FailingFields, LeavingOutputs DEF durable
<1>5. CASE /\ Fresh(r, rec) /\ Appended(r, next0, e)
           /\ \/ task' = [task EXCEPT ![t] = Failing([k EXCEPT !.run = after])]
              \/ /\ ~Repeats(k)
                 /\ task' = [task EXCEPT ![t] = [k EXCEPT !.run = after, !.out = out0, !.pc = next1]]
  <2>1. AppendedFrom(r, rec, next0, e)
    <3>1. /\ next0 \in RunRecord
          /\ next0.input = rec.input /\ next0.root = rec.root /\ next0.attempt = rec.attempt
          /\ next0.status = "waiting_for_input" => next0.attempt < MaxAttempt
      BY <1>1, <1>2, TransitionOK
    <3>q. QED  BY <1>2, <1>5, <3>1 DEF AppendedFrom
  <2>2. Stored' /\ Moves /\ AppendedRun(r, rec, next0, e)
    BY <2>1, AppendedKeeps, AppendedGives DEF RunsInv
  <2>3. after = runs'[r]
    BY <1>1, <2>2 DEF AppendedRun
  <2>4. e.input = rec.input /\ e.attempt = rec.attempt /\ rec.attempt \in Nat /\ rec.input \in Inputs
    BY <1>1, <1>2, RecordFields DEF PendOK, Snapshot
  <2>5. JournalOK' /\ FinalsStay
    BY <1>2, <2>2, <2>4, JournalAppended DEF RunsInv, OutputsInv
  <2>6. /\ runs'[r].attempt = rec.attempt /\ runs'[r].input = rec.input
        /\ runs'[r].status = next0.status
        /\ \A s \in RunIds \ {r} : runs'[s] = runs[s] /\ journal'[s] = journal[s]
        /\ transcript' = transcript
        /\ journal'[r] = Append(journal[r], e) /\ Listed(journal[r])
    BY <1>2, <2>2 DEF AppendedRun, RunsInv, Stored, RunOK
  <2>7. AttemptsUpTo(r, rec.attempt) /\ Noted(r)
    BY <1>1, <1>2, <1>5 DEF WriterOK, Driving
  <2>8. AttemptsOK'
    <3>1. AttemptsUpTo(r, rec.attempt)'
      BY <2>4, <2>6, <2>7, AttemptsAppend DEF AttemptsUpTo
    <3> SUFFICES ASSUME NEW s \in RunIds, Exists(s)', runs'[s].status \in Open
                 PROVE  AttemptsUpTo(s, runs[s].attempt)'
      BY DEF AttemptsOK
    <3>2. CASE s = r
      BY <2>6, <3>1, <3>2 DEF AttemptsUpTo
    <3>3. CASE s # r
      BY <2>6, <3>3 DEF OutputsInv, AttemptsOK, AttemptsUpTo, Exists
    <3>q. QED  BY <3>2, <3>3
  <2>9. RecordedOutputs'
    <3> SUFFICES ASSUME NEW s \in RunIds, Exists(s)',
                        runs'[s].status \in {"completed", "waiting_for_input"},
                        NEW id \in ClosedIds(journal'[s])
                 PROVE  \E x \in transcript' : x.id = <<s, id>>
      BY DEF RecordedOutputs
    <3>1. CASE s = r
      <4>1. e.kind \in {"completed", "input_requested"}
        BY <1>1, <1>2, <2>6, <3>1, TransitionOK
      <4>2. id \in ClosedIds(journal[r])
        BY <2>6, <3>1, <4>1, ClosedAppend
      <4>q. QED  BY <2>6, <2>7, <3>1, <4>2 DEF Noted
    <3>2. CASE s # r
      BY <2>6, <3>2 DEF OutputsInv, RecordedOutputs, Exists
    <3>q. QED  BY <3>1, <3>2
  <2>10. HandoffOK'
    BY <1>2, <2>2, HandoffKeeps DEF OutputsInv
  <2>11. PresentedOK'
    BY <1>2, <2>5, PresentedKeeps DEF OutputsInv
  <2>12. PICK l : /\ task' = [task EXCEPT ![t] = l]
                  /\ \/ l = Failing([k EXCEPT !.run = after])
                     \/ ~Repeats(k) /\ l = [k EXCEPT !.run = after, !.out = out0, !.pc = next1]
    BY <1>5
  <2>13. /\ next1 \in {"record", "utter", "return", "drive"}
         /\ next1 = "record" <=> e.kind = "final"
    BY <1>1
  <2>14. ~Repeats(k) => Learned(k, out0)
    BY <1>1, <1>2, OutLearned
  <2> HIDE DEF settled, out, next
  <2>15. \/ l.pc = "settle"
         \/ /\ ~Repeats(k)
            /\ l.pc = next1 /\ l.id = r /\ l.run = runs'[r] /\ l.out = out0 /\ l.pend = e
            /\ l.resumed = k.resumed /\ l.closed = k.closed
    <3>1. l = Failing([k EXCEPT !.run = after]) => l.pc = "settle"
      BY <1>2 DEF TaskFields, Failing
    <3>2. l = [k EXCEPT !.run = after, !.out = out0, !.pc = next1] =>
            /\ l.pc = next1 /\ l.id = r /\ l.run = after /\ l.out = out0 /\ l.pend = e
            /\ l.resumed = k.resumed /\ l.closed = k.closed
      BY <1>1, <1>2 DEF TaskFields
    <3>q. QED  BY <2>3, <2>12, <3>1, <3>2
  <2>16. task'[t] = l /\ \A u \in Slots \ {t} : task'[u] = task[u]
    BY <1>2, <2>12
  <2>17. l.pc \in Working => WriterOK(l)'
    <3> SUFFICES ASSUME l.pc \in {"record", "utter", "drive"} PROVE WriterOK(l)'
      BY <2>13, <2>15 DEF Working, Driving
    <3>q. QED  BY <1>1, <1>2, <1>5, <2>2, <2>13, <2>14, <2>15, CommittedWriter
  <2>18. WritersOK'
    <3>1. WriterOK(task[t])' <=> WriterOK(l)'
      BY <2>16 DEF WriterOK, PendOK, Aware
    <3>2. \A u \in Slots : \/ Alike(task[u], task'[u])
                           \/ (task'[u].pc \in Working => WriterOK(task[u])')
      BY <2>16, <2>17, <3>1 DEF Alike
    <3>q. QED  BY <2>2, <2>6, <3>2, WritersKeep DEF OutputsInv
  <2>19. SpeakersOK'
    <3>1. CASE l.pc # "record" \/ e.out = None
      <4>1. ASSUME NEW u \in Slots, Speaking(u)'
            PROVE  u # t /\ Speaking(u) /\ task'[u] = task[u]
        BY <2>15, <2>16, <3>1, <4>1 DEF Speaking
      <4>2. ASSUME NEW u \in Slots, Speaking(u)'
            PROVE  /\ presented'[KeyOf(task'[u])] = 0
                   /\ Finals(journal'[task'[u].id], task'[u].run.input, task'[u].pend.out) # {}
        <5>1. Speaking(u) /\ task'[u] = task[u]
          BY <4>1, <4>2
        <5>q. QED  BY <1>2, <2>5, <5>1, SpeakerStays
      <4>3. ASSUME NEW u \in Slots, Speaking(u)', NEW v \in Slots, Speaking(v)',
                   KeyOf(task'[v]) = KeyOf(task'[u])
            PROVE  v = u
        BY <4>1, <4>3 DEF OutputsInv, SpeakersOK
      <4>q. QED  BY <4>2, <4>3 DEF SpeakersOK, KeyOf
    <3>2. CASE l.pc = "record" /\ e.out # None
      <4>1. /\ e.kind = "final" /\ ~Repeats(k) /\ l.id = r /\ l.pend = e
            /\ l.run.input = rec.input /\ KeyOf(l) = KeyOf(k)
        BY <1>1, <2>6, <2>13, <2>15, <3>2 DEF KeyOf
      <4>2. presented[KeyOf(k)] = 0 /\ \A u \in Slots : Speaking(u) => KeyOf(task[u]) # KeyOf(k)
        BY <1>1, <1>2, <1>5, <2>4, <3>2, <4>1, NewlyClosed
      <4>3. Finals(journal'[r], rec.input, e.out) # {}
        BY <2>4, <2>6, <4>1, FinalsAppend
      <4>4. ASSUME NEW u \in Slots, Speaking(u)', u # t
            PROVE  Speaking(u) /\ task'[u] = task[u]
        BY <2>16, <4>4 DEF Speaking
      <4>5. ASSUME NEW u \in Slots, Speaking(u)'
            PROVE  /\ presented'[KeyOf(task'[u])] = 0
                   /\ Finals(journal'[task'[u].id], task'[u].run.input, task'[u].pend.out) # {}
        <5>1. CASE u = t
          BY <1>2, <2>16, <4>1, <4>2, <4>3, <5>1
        <5>2. CASE u # t
          BY <1>2, <2>5, <4>4, <4>5, <5>2, SpeakerStays
        <5>q. QED  BY <5>1, <5>2
      <4>6. ASSUME NEW u \in Slots, Speaking(u)', NEW v \in Slots, Speaking(v)',
                   KeyOf(task'[v]) = KeyOf(task'[u])
            PROVE  v = u
        <5>1. CASE u = t /\ v # t
          BY <2>16, <4>1, <4>2, <4>4, <4>6, <5>1
        <5>2. CASE u # t /\ v = t
          BY <2>16, <4>1, <4>2, <4>4, <4>6, <5>2
        <5>3. CASE u # t /\ v # t
          BY <4>4, <4>6, <5>3 DEF OutputsInv, SpeakersOK
        <5>q. QED  BY <5>1, <5>2, <5>3
      <4>q. QED  BY <4>5, <4>6 DEF SpeakersOK, KeyOf
    <3>q. QED  BY <3>1, <3>2
  <2>q. QED  BY <2>5, <2>8, <2>9, <2>10, <2>11, <2>18, <2>19 DEF OutputsInv
<1>q. QED  BY <1>3, <1>4, <1>5

LEMMA HostOutputs ==
    ASSUME RunsInv, OutputsInv,
           \/ CancelClose \/ Interrupt \/ Tick \/ Crash
           \/ \E r \in RunIds : CancelRun(r)
           \/ \E q \in Request : Submit(q)
    PROVE  OutputsInv'
<1>1. CASE CancelClose
  <2>1. /\ Snapshot(canceller.id, canceller.read)
        /\ UNCHANGED <<intake, task, presented>>
    BY <1>1 DEF CancelClose, RunsInv, CancellerOK, Idle
  <2>2. \A u \in Slots : Alike(task[u], task'[u])
    BY <2>1, RejectedAlike
  <2>3. CASE UNCHANGED durable
    BY <2>1, <2>2, <2>3, StillOutputs DEF durable
  <2>4. CASE /\ Fresh(canceller.id, canceller.read)
             /\ Closed(canceller.id, canceller.read, "canceled", "host")
    <3>1. PICK r, rec, st, why :
            r = canceller.id /\ rec = canceller.read /\ st = "canceled" /\ why = "host"
      OBVIOUS
    <3>2. st \in Terminal \ {"completed"}
      BY <3>1 DEF Terminal
    <3>q. QED  BY <2>1, <2>2, <2>4, <3>1, <3>2, ClosingOutputs
  <2>q. QED  BY <1>1, <2>3, <2>4 DEF CancelClose
<1>2. ASSUME NEW which, NEW why, task' = AbortAll(task, which, why),
             UNCHANGED <<runs, journal, inputRun, transcript, presented, intake>>
      PROVE  OutputsInv'
  <2>1. \A u \in Slots : Alike(task[u], task'[u])
    BY <1>2, AbortAllAlike
  <2>q. QED  BY <1>2, <2>1, StillOutputs
<1>3. CASE Interrupt
  BY <1>2, <1>3 DEF Interrupt, durable
<1>4. ASSUME NEW r \in RunIds, CancelRun(r) PROVE OutputsInv'
  BY <1>2, <1>4 DEF CancelRun, durable
<1>5. CASE Tick \/ \E q \in Request : Submit(q)
  <2>1. UNCHANGED <<runs, journal, inputRun, transcript, presented, intake, task>>
    BY <1>5 DEF Tick, Submit, durable
  <2>q. QED  BY <2>1, RejectedAlike, StillOutputs
<1>6. CASE Crash
  <2>1. UNCHANGED <<runs, journal, inputRun, transcript, presented>>
    BY <1>6 DEF Crash, durable
  <2>2. \A u \in Slots : task'[u].pc \notin Working
    BY <1>6 DEF Crash, FreeTask, Working, Driving
  <2>3. intake'.pc # "handoff"
    BY <1>6 DEF Crash, Idle
  <2>q. QED  BY <2>1, <2>2, <2>3, StillOutputs
<1>q. QED  BY <1>1, <1>3, <1>4, <1>5, <1>6

LEMMA IntakeAdmitOutputs ==
    ASSUME RunsInv, OutputsInv, IntakeAdmit
    PROVE  OutputsInv'
<1>1. CASE Rejected
  <2>1. /\ UNCHANGED <<runs, journal, inputRun, transcript, presented>> /\ intake' = Idle
    BY <1>1 DEF IntakeAdmit, Rejected, Dequeue, durable
  <2>q. QED  BY <1>1, <2>1, RejectedAlike, StillOutputs DEF Idle
<1>2. PICK r, rec, input : r = intake.id /\ rec = intake.record /\ input = Head(queue).input
  OBVIOUS
<1>3. CASE /\ Admissible(r, rec)
           /\ runs' = [runs EXCEPT ![r] = rec]
           /\ inputRun' = [inputRun EXCEPT ![input] = r]
           /\ transcript' = transcript \cup {[id |-> input, text |-> 1]}
           /\ intake' = [intake EXCEPT !.pc = "handoff"]
           /\ UNCHANGED <<journal, task, presented>>
  <2>1. /\ inputRun[input] = NoRun /\ r \in RunIds
        /\ intake = [pc |-> "admit", id |-> r, record |-> rec]
        /\ \/ ~Exists(r) /\ NewRecord(rec, input) /\ OpenRuns = {}
           \/ Exists(r)
        /\ rec \in RunRecord /\ rec.status = "active" /\ rec.input = input
        /\ rec.attempt <= MaxAttempt
    <3>1. intake.pc = "admit"
      BY DEF IntakeAdmit
    <3>2. /\ inputRun[input] = NoRun /\ r \in RunIds
          /\ intake = [pc |-> "admit", id |-> r, record |-> rec]
          /\ \/ ~Exists(r) /\ NewRecord(rec, input) /\ OpenRuns = {}
             \/ /\ Exists(r) /\ rec \in RunRecord /\ rec.status = "active"
                /\ rec.input = input /\ rec.attempt <= MaxAttempt
      BY <1>2, <3>1 DEF RunsInv, IntakeOK, Idle
    <3>3. 1 <= MaxAttempt
      BY RoomRunsAssumption
    <3>q. QED  BY <3>2, <3>3 DEF NewRecord
  <2>2. Stored' /\ Moves /\ runs'[r] = rec /\ \A s \in RunIds \ {r} : runs'[s] = runs[s]
    BY <1>3, <2>1, AdmittedKeeps DEF RunsInv
  <2>3. AttemptsUpTo(r, rec.attempt)
    <3>1. CASE ~Exists(r)
      <4>1. journal[r] = <<>>
        BY <2>1, <3>1 DEF RunsInv, Stored, RunOK
      <4>q. QED  BY <4>1 DEF AttemptsUpTo
    <3>2. CASE Exists(r)
      <4>1. runs[r].status \in Open /\ rec.attempt = runs[r].attempt + 1
        BY <1>3, <3>2 DEF Admissible, Open
      <4>2. runs[r] \in RunRecord
        BY <2>1, <3>2 DEF RunsInv, Stored, Exists
      <4>3. runs[r].attempt \in Nat
        BY <4>2, RecordFields
      <4>4. \A j \in DOMAIN journal[r] : /\ journal[r][j].attempt <= runs[r].attempt
                                         /\ journal[r][j].attempt \in Nat
        BY <2>1, <3>2, <4>1 DEF OutputsInv, AttemptsOK, AttemptsUpTo, JournalOK
      <4>q. QED  BY <4>1, <4>3, <4>4 DEF AttemptsUpTo
    <3>q. QED  BY <3>1, <3>2
  <2>4. NothingFor(r, input)
    <3>1. r # NoRun
      BY <2>1, RoomRunsAssumption
    <3>q. QED  BY <2>1, <3>1 DEF OutputsInv, JournalOK, NothingFor
  <2>5. HandoffOK'
    <3>1. intake' = [pc |-> "handoff", id |-> r, record |-> rec]
      BY <1>3, <2>1
    <3>2. intake'.id = r /\ intake'.record = rec
      BY <3>1
    <3>q. QED  BY <1>3, <2>1, <2>3, <2>4, <3>2 DEF HandoffOK, AttemptsUpTo, NothingFor
  <2>6. \A s \in RunIds : \/ runs'[s] = runs[s]
                          \/ runs'[s].status = "active" /\ AttemptsUpTo(s, runs'[s].attempt)
    BY <2>1, <2>2, <2>3
  <2>7. \A u \in Slots : Alike(task[u], task'[u])
    BY <1>3, RejectedAlike
  <2>8. transcript \subseteq transcript'
    BY <1>3
  <2>q. QED  BY <1>3, <2>2, <2>5, <2>6, <2>7, <2>8, QuietOutputs
<1>q. QED  BY <1>1, <1>2, <1>3 DEF IntakeAdmit

LEMMA IntakeHandoffOutputs ==
    ASSUME RunsInv, OutputsInv, IntakeHandoff
    PROVE  OutputsInv'
<1>1. /\ intake.pc = "handoff"
      /\ UNCHANGED <<runs, journal, inputRun, transcript, presented>>
  BY DEF IntakeHandoff, durable
<1>2. CASE Dequeue(AbortAll(task, ActiveNotOf(intake.id), "input"))
  <2>1. intake'.pc # "handoff" /\ \A u \in Slots : Alike(task[u], task'[u])
    BY <1>2, AbortedAlike DEF Dequeue, Idle
  <2>q. QED  BY <1>1, <2>1, StillOutputs
<1> SUFFICES ASSUME NEW t \in Slots,
                    Dequeue([AbortAll(task, ActiveNotOf(intake.id), "input") EXCEPT ![t] =
                        NewTask("wait", intake.id, intake.record, Len(queue), FALSE)])
             PROVE  OutputsInv'
  BY <1>2 DEF IntakeHandoff
<1>3. PICK k, which, id, rec, pc, wait, resumed :
        /\ pc = "wait" /\ wait = Len(queue) /\ resumed = FALSE
        /\ id = intake.id /\ rec = intake.record /\ which = ActiveNotOf(intake.id)
        /\ k = NewTask(pc, id, rec, wait, resumed)
  OBVIOUS
<1>4. /\ DOMAIN k = TaskFields /\ k.pc = pc /\ k.id = id /\ k.run = rec /\ k.resumed = resumed
      /\ DOMAIN k.out = Outs /\ \A o \in Outs : DOMAIN k.out[o] = {"id", "text", "final"}
  <2>1. k = NewTask(pc, id, rec, wait, resumed)
    BY <1>3
  <2>q. QED  BY ONLY <2>1, NewFields
<1>5. Snapshot(id, rec) /\ rec.status = "active" /\ id \in RunIds /\ Exists(id)
  BY <1>1, <1>3 DEF RunsInv, IntakeOK, Idle, Snapshot
<1>6. TaskOK(k) /\ k.pc = "wait" /\ k.pc \in Working
  BY <1>3, <1>4, <1>5 DEF TaskOK, Working, Driving, TaskFields
<1>7. Fresh(id, rec) => AttemptsUpTo(id, rec.attempt) /\ NothingFor(id, rec.input)
  BY <1>1, <1>3 DEF OutputsInv, HandoffOK
<1>8. WriterOK(k)
  BY <1>3, <1>4, <1>6, <1>7 DEF WriterOK, Driving
<1>9. PICK f, tasks : /\ f = AbortAll(task, which, "input") /\ tasks = [f EXCEPT ![t] = k]
                      /\ Dequeue(tasks)
  <2>1. Dequeue([AbortAll(task, which, "input") EXCEPT ![t] = k])
    BY <1>3
  <2>q. QED  BY <2>1
<1>10. DOMAIN f = Slots /\ \A u \in Slots : Alike(task[u], f[u])
  BY <1>9, AbortAllAlike DEF AbortAll
<1>11. tasks[t] = k /\ \A u \in Slots \ {t} : Alike(task[u], tasks[u])
  BY <1>9, <1>10
<1>12. \A u \in Slots : Alike(tasks[u], task'[u])
  BY <1>9, DequeueAlike
<1>13. \A u \in Slots \ {t} : Alike(task[u], task'[u])
  BY <1>11, <1>12 DEF Alike
<1>14. PICK l : l = task'[t]
  OBVIOUS
<1>15. WriterOK(l) /\ l.pc = "wait"
  <2>1. Alike(k, l) /\ "pc" \in DOMAIN k
    BY <1>4, <1>11, <1>12, <1>14 DEF TaskFields
  <2>q. QED  BY <1>4, <1>6, <1>8, <2>1, WriterAlike, AlikeFields
<1>16. WriterOK(l)'
  BY <1>1, <1>15, WriterSame
<1>17. WriterOK(task[t])'
  BY <1>14, <1>16 DEF WriterOK, PendOK, Aware
<1>18. \A u \in Slots :
         \/ Alike(task[u], task'[u])
         \/ task'[u].pc # "record" /\ (task'[u].pc \in Working => WriterOK(task[u])')
  BY <1>13, <1>14, <1>15, <1>17
<1>19. HandoffOK'
  <2>1. intake' = Idle
    BY <1>9 DEF Dequeue
  <2>q. QED  BY <2>1 DEF Idle, HandoffOK
<1>20. Stored' /\ Moves
  BY <1>1, UnchangedRuns DEF RunsInv
<1>q. QED  BY <1>1, <1>18, <1>19, <1>20, QuietOutputs

LEMMA ServeOutputs ==
    ASSUME RunsInv, OutputsInv, Serve
    PROVE  OutputsInv'
<1>1. UNCHANGED presented
  BY DEF Serve, IntakeLook, IntakeOpen, IntakeSupersede, IntakeCancel, IntakeClose,
         IntakeAdmit, IntakeFails, IntakeHandoff
<1>2. ASSUME Rejected PROVE OutputsInv'
  <2>1. /\ UNCHANGED <<runs, journal, inputRun, transcript>> /\ intake' = Idle
        /\ \A u \in Slots : Alike(task[u], task'[u])
    BY <1>2, RejectedAlike DEF Rejected, Dequeue, durable
  <2>q. QED  BY <1>1, <2>1, StillOutputs DEF Idle
<1>3. ASSUME UNCHANGED durable, intake'.pc # "handoff",
             \A u \in Slots : Alike(task[u], task'[u])
      PROVE  OutputsInv'
  BY <1>1, <1>3, StillOutputs DEF durable
<1>4. ASSUME UNCHANGED <<durable, task>>, intake'.pc # "handoff" PROVE OutputsInv'
  BY <1>3, <1>4, RejectedAlike
<1>5. ASSUME NEW q, NEW open, Proceed(q, open) PROVE OutputsInv'
  <2>1. CASE Rejected
    BY <1>2, <2>1
  <2>2. CASE Build(q, open) /\ UNCHANGED <<durable, queue, task, active>>
    <3>1. intake'.pc # "handoff"
      BY <2>2 DEF Build
    <3>q. QED  BY <1>4, <2>2, <3>1
  <2>q. QED  BY <1>5, <2>1, <2>2 DEF Proceed
<1>6. ASSUME NEW r, NEW rec, Snapshot(r, rec), Fresh(r, rec), Closed(r, rec, "canceled", "input"),
             \A u \in Slots : Alike(task[u], task'[u]), intake'.pc # "handoff"
      PROVE  OutputsInv'
  <2>1. PICK st, why : st = "canceled" /\ why = "input"
    OBVIOUS
  <2>2. st \in Terminal \ {"completed"}
    BY <2>1 DEF Terminal
  <2>q. QED  BY <1>1, <1>6, <2>1, <2>2, ClosingOutputs
<1>7. CASE IntakeLook
  <2>1. Rejected \/ (UNCHANGED <<durable, task>> /\ intake'.pc # "handoff")
    BY <1>7 DEF IntakeLook
  <2>q. QED  BY <1>2, <1>4, <2>1
<1>8. CASE IntakeOpen
  <2>1. \/ Rejected \/ \E open : Proceed(Head(queue), open)
        \/ UNCHANGED <<durable, task>> /\ intake'.pc # "handoff"
    BY <1>8 DEF IntakeOpen
  <2>q. QED  BY <1>2, <1>4, <1>5, <2>1
<1>9. CASE IntakeSupersede
  <2> DEFINE q == Head(queue)
             fresh == [status |-> "active", attempt |-> 1, root |-> q.input, input |-> q.input,
                       disc |-> DiscOf[q.input],
                       deadline |-> IF DeadlineMs = 0 THEN 0 ELSE clock + DeadlineMs,
                       seq |-> 0, checkpoint |-> 1, token |-> 0]
  <2>1. PICK r, rec : r = intake.open /\ rec = intake.record
    OBVIOUS
  <2>2. Snapshot(r, rec)
    <3>1. intake.pc = "supersede"
      BY <1>9 DEF IntakeSupersede
    <3>q. QED  BY <2>1, <3>1 DEF RunsInv, IntakeOK, Idle
  <2>3. \/ Rejected \/ Proceed(Head(queue), r)
        \/ UNCHANGED <<durable, task>> /\ intake'.pc = intake.pc /\ intake.pc = "supersede"
        \/ /\ Fresh(r, rec) /\ Closed(r, rec, "canceled", "input")
           /\ \/ task' = AbortAll(task, ActiveOf(r), "input") /\ intake'.pc = "admit"
              \/ Dequeue(AbortAll(task, ActiveOf(r), "input")) /\ intake'.pc = "idle"
    <3>1. intake = [pc |-> "supersede", open |-> intake.open, record |-> intake.record]
      <4>1. intake.pc = "supersede"
        BY <1>9 DEF IntakeSupersede
      <4>q. QED  BY <4>1 DEF RunsInv, IntakeOK, Idle
    <3>2. [intake EXCEPT !.record = runs[r]].pc = "supersede" /\ intake.pc = "supersede"
      BY <3>1
    <3>3. \/ Rejected \/ Proceed(Head(queue), r)
          \/ UNCHANGED <<durable, task>> /\ intake' = [intake EXCEPT !.record = runs[r]]
          \/ /\ Fresh(r, rec) /\ Closed(r, rec, "canceled", "input")
             /\ \/ /\ task' = AbortAll(task, ActiveOf(r), "input")
                   /\ \E new \in RunIds :
                        /\ ~Exists(new)
                        /\ intake' = [pc |-> "admit", id |-> new, record |-> fresh]
                \/ Dequeue(AbortAll(task, ActiveOf(r), "input"))
      BY <1>9, <2>1 DEF IntakeSupersede
    <3> HIDE DEF fresh, q
    <3>4. intake' = [intake EXCEPT !.record = runs[r]] => intake'.pc = "supersede"
      BY <3>2
    <3>5. (\E new \in RunIds : /\ ~Exists(new)
                              /\ intake' = [pc |-> "admit", id |-> new, record |-> fresh])
            => intake'.pc = "admit"
      OBVIOUS
    <3>6. Dequeue(AbortAll(task, ActiveOf(r), "input")) => intake'.pc = "idle"
      BY DEF Dequeue, Idle
    <3>q. QED  BY ONLY <3>2, <3>3, <3>4, <3>5, <3>6
  <2>4. \/ task' = AbortAll(task, ActiveOf(r), "input")
        \/ Dequeue(AbortAll(task, ActiveOf(r), "input"))
        => \A u \in Slots : Alike(task[u], task'[u])
    BY AbortedAlike
  <2>q. QED  BY <1>2, <1>4, <1>5, <1>6, <2>2, <2>3, <2>4
<1>10. CASE IntakeCancel
  <2>1. /\ UNCHANGED durable /\ intake'.pc \in {"admit", "close", "idle"}
        /\ \/ UNCHANGED task \/ task' = AbortAll(task, ActiveOf(intake.open), "input")
           \/ Dequeue(AbortAll(task, ActiveOf(intake.open), "input"))
    BY <1>10 DEF IntakeCancel, Dequeue, Idle
  <2>2. \A u \in Slots : Alike(task[u], task'[u])
    BY <2>1, RejectedAlike, AbortedAlike
  <2>q. QED  BY <1>3, <2>1, <2>2
<1>11. CASE IntakeClose
  <2>1. PICK r, rec : r = intake.open /\ rec = intake.read
    OBVIOUS
  <2>2. Snapshot(r, rec)
    <3>1. intake.pc = "close"
      BY <1>11 DEF IntakeClose
    <3>q. QED  BY <2>1, <3>1 DEF RunsInv, IntakeOK, Idle
  <2>3. \/ Rejected
        \/ /\ Fresh(r, rec) /\ Closed(r, rec, "canceled", "input")
           /\ UNCHANGED task \/ Dequeue(task)
           /\ intake'.pc \in {"admit", "idle"}
    BY <1>11, <2>1 DEF IntakeClose, Dequeue, Idle
  <2>4. UNCHANGED task \/ Dequeue(task) => \A u \in Slots : Alike(task[u], task'[u])
    BY RejectedAlike, DequeueAlike
  <2>q. QED  BY <1>2, <1>6, <2>2, <2>3, <2>4
<1>12. CASE IntakeFails
  BY <1>2, <1>12 DEF IntakeFails
<1>q. QED  BY <1>7, <1>8, <1>9, <1>10, <1>11, <1>12, IntakeAdmitOutputs, IntakeHandoffOutputs
           DEF Serve

LEMMA OutputsBegin == Init => OutputsInv
<1> SUFFICES ASSUME Init PROVE OutputsInv
  OBVIOUS
<1>1. \A r \in RunIds : ~Exists(r) /\ DOMAIN journal[r] = {}
  BY DEF Init, Exists
<1>2. JournalOK /\ AttemptsOK /\ RecordedOutputs
  BY <1>1 DEF JournalOK, AttemptsOK, RecordedOutputs
<1>3. WritersOK /\ HandoffOK /\ SpeakersOK
  BY DEF Init, FreeTask, Idle, WritersOK, HandoffOK, SpeakersOK, Speaking, Working, Driving
<1>4. PresentedOK
  BY DEF Init, PresentedOK
<1>q. QED  BY <1>2, <1>3, <1>4 DEF OutputsInv

LEMMA OutputsStep ==
    ASSUME RunsInv, OutputsInv, [Next]_vars
    PROVE  OutputsInv'
<1>1. CASE Serve
  BY <1>1, ServeOutputs
<1>2. ASSUME NEW t \in Slots, Drive(t) PROVE OutputsInv'
  BY <1>2, YieldOutputs, DriverOutputs DEF Drive
<1>3. ASSUME NEW t \in Slots, Run(t) \/ Timer(t) PROVE OutputsInv'
  BY <1>3, StartOutputs, DriverOutputs, CommitEventOutputs, RecordOutputOutputs,
     FinishOutputs, TakeChannelOutputs, SaveRunOutputs, TimerOutputs DEF Run
<1>4. ASSUME NEW t \in Slots, NEW r \in RunIds, ResumeRun(t, r) PROVE OutputsInv'
  BY <1>4, ResumeRunOutputs
<1>5. CASE UNCHANGED vars
  <2>1. UNCHANGED <<runs, journal, inputRun, transcript, presented, intake, task>>
    BY <1>5 DEF vars
  <2>q. QED  BY <2>1, RejectedAlike, StillOutputs
<1>q. QED  BY <1>1, <1>2, <1>3, <1>4, <1>5, HostOutputs DEF Next

\* A recovery loses no output and repeats none: the transcript holds every closed output of a
\* run that completed or waits, whichever attempt closed it, and no logical output of an input
\* is handed to speech twice, however often its run is resumed and wherever the process stops.
THEOREM OutputsAreNotRepeated == Spec => []OutputsOnce
<1>1. RunsInv /\ OutputsInv /\ [Next]_vars => OutputsInv'
  BY OutputsStep
<1>2. OutputsInv => OutputsOnce
  <2> SUFFICES ASSUME OutputsInv PROVE PresentedOnce
    BY DEF OutputsInv, OutputsOnce
  <2>1. DOMAIN presented = RunIds \X Inputs \X Outs
    BY DEF OutputsInv, PresentedOK
  <2>2. ASSUME NEW key \in DOMAIN presented PROVE presented[key] <= 1
    <3>1. PICK r \in RunIds, i \in Inputs, o \in Outs : key = <<r, i, o>>
      BY <2>1, <2>2
    <3>2. presented[<<r, i, o>>] \in {0, 1}
      BY DEF OutputsInv, PresentedOK
    <3>q. QED  BY <3>1, <3>2
  <2>q. QED  BY <2>2 DEF PresentedOnce
<1>q. QED  BY <1>1, <1>2, OutputsBegin, RunsAlways, PTL DEF Spec
===============================================================================
