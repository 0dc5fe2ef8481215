--------------------------- MODULE SessionHost_proofs ---------------------------
(***************************************************************************)
(* Proofs about SessionHost for every set of commands, silent commands and *)
(* targets and every bound.                                                *)
(*                                                                         *)
(* The store holds the committed log and, when an operation was written    *)
(* but not committed, a leftover of one transition above it.  A leftover   *)
(* belongs to one operation, because its first event conflicts with the    *)
(* first event of any other; so a later operation either completes it or   *)
(* is rejected.  That is what keeps a command from taking effect twice.    *)
(* When an advance may resolve different numbers of ticks, a shorter one   *)
(* completes only a part of the leftover of a longer one: recovery and the *)
(* ledger are proved for one target, and the run host_prefix shows why.    *)
(***************************************************************************)
EXTENDS SessionHost, SequenceFilter

\* An advance always resolves the same number of ticks.
OneTarget == \A m, n \in Targets : m = n

\* The events of an operation as transition n.
EventsOf(op, n) ==
    [j \in 1..op.ticks |-> [rev |-> n, index |-> j - 1, body |-> op.id]]

\* The log is in the store; above its revision the store has a leftover of one
\* transition, of one body, with its first event.
Leftover ==
    /\ Elements(log) \subseteq Elements(store)
    /\ \A e \in Elements(log) : e.rev \in 1..Revision(log)
    /\ \A e \in Elements(store) : e.rev \in 1..Revision(store)
    /\ Revision(store) \in {Revision(log), Revision(log) + 1}
    /\ \A e \in Elements(store) : e.rev > Revision(log) =>
         /\ [rev |-> e.rev, index |-> 0, body |-> e.body] \in Elements(store)
         /\ \A f \in Elements(store) : f.rev = e.rev => f.body = e.body

\* A command's event is the first of its transition, and up to the log's revision
\* the store has no command the log has not.
CommandsStored ==
    \A e \in Elements(store) : e.body \in Commands =>
        /\ e.index = 0
        /\ e.rev <= Revision(log) => e \in Elements(log)

\* What is prepared, written and committed is the first request of the lane.
LaneInStep ==
    /\ phase \in {"persist", "written", "reflush"} => Head(lane) \in Op
    /\ phase \in {"persist", "written"} => prepared = Prepared(Head(lane))
    /\ phase = "written" => Elements(prepared) \subseteq Elements(store)
    /\ phase = "reflush" /\ Head(lane).kind = "command" =>
         \E e \in Elements(store) : e.body = Head(lane).id

IInv ==
    /\ TypeOK /\ Leftover /\ CommandsStored /\ LaneInStep
    /\ CommandsOnce /\ AcknowledgedIsDurable

\* With one target the leftover is an operation as a whole.
Whole ==
    \/ store = log
    \/ \E op \in Op : store = log \o EventsOf(op, Revision(log) + 1)

LastDelivered == IF delivered = <<>> THEN 0 ELSE delivered[Len(delivered)]
\* Batches wait in the order of their commits, and only the first of them may
\* have been delivered already.
QueueInOrder ==
    /\ \A i, j \in DOMAIN queue : i < j => queue[i] < queue[j]
    /\ \A i \in DOMAIN queue :
         /\ \E e \in Elements(log) : e.rev = queue[i]
         /\ LastDelivered <= queue[i]
         /\ i > 1 => LastDelivered < queue[i]
    /\ LastDelivered <= Revision(log)

LInv == Whole /\ QueueInOrder

-----------------------------------------------------------------------------
(* Events and sequences of them.                                           *)

LEMMA OpFacts ==
    ASSUME NEW op \in Op
    PROVE  /\ op.ticks \in Nat \ {0}
           /\ op.id \in Commands \cup {None}
           /\ op.kind \in {"command", "advance"}
           /\ op.kind = "command" <=> op.id \in Commands
           /\ op.kind = "command" => op.ticks = 1
           /\ op # RetryPublish /\ op \in Requests
<1>1. op # RetryPublish /\ op \in Requests
  BY DEF Op, RetryPublish, Requests
<1>2. CASE op \in [kind : {"command"}, id : Commands, ticks : {1}]
  <2>1. op.kind = "command" /\ op.id \in Commands /\ op.ticks = 1
    BY <1>2
  <2>q. QED  BY <1>1, <2>1
<1>3. CASE op \in [kind : {"advance"}, id : {None}, ticks : Targets]
  <2>1. op.kind = "advance" /\ op.id = None /\ op.ticks \in Targets
    BY <1>3
  <2>q. QED  BY <1>1, <2>1, HostAssumption
<1>q. QED  BY <1>2, <1>3 DEF Op

LEMMA EventsOfFacts ==
    ASSUME NEW op \in Op, NEW n \in Nat \ {0}
    PROVE  /\ EventsOf(op, n) \in Seq(Event)
           /\ EventsOf(op, n) # <<>>
           /\ Revision(EventsOf(op, n)) = n
           /\ \A e \in Elements(EventsOf(op, n)) :
                /\ e \in Event /\ e.rev = n /\ e.body = op.id
                /\ op.kind = "command" => e.index = 0
           /\ [rev |-> n, index |-> 0, body |-> op.id] \in Elements(EventsOf(op, n))
<1>1. op.ticks \in Nat \ {0} /\ op.id \in Commands \cup {None}
      /\ (op.kind = "command" => op.ticks = 1)
  BY OpFacts
<1>2. \A j \in 1..op.ticks : [rev |-> n, index |-> j - 1, body |-> op.id] \in Event
  BY <1>1 DEF Event
<1>3. /\ EventsOf(op, n) \in Seq(Event)
      /\ Len(EventsOf(op, n)) = op.ticks /\ DOMAIN EventsOf(op, n) = 1..op.ticks
      /\ \A j \in 1..op.ticks : EventsOf(op, n)[j] = [rev |-> n, index |-> j - 1, body |-> op.id]
  BY <1>1, <1>2 DEF EventsOf
<1>4. EventsOf(op, n) # <<>>
  BY <1>1, <1>3
<1>5. Revision(EventsOf(op, n)) = n
  <2>1. Len(EventsOf(op, n)) \in 1..op.ticks
    BY <1>1, <1>3
  <2>2. EventsOf(op, n)[Len(EventsOf(op, n))]
          = [rev |-> n, index |-> Len(EventsOf(op, n)) - 1, body |-> op.id]
    BY <1>3, <2>1
  <2>q. QED  BY <1>4, <2>2 DEF Revision
<1>6. \A e \in Elements(EventsOf(op, n)) :
         /\ e \in Event /\ e.rev = n /\ e.body = op.id
         /\ op.kind = "command" => e.index = 0
  <2> SUFFICES ASSUME NEW e \in Elements(EventsOf(op, n))
               PROVE  /\ e \in Event /\ e.rev = n /\ e.body = op.id
                      /\ op.kind = "command" => e.index = 0
    OBVIOUS
  <2>1. PICK j \in 1..op.ticks : e = EventsOf(op, n)[j]
    BY <1>3 DEF Elements
  <2>2. e \in Event /\ e = [rev |-> n, index |-> j - 1, body |-> op.id]
    BY <1>2, <1>3, <2>1
  <2>q. QED  BY <1>1, <2>1, <2>2
<1>7. [rev |-> n, index |-> 0, body |-> op.id] \in Elements(EventsOf(op, n))
  <2>1. 1 \in DOMAIN EventsOf(op, n) /\ EventsOf(op, n)[1] = [rev |-> n, index |-> 0, body |-> op.id]
    BY <1>1, <1>3
  <2>q. QED  BY <2>1, Zenon DEF Elements
<1>8. EventsOf(op, n) \in Seq(Event)
  BY <1>3
<1>q. QED  BY <1>4, <1>5, <1>6, <1>7, <1>8

LEMMA EventsOfRevision ==
    ASSUME NEW op \in Op, NEW n \in Nat \ {0}, NEW e \in Elements(EventsOf(op, n))
    PROVE  e.rev = n
<1>1. op.ticks \in Nat \ {0}
  BY OpFacts
<1>2. PICK j \in 1..op.ticks : e = EventsOf(op, n)[j]
  BY <1>1 DEF Elements, EventsOf
<1>q. QED  BY <1>1, <1>2 DEF EventsOf

LEMMA RevisionType ==
    ASSUME NEW s \in Seq(Event)
    PROVE  Revision(s) \in Nat
<1>1. CASE s = <<>>
  BY <1>1 DEF Revision
<1>2. CASE s # <<>>
  <2>1. s[Len(s)] \in Event
    BY <1>2
  <2>q. QED  BY <1>2, <2>1 DEF Revision, Event
<1>q. QED  BY <1>1, <1>2

LEMMA RevisionConcat ==
    ASSUME NEW s \in Seq(Event), NEW t \in Seq(Event)
    PROVE  /\ s \o t \in Seq(Event)
           /\ Revision(s \o t) = IF t = <<>> THEN Revision(s) ELSE Revision(t)
<1>1. CASE t = <<>>
  <2>1. s \o t = s
    BY <1>1
  <2>q. QED  BY <1>1, <2>1
<1>2. CASE t # <<>>
  <2>1. /\ s \o t \in Seq(Event) /\ Len(s \o t) = Len(s) + Len(t)
        /\ Len(t) \in Nat \ {0} /\ Len(s) \in Nat
    BY <1>2
  <2>2. (s \o t)[Len(s) + Len(t)] = t[Len(t)]
    BY <2>1
  <2>3. s \o t # <<>>
    BY <2>1
  <2>q. QED  BY <1>2, <2>1, <2>2, <2>3 DEF Revision
<1>q. QED  BY <1>1, <1>2

\* The revision of a sequence is one of its elements'.
LEMMA RevisionElement ==
    ASSUME NEW s \in Seq(Event), s # <<>>
    PROVE  \E e \in Elements(s) : e.rev = Revision(s)
<1>1. Len(s) \in DOMAIN s /\ Revision(s) = s[Len(s)].rev
  BY DEF Revision
<1>q. QED  BY <1>1, Zenon DEF Elements

\* What is prepared: nothing for a committed command, its events otherwise.
LEMMA PreparedFacts ==
    ASSUME TypeOK, NEW op \in Op
    PROVE  /\ Prepared(op) \in Seq(Event)
           /\ \/ /\ Prepared(op) = <<>> /\ op.kind = "command"
                 /\ \E e \in Elements(log) : e.body = op.id
              \/ /\ Prepared(op) = EventsOf(op, Revision(log) + 1)
                 /\ op.kind = "command" => \A e \in Elements(log) : e.body # op.id
<1>1. Revision(log) + 1 \in Nat \ {0}
  BY RevisionType DEF TypeOK
<1>2. EventsOf(op, Revision(log) + 1) \in Seq(Event)
  BY <1>1, EventsOfFacts, Zenon
<1>3. CASE op.kind = "command" /\ \E e \in Elements(log) : e.body = op.id
  BY <1>2, <1>3 DEF Prepared
<1>4. CASE ~(op.kind = "command" /\ \E e \in Elements(log) : e.body = op.id)
  BY <1>2, <1>4, Zenon DEF Prepared, EventsOf
<1>q. QED  BY <1>3, <1>4

LEMMA MissingFacts ==
    ASSUME TypeOK, NEW es \in Seq(Event)
    PROVE  /\ Missing(es) \in Seq(Event)
           /\ Elements(Missing(es)) =
                {a \in Elements(es) : \A b \in Elements(store) : ~SameId(a, b)}
<1> DEFINE T == {a \in Elements(es) : \A b \in Elements(store) : ~SameId(a, b)}
<1>1. Missing(es) = Filtered(es, T)
  BY DEF Missing
<1>2. T \subseteq Elements(es)
  OBVIOUS
<1> HIDE DEF T
<1>3. Filtered(es, T) \in Seq(Event) /\ Elements(Filtered(es, T)) = Elements(es) \cap T
  BY FilteredElements
<1>4. Elements(es) \cap T = T
  BY <1>2
<1>q. QED  BY <1>1, <1>3, <1>4 DEF T

-----------------------------------------------------------------------------
(* Steps that leave the log and the store alone.                           *)

LEMMA StoredStays ==
    ASSUME UNCHANGED <<log, store>>, Leftover, CommandsStored, CommandsOnce
    PROVE  Leftover' /\ CommandsStored' /\ CommandsOnce'
<1>0. /\ Elements(log)' = Elements(log) /\ Elements(store)' = Elements(store)
      /\ Revision(log)' = Revision(log) /\ Revision(store)' = Revision(store)
  BY DEF Elements, Revision
<1>1. Leftover'
  BY <1>0 DEF Leftover
<1>2. CommandsStored'
  BY <1>0 DEF CommandsStored
<1>3. CommandsOnce'
  BY DEF CommandsOnce, Elements, SameId
<1>q. QED  BY <1>1, <1>2, <1>3

LEMMA SettleFacts ==
    ASSUME TypeOK, LaneInStep, phase # "idle", NEW result \in Status, Settle(result)
    PROVE  /\ lane' \in Seq(Requests) /\ phase' = "idle" /\ prepared' \in Seq(Event)
           /\ status' \in [Requests -> Status]
           /\ Head(lane) \in Requests
           /\ \A op \in Requests :
                status'[op] = IF op = Head(lane) THEN result ELSE status[op]
<1>1. lane # <<>> /\ Head(lane) \in Requests /\ Tail(lane) \in Seq(Requests)
  BY DEF TypeOK
<1>q. QED  BY <1>1 DEF Settle, TypeOK

LEMMA InitInv == Init => IInv
<1> SUFFICES ASSUME Init PROVE IInv
  OBVIOUS
<1>1. TypeOK
  <2>1. {MaxRevision, MaxRequests, MaxCrashes} \subseteq Nat
    BY HostAssumption
  <2>2. 0 \in 0..MaxRequests /\ 0 \in 0..MaxCrashes
    BY <2>1
  <2>3. status \in [Requests -> Status]
    BY DEF Init, Status
  <2>4. phase = "idle" /\ phase \in Phases
    BY DEF Init, Phases
  <2>q. QED  BY <2>2, <2>3, <2>4 DEF Init, TypeOK
<1>2. Elements(log) = {} /\ Elements(store) = {} /\ Revision(log) = 0 /\ Revision(store) = 0
  BY DEF Init, Elements, Revision
<1>3. Leftover /\ CommandsStored /\ CommandsOnce
  BY <1>2 DEF Leftover, CommandsStored, CommandsOnce
<1>4. LaneInStep
  BY DEF Init, LaneInStep
<1>5. AcknowledgedIsDurable
  BY OpFacts DEF Init, AcknowledgedIsDurable
<1>q. QED  BY <1>1, <1>3, <1>4, <1>5 DEF IInv

LEMMA RequestKeeps ==
    ASSUME IInv, (\E op \in Op : Request(op)) \/ RequestRetry
    PROVE  IInv'
<1>1. PICK op \in Requests :
         /\ status[op] # "pending"
         /\ lane' = Append(lane, op) /\ status' = [status EXCEPT ![op] = "pending"]
         /\ requests' \in {requests} \cup {n \in {requests + 1} : requests < MaxRequests}
         /\ UNCHANGED <<phase, prepared, log, store, queue, delivered, crashes>>
  BY DEF Request, RequestRetry, Requests
<1>2. requests' \in 0..MaxRequests
  BY <1>1, HostAssumption DEF IInv, TypeOK
<1>3. lane' \in Seq(Requests) /\ lane' # <<>> /\ (lane # <<>> => Head(lane') = Head(lane))
  <2>1. lane \in Seq(Requests)
    BY DEF IInv, TypeOK
  <2>2. Append(lane, op) \in Seq(Requests) /\ Append(lane, op) # <<>>
    BY <2>1, AppendProperties
  <2>3. lane # <<>> => Head(Append(lane, op)) = Head(lane)
    BY <2>1, HeadTailAppend
  <2>q. QED  BY <1>1, <2>2, <2>3
<1>4. status' \in [Requests -> Status]
  BY <1>1 DEF IInv, TypeOK, Status
<1>5. TypeOK'
  BY <1>1, <1>2, <1>3, <1>4 DEF IInv, TypeOK
<1>6. Leftover' /\ CommandsStored' /\ CommandsOnce'
  BY <1>1, StoredStays DEF IInv
<1>7. LaneInStep'
  <2>1. phase # "idle" => lane # <<>>
    BY DEF IInv, TypeOK
  <2>2. phase # "idle" => Head(lane') = Head(lane)
    BY <1>3, <2>1
  <2>3. Prepared(Head(lane))' = Prepared(Head(lane'))
    BY <1>1 DEF Prepared, Revision, Elements
  <2>4. Elements(store') = Elements(store) /\ Elements(prepared') = Elements(prepared)
    BY <1>1
  <2>q. QED  BY <1>1, <2>2, <2>3, <2>4 DEF IInv, LaneInStep
<1>8. AcknowledgedIsDurable'
  <2>1. \A o \in Op : status'[o] = "resolved" => status[o] = "resolved"
    BY <1>1, OpFacts DEF IInv, TypeOK
  <2>q. QED  BY <1>1, <2>1 DEF IInv, AcknowledgedIsDurable, Elements
<1>q. QED  BY <1>5, <1>6, <1>7, <1>8 DEF IInv

\* The first request is settled while the log and the store stay; a command is
\* resolved only when the store has it.
LEMMA SettleKeeps ==
    ASSUME IInv, phase # "idle", NEW result \in {"resolved", "rejected"}, Settle(result),
           UNCHANGED <<log, store, requests, crashes>>,
           queue' \in Seq(Nat), delivered' \in Seq(Nat),
           result = "resolved" /\ Head(lane) \in Op /\ Head(lane).kind = "command" =>
             \E e \in Elements(store) : e.body = Head(lane).id
    PROVE  IInv'
<1>1. /\ lane' \in Seq(Requests) /\ phase' = "idle" /\ prepared' \in Seq(Event)
      /\ status' \in [Requests -> Status]
      /\ \A op \in Requests :
           status'[op] = IF op = Head(lane) THEN result ELSE status[op]
  BY SettleFacts DEF IInv, Status
<1>2. TypeOK'
  BY <1>1 DEF IInv, TypeOK, Phases
<1>3. Leftover' /\ CommandsStored' /\ CommandsOnce'
  BY StoredStays DEF IInv
<1>4. LaneInStep'
  BY <1>1 DEF LaneInStep
<1>5. AcknowledgedIsDurable'
  <2> SUFFICES ASSUME NEW op \in Op, status'[op] = "resolved", op.kind = "command"
               PROVE  \E e \in Elements(store) : e.body = op.id
    BY DEF AcknowledgedIsDurable, Elements
  <2>1. op \in Requests
    BY OpFacts
  <2>2. CASE op = Head(lane)
    BY <1>1, <2>1, <2>2
  <2>3. CASE op # Head(lane)
    BY <1>1, <2>1, <2>3 DEF IInv, AcknowledgedIsDurable
  <2>q. QED  BY <2>2, <2>3
<1>q. QED  BY <1>2, <1>3, <1>4, <1>5 DEF IInv

LEMMA DeliveredType ==
    ASSUME TypeOK, queue # <<>>
    PROVE  Delivered \in Seq(Nat) /\ Tail(queue) \in Seq(Nat) /\ Head(queue) \in Nat
<1>1. queue \in Seq(Nat) /\ delivered \in Seq(Nat)
  BY DEF TypeOK
<1>2. Head(queue) \in Nat /\ Tail(queue) \in Seq(Nat)
  BY <1>1
<1>3. Append(delivered, Head(queue)) \in Seq(Nat)
  BY <1>1, <1>2
<1>q. QED  BY <1>1, <1>2, <1>3 DEF Delivered

LEMMA RejectingKeeps ==
    ASSUME IInv, PublishFails \/ Refuse \/ PersistFails
    PROVE  IInv'
<1>1. /\ phase # "idle" /\ Settle("rejected") /\ UNCHANGED <<log, store, requests, crashes>>
      /\ queue' = queue
  BY DEF PublishFails, Refuse, PersistFails
<1>2. queue' \in Seq(Nat) /\ delivered' \in Seq(Nat)
  <2>1. queue \in Seq(Nat) /\ delivered \in Seq(Nat)
    BY DEF IInv, TypeOK
  <2>2. delivered' = delivered \/ (queue # <<>> /\ delivered' = Delivered)
    BY DEF PublishFails, Refuse, PersistFails
  <2>q. QED  BY <1>1, <2>1, <2>2, DeliveredType DEF IInv
<1>q. QED  BY <1>1, <1>2, SettleKeeps

LEMMA FinishKeeps ==
    ASSUME IInv, Finish
    PROVE  IInv'
<1>1. /\ phase # "idle" /\ Settle("resolved") /\ UNCHANGED <<log, store, requests, crashes>>
      /\ queue' = queue /\ delivered' = delivered
      /\ phase = "reflush" \/ Head(lane) = RetryPublish
  BY DEF Finish
<1>2. queue' \in Seq(Nat) /\ delivered' \in Seq(Nat)
  BY <1>1 DEF IInv, TypeOK
<1>3. Head(lane) \in Op /\ Head(lane).kind = "command" =>
        \E e \in Elements(store) : e.body = Head(lane).id
  BY <1>1, OpFacts DEF IInv, LaneInStep
<1>q. QED  BY <1>1, <1>2, <1>3, SettleKeeps

\* Steps of the lane that settle nothing and commit nothing.
LEMMA MovingKeeps ==
    ASSUME IInv, UNCHANGED <<lane, log, store, status, requests, crashes>>,
           phase' \in Phases, lane # <<>>, prepared' \in Seq(Event),
           queue' \in Seq(Nat), delivered' \in Seq(Nat), LaneInStep'
    PROVE  IInv'
<1>1. TypeOK'
  BY DEF IInv, TypeOK
<1>2. Leftover' /\ CommandsStored' /\ CommandsOnce'
  BY StoredStays DEF IInv
<1>3. AcknowledgedIsDurable'
  BY DEF IInv, AcknowledgedIsDurable, Elements
<1>q. QED  BY <1>1, <1>2, <1>3 DEF IInv

LEMMA StartKeeps ==
    ASSUME IInv, Start
    PROVE  IInv'
<1>1. LaneInStep'
  BY DEF Start, LaneInStep
<1>q. QED  BY <1>1, MovingKeeps DEF Start, Phases, IInv, TypeOK

LEMMA PublishSucceedsKeeps ==
    ASSUME IInv, PublishSucceeds
    PROVE  IInv'
<1>1. LaneInStep'
  BY DEF PublishSucceeds, IInv, LaneInStep, Prepared, Revision, Elements
<1>2. queue' \in Seq(Nat) /\ delivered' \in Seq(Nat)
  BY DeliveredType DEF PublishSucceeds, IInv
<1>3. lane # <<>> /\ phase' \in Phases /\ prepared' \in Seq(Event)
  BY DEF PublishSucceeds, IInv, TypeOK
<1>q. QED  BY <1>1, <1>2, <1>3, MovingKeeps DEF PublishSucceeds

LEMMA PrepareKeeps ==
    ASSUME IInv, Prepare
    PROVE  IInv'
<1>1. lane # <<>> /\ Head(lane) \in Op
  <2>1. lane # <<>> /\ Head(lane) \in Requests
    BY DEF Prepare, IInv, TypeOK
  <2>q. QED  BY <2>1 DEF Prepare, Requests
<1>2. prepared' = Prepared(Head(lane)) /\ prepared' \in Seq(Event)
  BY <1>1, PreparedFacts DEF Prepare, IInv
<1>3. Prepared(Head(lane))' = Prepared(Head(lane))
  BY DEF Prepare, Prepared, Revision, Elements
<1>4. LaneInStep'
  BY <1>1, <1>2, <1>3 DEF Prepare, LaneInStep
<1>5. queue' \in Seq(Nat) /\ delivered' \in Seq(Nat) /\ phase' \in Phases
  BY DEF Prepare, IInv, TypeOK, Phases
<1>q. QED  BY <1>1, <1>2, <1>4, <1>5, MovingKeeps DEF Prepare

-----------------------------------------------------------------------------
(* Steps that write the store or the log.                                  *)

\* The operation whose transition is prepared: its events are new in the log.
LEMMA PreparedOp ==
    ASSUME IInv, phase \in {"persist", "written"}
    PROVE  /\ lane # <<>> /\ Head(lane) \in Op
           /\ prepared \in Seq(Event)
           /\ \A a \in Elements(prepared) :
                /\ a \in Event /\ a.rev = Revision(log) + 1 /\ a.body = Head(lane).id
                /\ a.body \in Commands =>
                     a.index = 0 /\ \A e \in Elements(log) : e.body # a.body
           /\ prepared # <<>> =>
                /\ Revision(prepared) = Revision(log) + 1
                /\ [rev |-> Revision(log) + 1, index |-> 0, body |-> Head(lane).id]
                      \in Elements(prepared)
           /\ prepared = <<>> =>
                Head(lane).kind = "command" /\ \E e \in Elements(log) : e.body = Head(lane).id
<1> DEFINE op == Head(lane)
<1>1. lane # <<>> /\ op \in Op /\ prepared = Prepared(op) /\ prepared \in Seq(Event)
  BY DEF IInv, TypeOK, LaneInStep
<1>2. Revision(log) + 1 \in Nat \ {0}
  BY RevisionType DEF IInv, TypeOK
<1> HIDE DEF op
<1>3. \/ /\ prepared = <<>> /\ op.kind = "command"
         /\ \E e \in Elements(log) : e.body = op.id
      \/ /\ prepared = EventsOf(op, Revision(log) + 1)
         /\ op.kind = "command" => \A e \in Elements(log) : e.body # op.id
  BY <1>1, PreparedFacts DEF IInv
<1>4. op.kind = "command" <=> op.id \in Commands
  BY <1>1, OpFacts
<1>5. CASE prepared = <<>>
  <2>1. Elements(prepared) = {}
    BY <1>1, <1>5, ElementsEmpty
  <2>2. EventsOf(op, Revision(log) + 1) # <<>>
    BY <1>1, <1>2, EventsOfFacts
  <2>q. QED  BY <1>1, <1>3, <1>5, <2>1, <2>2 DEF op
<1>6. CASE prepared # <<>>
  <2>1. prepared = EventsOf(op, Revision(log) + 1)
    BY <1>3, <1>6
  <2>2. /\ Revision(prepared) = Revision(log) + 1
        /\ \A e \in Elements(prepared) :
             /\ e \in Event /\ e.rev = Revision(log) + 1 /\ e.body = op.id
             /\ op.kind = "command" => e.index = 0
        /\ [rev |-> Revision(log) + 1, index |-> 0, body |-> op.id] \in Elements(prepared)
    BY <1>1, <1>2, <2>1, EventsOfFacts
  <2>q. QED  BY <1>1, <1>3, <1>4, <1>6, <2>2 DEF op
<1>q. QED  BY <1>5, <1>6

LEMMA StoreFacts ==
    ASSUME TypeOK, Leftover
    PROVE  /\ Revision(log) \in Nat /\ Revision(store) \in Nat
           /\ \A e \in Elements(store) :
                e \in Event /\ e.rev \in Nat /\ e.rev <= Revision(log) + 1
           /\ \A e \in Elements(log) : e \in Event
<1>1. log \in Seq(Event) /\ store \in Seq(Event)
  BY DEF TypeOK
<1>2. Revision(log) \in Nat /\ Revision(store) \in Nat
  BY <1>1, RevisionType
<1>3. \A e \in Elements(store) : e \in Event
  BY <1>1 DEF Elements
<1>4. \A e \in Elements(log) : e \in Event
  BY <1>1 DEF Elements
<1>q. QED  BY <1>2, <1>3, <1>4 DEF Leftover

LEMMA WriteKeeps ==
    ASSUME IInv, Write
    PROVE  IInv'
<1> DEFINE op == Head(lane)
           n == Revision(log) + 1
           new == Missing(prepared)
           first == [rev |-> n, index |-> 0, body |-> op.id]
<1>1. /\ phase = "persist" /\ ~Conflicts(prepared) /\ store' = store \o new
      /\ phase' = "written"
      /\ UNCHANGED <<lane, prepared, log, queue, delivered, status, requests, crashes>>
  BY DEF Write
<1>2. /\ lane # <<>> /\ op \in Op /\ prepared \in Seq(Event)
      /\ \A a \in Elements(prepared) :
           /\ a \in Event /\ a.rev = n /\ a.body = op.id
           /\ a.body \in Commands => a.index = 0 /\ \A e \in Elements(log) : e.body # a.body
      /\ prepared # <<>> => first \in Elements(prepared)
  BY <1>1, PreparedOp
<1>3. /\ new \in Seq(Event)
      /\ \A a : a \in Elements(new) <=>
           a \in Elements(prepared) /\ \A b \in Elements(store) : ~SameId(a, b)
  BY <1>2, MissingFacts DEF IInv
<1>4. /\ Revision(log) \in Nat /\ Revision(store) \in Nat
      /\ \A e \in Elements(store) : e \in Event /\ e.rev \in Nat /\ e.rev <= n
  BY StoreFacts DEF IInv
<1> HIDE DEF op, new
<1>5. /\ store' \in Seq(Event) /\ Elements(store') = Elements(store) \cup Elements(new)
      /\ Revision(store') = IF new = <<>> THEN Revision(store) ELSE Revision(new)
  <2>1. store \in Seq(Event)
    BY DEF IInv, TypeOK
  <2>q. QED  BY <1>1, <1>3, <2>1, ElementsConcat, RevisionConcat
<1>6. Elements(prepared) \subseteq Elements(store')
  BY <1>1, <1>3, <1>5 DEF Conflicts
<1>7. prepared # <<>> => \A f \in Elements(store') : f.rev = n => f.body = op.id
  <2> SUFFICES ASSUME prepared # <<>>, NEW f \in Elements(store), f.rev = n
               PROVE  f.body = op.id
    BY <1>2, <1>3, <1>5
  <2>1. [rev |-> n, index |-> 0, body |-> f.body] \in Elements(store)
    BY <1>4 DEF IInv, Leftover
  <2>2. first = [rev |-> n, index |-> 0, body |-> f.body]
    BY <1>1, <1>2, <2>1 DEF Conflicts, SameId
  <2>q. QED  BY <2>2
<1>8. new # <<>> => Revision(store') = n /\ prepared # <<>>
  <2> SUFFICES ASSUME new # <<>> PROVE Revision(store') = n /\ prepared # <<>>
    OBVIOUS
  <2>1. PICK e \in Elements(new) : e.rev = Revision(new)
    BY <1>3, RevisionElement
  <2>2. prepared # <<>>
    BY <1>2, <1>3, <2>1, ElementsEmpty
  <2>q. QED  BY <1>2, <1>3, <1>5, <2>1, <2>2
<1>9. new = <<>> => store' = store
  BY <1>1, ConcatEmptySeq DEF IInv, TypeOK
<1>10. TypeOK'
  BY <1>1, <1>2, <1>5 DEF IInv, TypeOK, Phases
<1>11. Leftover'
  <2>1. Revision(log') = Revision(log) /\ Elements(log') = Elements(log)
    BY <1>1
  <2>2. CASE new = <<>>
    BY <1>9, <2>1, <2>2 DEF IInv, Leftover
  <2>3. CASE new # <<>>
    <3>1. Revision(store') = n /\ prepared # <<>>
      BY <1>8, <2>3
    <3>2. \A e \in Elements(store') : e.rev \in 1..n
      BY <1>2, <1>3, <1>4, <1>5 DEF IInv, Leftover
    <3>3. ASSUME NEW e \in Elements(store'), e.rev > Revision(log)
          PROVE  /\ [rev |-> e.rev, index |-> 0, body |-> e.body] \in Elements(store')
                 /\ \A f \in Elements(store') : f.rev = e.rev => f.body = e.body
      <4>1. e.rev = n
        BY <1>4, <3>2, <3>3
      <4>2. e.body = op.id
        BY <1>7, <3>1, <4>1
      <4>q. QED  BY <1>2, <1>6, <1>7, <3>1, <4>1, <4>2
    <3>4. Elements(log) \subseteq Elements(store') /\ \A e \in Elements(log) : e.rev \in 1..Revision(log)
      BY <1>5 DEF IInv, Leftover
    <3>q. QED  BY <2>1, <3>1, <3>2, <3>3, <3>4 DEF Leftover
  <2>q. QED  BY <2>2, <2>3
<1>12. CommandsStored'
  <2>1. \A e \in Elements(new) : e.body \in Commands => e.index = 0 /\ ~(e.rev <= Revision(log))
    BY <1>2, <1>3, <1>4
  <2>q. QED  BY <1>1, <1>5, <2>1 DEF IInv, CommandsStored, Elements, Revision
<1>13. CommandsOnce'
  <2>1. ASSUME NEW e \in Elements(new), NEW f \in Elements(store),
               e.body = f.body, e.body \in Commands
        PROVE  SameId(e, f) /\ SameId(f, e)
    <3>1. e.rev = n /\ e.index = 0 /\ f \notin Elements(log)
      BY <1>2, <1>3, <2>1
    <3>2. f.index = 0 /\ ~(f.rev <= Revision(log))
      BY <2>1, <3>1 DEF IInv, CommandsStored
    <3>q. QED  BY <1>4, <3>1, <3>2 DEF SameId
  <2>2. ASSUME NEW e \in Elements(new), NEW f \in Elements(new),
               e.body = f.body, e.body \in Commands
        PROVE  SameId(e, f)
    BY <1>2, <1>3, <2>2 DEF SameId
  <2>q. QED  BY <1>5, <2>1, <2>2 DEF IInv, CommandsOnce
<1>14. LaneInStep'
  <2>1. prepared = Prepared(op)
    BY <1>1 DEF IInv, LaneInStep, op
  <2>2. Prepared(op)' = Prepared(op)
    BY <1>1 DEF Prepared, Revision, Elements, op
  <2>q. QED  BY <1>1, <1>2, <1>6, <2>1, <2>2 DEF LaneInStep, op
<1>15. AcknowledgedIsDurable'
  BY <1>1, <1>5 DEF IInv, AcknowledgedIsDurable
<1>q. QED  BY <1>10, <1>11, <1>12, <1>13, <1>14, <1>15 DEF IInv

LEMMA CommitKeeps ==
    ASSUME IInv, Commit
    PROVE  IInv'
<1> DEFINE op == Head(lane)
           n == Revision(log) + 1
           first == [rev |-> n, index |-> 0, body |-> op.id]
<1>1. /\ phase = "written" /\ log' = log \o prepared /\ phase' = "reflush"
      /\ queue' \in {queue, Append(queue, Revision(prepared))}
      /\ UNCHANGED <<lane, prepared, store, delivered, status, requests, crashes>>
  BY DEF Commit
<1>2. /\ lane # <<>> /\ op \in Op /\ prepared \in Seq(Event)
      /\ \A a \in Elements(prepared) :
           /\ a \in Event /\ a.rev = n /\ a.body = op.id
           /\ a.body \in Commands => a.index = 0
      /\ prepared # <<>> => Revision(prepared) = n /\ first \in Elements(prepared)
      /\ prepared = <<>> => \E e \in Elements(log) : e.body = op.id
  BY <1>1, PreparedOp
<1>3. Elements(prepared) \subseteq Elements(store)
  BY <1>1 DEF IInv, LaneInStep
<1>4. /\ Revision(log) \in Nat /\ Revision(store) \in Nat
      /\ \A e \in Elements(store) : e \in Event /\ e.rev \in Nat /\ e.rev <= n
  BY StoreFacts DEF IInv
<1> HIDE DEF op
<1>5. /\ log' \in Seq(Event) /\ Elements(log') = Elements(log) \cup Elements(prepared)
      /\ Revision(log') = IF prepared = <<>> THEN Revision(log) ELSE n
  <2>1. log \in Seq(Event)
    BY DEF IInv, TypeOK
  <2>q. QED  BY <1>1, <1>2, <2>1, ElementsConcat, RevisionConcat
<1>6. queue' \in Seq(Nat)
  <2>1. queue \in Seq(Nat) /\ Revision(prepared) \in Nat
    BY <1>2, RevisionType DEF IInv, TypeOK
  <2>2. Append(queue, Revision(prepared)) \in Seq(Nat)
    BY <2>1, AppendProperties
  <2>q. QED  BY <1>1, <2>1, <2>2
<1>7. TypeOK'
  BY <1>1, <1>2, <1>5, <1>6 DEF IInv, TypeOK, Phases
<1>8. \E e \in Elements(store) : e.body = op.id
  BY <1>2, <1>3 DEF IInv, Leftover
<1>9. LaneInStep'
  BY <1>1, <1>2, <1>8 DEF LaneInStep, Elements, op
<1>10. Leftover' /\ CommandsStored'
  <2>1. CASE prepared = <<>>
    <3>1. log' = log
      BY <1>1, <2>1, ConcatEmptySeq DEF IInv, TypeOK
    <3>q. QED  BY <1>1, <3>1, StoredStays DEF IInv
  <2>2. CASE prepared # <<>>
    <3>1. Revision(log') = n /\ Revision(store) = n
      <4>1. first \in Elements(store)
        BY <1>2, <1>3, <2>2
      <4>q. QED  BY <1>4, <1>5, <2>2, <4>1 DEF IInv, Leftover
    <3>2. \A e \in Elements(log') : e.rev \in 1..n
      BY <1>2, <1>4, <1>5 DEF IInv, Leftover
    <3>3. Elements(log') \subseteq Elements(store)
      BY <1>3, <1>5 DEF IInv, Leftover
    <3>4. \A e \in Elements(store) : ~(e.rev > n) /\ e.rev \in 1..n
      BY <1>4, <3>1 DEF IInv, Leftover
    <3>5. Elements(store') = Elements(store) /\ Revision(store') = Revision(store)
      BY <1>1
    <3>6. Leftover'
      BY <3>1, <3>2, <3>3, <3>4, <3>5 DEF Leftover
    <3>7. ASSUME NEW e \in Elements(store), e.body \in Commands
          PROVE  e.index = 0 /\ e \in Elements(log')
      <4>1. e.index = 0
        BY <3>7 DEF IInv, CommandsStored
      <4>2. CASE e.rev <= Revision(log)
        BY <1>5, <3>7, <4>1, <4>2 DEF IInv, CommandsStored
      <4>3. CASE ~(e.rev <= Revision(log))
        <5>1. e.rev = n /\ e \in Event
          BY <1>4, <4>3
        <5>2. first \in Elements(store) /\ first.rev = n
          BY <1>2, <1>3, <2>2
        <5>3. e.body = op.id
          BY <1>4, <5>1, <5>2 DEF IInv, Leftover
        <5>4. e = first
          BY <4>1, <5>1, <5>3 DEF Event
        <5>q. QED  BY <1>2, <1>5, <2>2, <4>1, <5>4
      <4>q. QED  BY <4>2, <4>3
    <3>q. QED  BY <3>5, <3>6, <3>7 DEF CommandsStored
  <2>q. QED  BY <2>1, <2>2
<1>11. CommandsOnce' /\ AcknowledgedIsDurable'
  BY <1>1 DEF IInv, CommandsOnce, AcknowledgedIsDurable, Elements, SameId
<1>q. QED  BY <1>7, <1>9, <1>10, <1>11 DEF IInv

LEMMA CrashKeeps ==
    ASSUME IInv, Crash
    PROVE  IInv'
<1>1. /\ crashes < MaxCrashes /\ crashes' = crashes + 1 /\ log' = store
      /\ lane' = <<>> /\ queue' = <<>> /\ prepared' = <<>> /\ phase' = "idle"
      /\ status' = [op \in Requests |->
                     IF status[op] = "pending" THEN "lost" ELSE status[op]]
      /\ UNCHANGED <<store, delivered, requests>>
  BY DEF Crash
<1>2. crashes' \in 0..MaxCrashes
  BY <1>1, HostAssumption DEF IInv, TypeOK
<1>3. status' \in [Requests -> Status]
  BY <1>1 DEF IInv, TypeOK, Status
<1>4. TypeOK'
  BY <1>1, <1>2, <1>3 DEF IInv, TypeOK, Phases
<1>5. Elements(store') = Elements(store) /\ Elements(log') = Elements(store)
      /\ Revision(log') = Revision(store) /\ Revision(store') = Revision(store)
  BY <1>1
<1>6. Revision(store) \in Nat
  BY StoreFacts DEF IInv
<1>7. Leftover' /\ CommandsStored'
  <2>1. \A e \in Elements(store) : ~(e.rev > Revision(store))
    BY <1>6 DEF IInv, Leftover
  <2>q. QED  BY <1>5, <1>6, <2>1 DEF IInv, Leftover, CommandsStored
<1>8. CommandsOnce'
  BY <1>5 DEF IInv, CommandsOnce, SameId
<1>9. LaneInStep'
  BY <1>1 DEF LaneInStep
<1>10. AcknowledgedIsDurable'
  <2>1. \A op \in Op : status'[op] = "resolved" => status[op] = "resolved"
    BY <1>1, OpFacts
  <2>q. QED  BY <1>5, <2>1 DEF IInv, AcknowledgedIsDurable
<1>q. QED  BY <1>4, <1>7, <1>8, <1>9, <1>10 DEF IInv

-----------------------------------------------------------------------------
(* The theorems for every set of targets.                                  *)

LEMMA NextInv == IInv /\ [Next]_vars => IInv'
<1> SUFFICES ASSUME IInv, [Next]_vars PROVE IInv'
  OBVIOUS
<1>1. CASE (\E op \in Op : Request(op)) \/ RequestRetry
  BY <1>1, RequestKeeps
<1>2. CASE Start
  BY <1>2, StartKeeps
<1>3. CASE PublishSucceeds
  BY <1>3, PublishSucceedsKeeps
<1>4. CASE PublishFails \/ Refuse \/ PersistFails
  BY <1>4, RejectingKeeps
<1>5. CASE Prepare
  BY <1>5, PrepareKeeps
<1>6. CASE Write
  BY <1>6, WriteKeeps
<1>7. CASE Commit
  BY <1>7, CommitKeeps
<1>8. CASE Finish
  BY <1>8, FinishKeeps
<1>9. CASE Crash
  BY <1>9, CrashKeeps
<1>10. CASE UNCHANGED vars
  <2>1. UNCHANGED <<lane, phase, prepared, log, store, queue, delivered, status, requests, crashes>>
    BY <1>10 DEF vars
  <2>2. TypeOK'
    BY <2>1 DEF IInv, TypeOK
  <2>3. Leftover' /\ CommandsStored' /\ CommandsOnce'
    BY <2>1, StoredStays DEF IInv
  <2>4. LaneInStep'
    BY <2>1 DEF IInv, LaneInStep, Elements, Revision, Prepared
  <2>5. AcknowledgedIsDurable'
    BY <2>1 DEF IInv, AcknowledgedIsDurable, Elements
  <2>q. QED  BY <2>2, <2>3, <2>4, <2>5 DEF IInv
<1>q. QED  BY <1>1, <1>2, <1>3, <1>4, <1>5, <1>6, <1>7, <1>8, <1>9, <1>10 DEF Next, Step

LEMMA Inductive == Spec => []IInv
BY InitInv, NextInv, PTL DEF Spec

\* The lane is well typed and has a first request while an operation is under
\* way, whatever the store and the publisher report (SessionKernelHost).
THEOREM HostTypeCorrect == Spec => []TypeOK
<1>1. IInv => TypeOK
  BY DEF IInv
<1>q. QED  BY <1>1, Inductive, PTL

\* A command takes effect once, however often it is sent, whatever persist
\* reported and wherever the host stopped.
THEOREM CommandsTakeEffectOnce == Spec => []CommandsOnce
<1>1. IInv => CommandsOnce
  BY DEF IInv
<1>q. QED  BY <1>1, Inductive, PTL

\* A command whose promise resolved is in the store from then on.
THEOREM AcknowledgedCommandsAreDurable == Spec => []AcknowledgedIsDurable
<1>1. IInv => AcknowledgedIsDurable
  BY DEF IInv
<1>q. QED  BY <1>1, Inductive, PTL

-----------------------------------------------------------------------------
(* One target: a leftover is completed as a whole or not at all.           *)

LEMMA SameOperation ==
    ASSUME OneTarget, NEW op \in Op, NEW other \in Op, op.id = other.id, NEW n
    PROVE  EventsOf(op, n) = EventsOf(other, n)
<1>1. op.ticks = other.ticks
  <2>1. CASE op.id \in Commands
    BY <2>1, OpFacts
  <2>2. CASE op.id \notin Commands
    <3>1. op.ticks \in Targets /\ other.ticks \in Targets
      BY <2>2 DEF Op
    <3>q. QED  BY <3>1 DEF OneTarget
  <2>q. QED  BY <2>1, <2>2
<1>q. QED  BY <1>1 DEF EventsOf

\* An operation that is written extends a store equal to the log by all of its
\* events, or finds them there.
LEMMA WriteWhole ==
    ASSUME OneTarget, IInv, Whole, Write
    PROVE  \/ store' = store
           \/ /\ store = log /\ Head(lane) \in Op
              /\ prepared = EventsOf(Head(lane), Revision(log) + 1)
              /\ store' = log \o prepared
<1> DEFINE op == Head(lane)
           n == Revision(log) + 1
           T == {a \in Elements(prepared) : \A b \in Elements(store) : ~SameId(a, b)}
<1>1. /\ op \in Op /\ prepared \in Seq(Event) /\ prepared = Prepared(op)
      /\ ~Conflicts(prepared) /\ store' = store \o Filtered(prepared, T)
  <2>1. phase \in {"persist", "written"}
    BY DEF Write
  <2>q. QED  BY <2>1, PreparedOp DEF Write, IInv, LaneInStep, Missing
<1>2. n \in Nat \ {0} /\ Revision(log) \in Nat
  BY StoreFacts DEF IInv
<1>3. store \in Seq(Event)
  BY DEF IInv, TypeOK
<1> HIDE DEF op, T
<1>4. CASE prepared = <<>>
  BY <1>1, <1>3, <1>4, FilteredEmpty, ConcatEmptySeq
<1>5. CASE prepared # <<>> /\ store = log
  <2>1. prepared = EventsOf(op, n)
    BY <1>1, <1>5, PreparedFacts DEF IInv
  <2>a. \A a \in Elements(prepared) : a.rev = n
    <3> HIDE DEF n
    <3>q. QED  BY <1>1, <1>2, <2>1, EventsOfRevision
  <2>2. ASSUME NEW a \in Elements(prepared), NEW b \in Elements(store)
        PROVE  ~SameId(a, b)
    <3>1. a.rev = n
      BY <2>a
    <3>2. b.rev \in 1..Revision(log)
      BY <1>5 DEF IInv, Leftover
    <3>q. QED  BY <1>2, <3>1, <3>2 DEF SameId
  <2>3. Elements(prepared) \subseteq T
    BY <2>2 DEF T
  <2>4. Filtered(prepared, T) = prepared
    BY <1>1, <2>3, FilteredAll
  <2>q. QED  BY <1>1, <1>5, <2>1, <2>4 DEF op
<1>6. CASE prepared # <<>> /\ store # log
  <2>1. prepared = EventsOf(op, n)
    BY <1>1, <1>6, PreparedFacts DEF IInv
  <2>2. PICK other \in Op : store = log \o EventsOf(other, n)
    BY <1>6 DEF Whole
  <2>3. Elements(store) = Elements(log) \cup Elements(EventsOf(other, n))
    BY <1>2, <2>2, EventsOfFacts, ElementsConcat DEF IInv, TypeOK
  <2>4. /\ [rev |-> n, index |-> 0, body |-> op.id] \in Elements(prepared)
        /\ [rev |-> n, index |-> 0, body |-> other.id] \in Elements(store)
    BY <1>1, <1>2, <2>1, <2>3, EventsOfFacts
  <2>5. op.id = other.id
    BY <1>1, <2>4 DEF Conflicts, SameId
  <2>6. prepared = EventsOf(other, n)
    BY <1>1, <2>1, <2>5, SameOperation
  <2>7. Elements(prepared) \subseteq Elements(store)
    BY <2>3, <2>6
  <2>8. Elements(prepared) \cap T = {}
    BY <2>7 DEF T, SameId
  <2>9. Filtered(prepared, T) = <<>>
    BY <1>1, <2>8, FilteredNone
  <2>q. QED  BY <1>1, <1>3, <2>9, ConcatEmptySeq
<1>q. QED  BY <1>4, <1>5, <1>6

LEMMA CommitWhole ==
    ASSUME OneTarget, IInv, Whole, Commit
    PROVE  \/ log' = log /\ prepared = <<>>
           \/ /\ log' = store /\ prepared # <<>>
              /\ Revision(prepared) = Revision(log) + 1
<1> DEFINE op == Head(lane)
           n == Revision(log) + 1
<1>1. /\ op \in Op /\ prepared \in Seq(Event) /\ prepared = Prepared(op)
      /\ Elements(prepared) \subseteq Elements(store) /\ log' = log \o prepared
  <2>1. phase \in {"persist", "written"}
    BY DEF Commit
  <2>q. QED  BY <2>1, PreparedOp DEF Commit, IInv, LaneInStep
<1>2. n \in Nat \ {0} /\ Revision(log) \in Nat /\ log \in Seq(Event)
  BY StoreFacts DEF IInv, TypeOK
<1> HIDE DEF op
<1>3. CASE prepared = <<>>
  BY <1>1, <1>2, <1>3, ConcatEmptySeq
<1>4. CASE prepared # <<>>
  <2>1. prepared = EventsOf(op, n)
    BY <1>1, <1>4, PreparedFacts DEF IInv
  <2>2. [rev |-> n, index |-> 0, body |-> op.id] \in Elements(store) /\ Revision(prepared) = n
    BY <1>1, <1>2, <2>1, EventsOfFacts
  <2>3. store # log
    BY <1>2, <2>2 DEF IInv, Leftover
  <2>4. PICK other \in Op : store = log \o EventsOf(other, n)
    BY <2>3 DEF Whole
  <2>5. [rev |-> n, index |-> 0, body |-> other.id] \in Elements(store)
    <3> HIDE DEF n
    <3>1. /\ EventsOf(other, n) \in Seq(Event)
          /\ [rev |-> n, index |-> 0, body |-> other.id] \in Elements(EventsOf(other, n))
      BY <1>2, EventsOfFacts
    <3>2. Elements(store) = Elements(log) \cup Elements(EventsOf(other, n))
      BY <1>2, <2>4, <3>1, ElementsConcat
    <3>q. QED  BY <3>1, <3>2
  <2>6. op.id = other.id
    <3>1. n > Revision(log)
      BY <1>2
    <3>q. QED  BY <2>2, <2>5, <3>1 DEF IInv, Leftover
  <2>7. prepared = EventsOf(other, n)
    BY <1>1, <2>1, <2>6, SameOperation
  <2>q. QED  BY <1>1, <1>4, <2>2, <2>4, <2>7
<1>q. QED  BY <1>3, <1>4

LEMMA WholeKeeps ==
    ASSUME OneTarget, IInv, Whole, [Next]_vars
    PROVE  Whole'
<1>1. CASE Write
  <2>1. log' = log
    BY <1>1 DEF Write
  <2>q. QED  BY <1>1, <2>1, WriteWhole DEF Whole, Revision
<1>2. CASE Commit
  <2>1. store' = store
    BY <1>2 DEF Commit
  <2>2. log' = log \/ log' = store
    BY <1>2, CommitWhole
  <2>3. CASE log' = log
    BY <2>1, <2>3 DEF Whole, Revision
  <2>4. CASE log' = store
    BY <2>1, <2>4 DEF Whole
  <2>q. QED  BY <2>2, <2>3, <2>4
<1>3. CASE Crash
  BY <1>3 DEF Crash, Whole, Revision
<1>4. CASE UNCHANGED <<log, store>>
  BY <1>4 DEF Whole, Revision
<1>5. Write \/ Commit \/ Crash \/ UNCHANGED <<log, store>>
  BY DEF Next, Step, Request, RequestRetry, Start, PublishSucceeds, PublishFails, Prepare,
         Refuse, PersistFails, Finish, vars
<1>q. QED  BY <1>1, <1>2, <1>3, <1>4, <1>5

LEMMA WholeInductive ==
    ASSUME OneTarget
    PROVE  Spec => []Whole
<1>1. Init => Whole
  BY DEF Init, Whole
<1>2. IInv /\ Whole /\ [Next]_vars => Whole'
  BY WholeKeeps
<1>q. QED  BY <1>1, <1>2, Inductive, PTL DEF Spec

\* Rehydrating the store gives every committed transition as it was committed,
\* for a host whose advances resolve one number of ticks.
THEOREM RecoveryFollowsTheLog ==
    ASSUME OneTarget
    PROVE  Spec => []RecoveryAgrees
<1>1. IInv /\ Whole => RecoveryAgrees
  <2> SUFFICES ASSUME IInv, Whole, NEW r \in 1..Revision(log)
               PROVE  EventsAt(store, r) = EventsAt(log, r)
    BY DEF RecoveryAgrees
  <2>1. Revision(log) \in Nat /\ log \in Seq(Event)
    BY StoreFacts DEF IInv, TypeOK
  <2>2. CASE store = log
    BY <2>2
  <2>3. CASE \E op \in Op : store = log \o EventsOf(op, Revision(log) + 1)
    <3>1. PICK op \in Op : store = log \o EventsOf(op, Revision(log) + 1)
      BY <2>3
    <3> DEFINE n == Revision(log) + 1
    <3>3. n \in Nat \ {0} /\ n # r
      BY <2>1
    <3>4. store = log \o EventsOf(op, n)
      BY <3>1
    <3> HIDE DEF n
    <3>5. EventsOf(op, n) \in Seq(Event) /\ \A e \in Elements(EventsOf(op, n)) : e.rev = n
      BY <3>3, EventsOfFacts, EventsOfRevision
    <3>6. Elements(store) = Elements(log) \cup Elements(EventsOf(op, n))
      BY <2>1, <3>4, <3>5, ElementsConcat
    <3>q. QED  BY <3>3, <3>5, <3>6 DEF EventsAt
  <2>q. QED  BY <2>2, <2>3 DEF Whole
<1>q. QED  BY <1>1, Inductive, WholeInductive, PTL

-----------------------------------------------------------------------------
(* The publication queue.                                                  *)

\* Delivering the first batch makes its revision the last delivered one, which
\* is new unless the batch was delivered before.
LEMMA DeliveredFacts ==
    ASSUME IInv, QueueInOrder, queue # <<>>
    PROVE  /\ Delivered \in Seq(Nat) /\ Delivered # <<>>
           /\ Delivered[Len(Delivered)] = queue[1]
           /\ \/ Delivered = delivered
              \/ Delivered = Append(delivered, queue[1]) /\ queue[1] > LastDelivered
           /\ \E e \in Elements(log) : e.rev = queue[1]
<1>1. /\ queue \in Seq(Nat) /\ delivered \in Seq(Nat) /\ Head(queue) = queue[1]
      /\ 1 \in DOMAIN queue /\ queue[1] \in Nat
  BY DEF IInv, TypeOK
<1>2. LastDelivered <= queue[1] /\ \E e \in Elements(log) : e.rev = queue[1]
  BY <1>1 DEF QueueInOrder
<1>3. CASE delivered # <<>> /\ delivered[Len(delivered)] = queue[1]
  <2>1. Delivered = delivered
    BY <1>1, <1>3 DEF Delivered
  <2>2. /\ Delivered \in Seq(Nat) /\ Delivered # <<>>
        /\ Delivered[Len(Delivered)] = queue[1]
    BY <1>1, <1>3, <2>1
  <2>3. \E e \in Elements(log) : e.rev = queue[1]
    BY <1>2
  <2>q. QED  BY <2>1, <2>2, <2>3
<1>4. CASE ~(delivered # <<>> /\ delivered[Len(delivered)] = queue[1])
  <2>1. Delivered = Append(delivered, queue[1])
    BY <1>1, <1>4 DEF Delivered
  <2>2. /\ Append(delivered, queue[1]) \in Seq(Nat) /\ Append(delivered, queue[1]) # <<>>
        /\ Len(Append(delivered, queue[1])) = Len(delivered) + 1
        /\ Append(delivered, queue[1])[Len(delivered) + 1] = queue[1]
    BY <1>1, AppendProperties
  <2>3. queue[1] > LastDelivered
    <3>1. queue[1] \in 1..Revision(log) /\ Revision(log) \in Nat
      BY <1>2, StoreFacts DEF IInv, Leftover
    <3>2. CASE delivered = <<>>
      BY <3>1, <3>2 DEF LastDelivered
    <3>3. CASE delivered # <<>>
      <4>1. delivered[Len(delivered)] \in Nat
        BY <1>1, <3>3
      <4>q. QED  BY <1>1, <1>2, <1>4, <3>3, <4>1 DEF LastDelivered
    <3>q. QED  BY <3>2, <3>3
  <2>q. QED  BY <1>2, <2>1, <2>2, <2>3
<1>q. QED  BY <1>3, <1>4

LEMMA LastDeliveredType ==
    ASSUME TypeOK
    PROVE  LastDelivered \in Nat
<1>1. CASE delivered = <<>>
  BY <1>1 DEF LastDelivered
<1>2. CASE delivered # <<>>
  BY <1>2 DEF LastDelivered, TypeOK
<1>q. QED  BY <1>1, <1>2

LEMMA PublishKeepsOrder ==
    ASSUME IInv, QueueInOrder, queue # <<>>, log' = log, delivered' = Delivered,
           queue' \in {queue, Tail(queue)}
    PROVE  QueueInOrder'
<1>1. /\ queue \in Seq(Nat) /\ Len(queue) \in Nat \ {0} /\ DOMAIN queue = 1..Len(queue)
      /\ \A i \in 1..Len(queue) : queue[i] \in Nat
  BY DEF IInv, TypeOK
<1>2. LastDelivered' = queue[1]
  BY DeliveredFacts DEF LastDelivered
<1>3. Revision(log) \in Nat /\ \A i \in 1..Len(queue) : queue[i] <= Revision(log)
  BY <1>1, StoreFacts DEF IInv, QueueInOrder, Leftover
<1>4. \A i \in 1..Len(queue) : queue[1] <= queue[i] /\ (i > 1 => queue[1] < queue[i])
  BY <1>1 DEF QueueInOrder
<1>5. Revision(log') = Revision(log) /\ Elements(log') = Elements(log)
  OBVIOUS
<1>6. CASE queue' = queue
  BY <1>1, <1>2, <1>3, <1>4, <1>5, <1>6 DEF QueueInOrder
<1>7. CASE queue' = Tail(queue)
  <2>1. /\ DOMAIN queue' = 1..(Len(queue) - 1)
        /\ \A i \in 1..(Len(queue) - 1) : queue'[i] = queue[i + 1]
    BY <1>1, <1>7
  <2>2. \A i \in 1..(Len(queue) - 1) : i + 1 \in 1..Len(queue) /\ i + 1 > 1
    BY <1>1
  <2>3. \A i, j \in DOMAIN queue' : i < j => queue'[i] < queue'[j]
    <3>1. \A i, j \in 1..Len(queue) : i < j => queue[i] < queue[j]
      BY <1>1 DEF QueueInOrder
    <3>2. ASSUME NEW i \in 1..(Len(queue) - 1), NEW j \in 1..(Len(queue) - 1), i < j
          PROVE  queue'[i] < queue'[j]
      <4>1. i + 1 \in 1..Len(queue) /\ j + 1 \in 1..Len(queue) /\ i + 1 < j + 1
        BY <1>1, <3>2
      <4>2. queue[i + 1] < queue[j + 1]
        BY <3>1, <4>1
      <4>q. QED  BY <2>1, <4>2
    <3>q. QED  BY <2>1, <3>2
  <2>4. \A i \in DOMAIN queue' : queue[1] < queue'[i] /\ \E e \in Elements(log) : e.rev = queue'[i]
    BY <1>1, <1>4, <2>1, <2>2 DEF QueueInOrder
  <2>5. \A i \in DOMAIN queue' : queue'[i] \in Nat /\ queue[1] <= queue'[i]
    BY <1>1, <1>4, <2>1, <2>2
  <2>6. queue[1] <= Revision(log)
    BY <1>1, <1>3
  <2>q. QED  BY <1>2, <1>5, <2>3, <2>4, <2>5, <2>6 DEF QueueInOrder
<1>q. QED  BY <1>6, <1>7

LEMMA CommitKeepsOrder ==
    ASSUME IInv, QueueInOrder, Commit
    PROVE  QueueInOrder'
<1>1. /\ phase = "written" /\ log' = log \o prepared /\ delivered' = delivered
      /\ queue' = IF prepared = <<>> \/ Head(lane).id \in Silent THEN queue
                  ELSE Append(queue, Revision(prepared))
  BY DEF Commit
<1>2. /\ prepared \in Seq(Event) /\ log \in Seq(Event)
      /\ prepared # <<>> => Revision(prepared) = Revision(log) + 1
      /\ \A a \in Elements(prepared) : a.rev = Revision(log) + 1
  BY <1>1, PreparedOp DEF IInv, TypeOK
<1>3. /\ Elements(log') = Elements(log) \cup Elements(prepared)
      /\ Revision(log') = IF prepared = <<>> THEN Revision(log) ELSE Revision(log) + 1
  BY <1>1, <1>2, ElementsConcat, RevisionConcat
<1>4. Revision(log) \in Nat /\ LastDelivered \in Nat /\ LastDelivered' = LastDelivered
  BY <1>1, StoreFacts, LastDeliveredType DEF IInv, LastDelivered
<1>5. /\ queue \in Seq(Nat) /\ Len(queue) \in Nat /\ DOMAIN queue = 1..Len(queue)
      /\ \A i \in 1..Len(queue) : queue[i] \in Nat /\ queue[i] <= Revision(log)
  <2>1. /\ queue \in Seq(Nat) /\ Len(queue) \in Nat /\ DOMAIN queue = 1..Len(queue)
        /\ \A i \in 1..Len(queue) : queue[i] \in Nat
    BY DEF IInv, TypeOK
  <2>2. \A i \in 1..Len(queue) : \E e \in Elements(log) : e.rev = queue[i]
    BY <2>1 DEF QueueInOrder
  <2>3. \A e \in Elements(log) : e.rev <= Revision(log)
    BY <1>4 DEF IInv, Leftover
  <2>q. QED  BY <2>1, <2>2, <2>3
<1>6. CASE queue' = queue
  BY <1>3, <1>4, <1>6 DEF QueueInOrder
<1>7. CASE prepared # <<>> /\ queue' = Append(queue, Revision(log) + 1)
  <2>1. /\ DOMAIN queue' = 1..(Len(queue) + 1)
        /\ queue'[Len(queue) + 1] = Revision(log) + 1
        /\ \A i \in 1..Len(queue) : queue'[i] = queue[i]
    BY <1>4, <1>5, <1>7
  <2>2. \E e \in Elements(log') : e.rev = Revision(log) + 1
    BY <1>2, <1>3, <1>7, RevisionElement
  <2>3. \A i, j \in DOMAIN queue' : i < j => queue'[i] < queue'[j]
    BY <1>4, <1>5, <2>1, SMTT(60) DEF QueueInOrder
  <2>4. ASSUME NEW i \in DOMAIN queue'
        PROVE  /\ \E e \in Elements(log') : e.rev = queue'[i]
               /\ LastDelivered <= queue'[i] /\ (i > 1 => LastDelivered < queue'[i])
    <3>1. CASE i \in 1..Len(queue)
      BY <1>3, <1>5, <2>1, <3>1 DEF QueueInOrder
    <3>2. CASE i = Len(queue) + 1
      BY <1>4, <2>1, <2>2, <3>2 DEF QueueInOrder
    <3>q. QED  BY <1>5, <2>1, <3>1, <3>2
  <2>q. QED  BY <1>3, <1>4, <2>3, <2>4 DEF QueueInOrder
<1>q. QED  BY <1>1, <1>2, <1>6, <1>7

LEMMA QueueKeeps ==
    ASSUME IInv, QueueInOrder, [Next]_vars
    PROVE  QueueInOrder'
<1>1. CASE Commit
  BY <1>1, CommitKeepsOrder
<1>2. CASE Crash
  <2>1. queue' = <<>> /\ delivered' = delivered /\ log' = store
    BY <1>2 DEF Crash
  <2>2. LastDelivered <= Revision(store)
    BY StoreFacts, LastDeliveredType DEF QueueInOrder, IInv, Leftover
  <2>q. QED  BY <2>1, <2>2 DEF QueueInOrder, LastDelivered, Revision
<1>3. CASE queue # <<>> /\ log' = log /\ delivered' = Delivered /\ queue' \in {queue, Tail(queue)}
  BY <1>3, PublishKeepsOrder
<1>4. CASE UNCHANGED <<log, queue, delivered>>
  BY <1>4 DEF QueueInOrder, LastDelivered, Elements, Revision
<1>5. \/ Commit \/ Crash
      \/ queue # <<>> /\ log' = log /\ delivered' = Delivered /\ queue' \in {queue, Tail(queue)}
      \/ UNCHANGED <<log, queue, delivered>>
  BY DEF Next, Step, Request, RequestRetry, Start, PublishSucceeds, PublishFails, Prepare,
         Refuse, Write, PersistFails, Finish, vars
<1>q. QED  BY <1>1, <1>2, <1>3, <1>4, <1>5

LEMMA QueueInductive == Spec => []QueueInOrder
<1>1. Init => QueueInOrder
  BY DEF Init, QueueInOrder, LastDelivered, Revision
<1>2. IInv /\ QueueInOrder /\ [Next]_vars => QueueInOrder'
  BY QueueKeeps
<1>q. QED  BY <1>1, <1>2, Inductive, PTL DEF Spec

-----------------------------------------------------------------------------
(* The refinement.                                                         *)

LEMMA WriteRefines ==
    ASSUME OneTarget, IInv, Whole, Write
    PROVE  Ledger!Persist \/ UNCHANGED Ledger!ledger
<1>1. UNCHANGED <<log, delivered>>
  BY DEF Write
<1>2. CASE store' = store
  BY <1>1, <1>2 DEF Ledger!ledger
<1>3. CASE /\ store = log /\ Head(lane) \in Op
           /\ prepared = EventsOf(Head(lane), Revision(log) + 1)
           /\ store' = log \o prepared
  <2> DEFINE n == Revision(log) + 1
  <2>1. n \in Nat \ {0} /\ store \in Seq(Event)
    BY StoreFacts DEF IInv, TypeOK
  <2>2. store' = store \o prepared /\ prepared = EventsOf(Head(lane), n)
    BY <1>3
  <2>3. Ledger!Revision(store) + 1 = n
    BY <1>3 DEF Revision, Ledger!Revision
  <2> HIDE DEF n
  <2>4. prepared \in Seq(Event) /\ prepared # <<>>
    <3>1. Head(lane) \in Op
      BY <1>3
    <3>q. QED  BY <2>1, <2>2, <3>1, EventsOfFacts
  <2>5. \A j \in DOMAIN prepared : prepared[j].rev = n
    <3>1. \A j \in DOMAIN prepared : prepared[j] \in Elements(prepared)
      BY Zenon DEF Elements
    <3>q. QED  BY <1>3, <2>1, <2>2, <3>1, EventsOfRevision
  <2>6. /\ Len(store) \in Nat /\ Len(prepared) \in Nat \ {0}
        /\ DOMAIN prepared = 1..Len(prepared)
        /\ Len(store') = Len(store) + Len(prepared)
        /\ \A j \in (Len(store) + 1)..Len(store') :
             store'[j] = prepared[j - Len(store)] /\ j - Len(store) \in 1..Len(prepared)
    BY <2>1, <2>2, <2>4
  <2>7. SubSeq(store', 1, Len(store)) = store
    <3>1. CASE store = <<>>
      BY <2>2, <3>1
    <3>2. CASE store # <<>>
      BY <2>1, <2>2, <2>4, <2>6, <3>2, SubSeqOfConcat1, SubSeqFull
    <3>q. QED  BY <3>1, <3>2
  <2>8. \A j \in (Len(store) + 1)..Len(store') : store'[j].rev = Ledger!Revision(store) + 1
    BY <2>3, <2>5, <2>6
  <2>q. QED  BY <1>1, <1>3, <2>6, <2>7, <2>8 DEF Ledger!Persist
<1>q. QED  BY <1>2, <1>3, WriteWhole

LEMMA StepRefines ==
    ASSUME OneTarget, IInv, Whole, QueueInOrder, [Next]_vars
    PROVE  Ledger!Next \/ UNCHANGED Ledger!ledger
<1>1. CASE Write
  BY <1>1, WriteRefines DEF Ledger!Next
<1>2. CASE Commit
  <2>1. UNCHANGED <<store, delivered>> /\ (log' = log \/ log' = store)
    BY <1>2, CommitWhole DEF Commit
  <2>q. QED  BY <2>1 DEF Ledger!Next, Ledger!Commit, Ledger!ledger
<1>3. CASE Crash
  BY <1>3 DEF Crash, Ledger!Next, Ledger!Commit
<1>4. CASE queue # <<>> /\ UNCHANGED <<log, store>> /\ delivered' = Delivered
  <2>1. CASE Delivered = delivered
    BY <1>4, <2>1 DEF Ledger!ledger
  <2>2. CASE Delivered = Append(delivered, queue[1]) /\ queue[1] > LastDelivered
    <3>1. PICK j \in DOMAIN log : log[j].rev = queue[1]
      BY <1>4, DeliveredFacts DEF Elements
    <3>2. queue[1] \in {log[i].rev : i \in DOMAIN log}
      BY <3>1
    <3>3. Ledger!LastDelivered = LastDelivered
      BY DEF LastDelivered, Ledger!LastDelivered
    <3>q. QED  BY <1>4, <2>2, <3>2, <3>3 DEF Ledger!Next, Ledger!Deliver
  <2>q. QED  BY <1>4, <2>1, <2>2, DeliveredFacts
<1>5. CASE UNCHANGED <<log, store, delivered>>
  BY <1>5 DEF Ledger!ledger
<1>6. \/ Write \/ Commit \/ Crash
      \/ queue # <<>> /\ UNCHANGED <<log, store>> /\ delivered' = Delivered
      \/ UNCHANGED <<log, store, delivered>>
  BY DEF Next, Step, Request, RequestRetry, Start, PublishSucceeds, PublishFails, Prepare,
         Refuse, PersistFails, Finish, vars
<1>q. QED  BY <1>1, <1>2, <1>3, <1>4, <1>5, <1>6

\* The host implements the ledger its documentation promises: transitions become
\* durable whole and in order, are committed once durable and delivered in order
\* once committed, through failures and restarts; for one target.
THEOREM HostImplementsLedger ==
    ASSUME OneTarget
    PROVE  Spec => ImplementsLedger
<1>1. Init => Ledger!Init
  BY DEF Init, Ledger!Init
<1>2. IInv /\ Whole /\ QueueInOrder /\ [Next]_vars => [Ledger!Next]_(Ledger!ledger)
  BY StepRefines
<1>q. QED  BY <1>1, <1>2, Inductive, WholeInductive, QueueInductive, PTL
           DEF Spec, ImplementsLedger, Ledger!Spec
=============================================================================
