---------------------------- MODULE SessionClient ----------------------------
(***************************************************************************)
(* SessionClient and the handle it makes, for one participant of one       *)
(* session, against a server that keeps what the kernel promises: a        *)
(* submission id stands for one command for ever, and a new submission     *)
(* must name the current cursor.  A call that times out may still be       *)
(* served, and responses overtake each other; a lost request is one that   *)
(* is never served, a lost response one whose call times out, and a        *)
(* response nobody waits for is not kept.  A cursor (tickId, revision) is  *)
(* the number of its window.  A product makes a handle when it has none or *)
(* has closed the last one; without one it calls the client itself.        *)
(***************************************************************************)
EXTENDS Naturals, Sequences, FiniteSets

CONSTANTS
    Commands,       \* the submissions of the product, each with its own command
    Explicit,       \* those it gives an id of its own and retries until answered
    Ending,     \* commands that end the session when they are accepted
    None, MaxWindow, MaxAttempts, MaxCalls, MaxRestarts   \* bounds

VARIABLES
    window, log, over,                 \* server: cursor, accepted submissions, finalization
    binding, sequences, status,        \* client: session binding, commandSequences, handle
    finalization,                      \* the result the handle keeps
    initial,                           \* the tick an adopted handle has not shown yet
    call,                              \* the product's calls
    wire, back,                        \* requests and responses under way
    restarts

server == <<window, log, over>>
handle == <<binding, sequences, status, finalization, initial>>
vars == <<window, log, over, binding, sequences, status, finalization, initial, call, wire, back,
          restarts>>

Windows == 0..MaxWindow
NoCall == [state |-> "idle", id |-> None, cursor |-> None, attempt |-> 0]
Queries == {"observe", "attach", "finalize"}
AllCalls == Commands \cup Queries

Init ==
    /\ window = 0 /\ log = <<>> /\ over = "playing"
    /\ binding = 0
    /\ sequences = [w \in Windows |-> 0]
    /\ status = "active" /\ finalization = None /\ initial = None
    /\ call = [c \in AllCalls |-> NoCall]
    /\ wire = {} /\ back = {}
    /\ restarts = 0

-----------------------------------------------------------------------------
\* Client

\* Bounds: an explicit id is sent MaxAttempts times, any other call once, and at most MaxCalls
\* of the calls are made
MayCall(c) ==
    /\ call[c].attempt < IF c \in Explicit THEN MaxAttempts ELSE 1
    /\ Cardinality({d \in AllCalls \ {c} : call[d].attempt > 0}) < MaxCalls

Calling(c, id, cursor) ==
    /\ MayCall(c)
    /\ call' = [call EXCEPT ![c] = [state |-> "waiting", id |-> id, cursor |-> cursor,
                                    attempt |-> @.attempt + 1]]
    /\ wire' = wire \cup {[call |-> c, id |-> id, cursor |-> cursor, attempt |-> call[c].attempt + 1]}
    /\ UNCHANGED <<server, back, restarts>>

\* "none": no handle yet, the client is called directly
CanAct == status \in {"none", "active"}
CanObserve == status \notin {"closed", "finalized"}

\* act and submitCommand without an id: participant, window and a counter of the process
Act(c) ==
    /\ c \in Commands \ Explicit /\ call[c].state = "idle"
    /\ CanAct /\ binding # None
    /\ Calling(c, <<binding, sequences[binding]>>, binding)
    /\ sequences' = [sequences EXCEPT ![binding] = @ + 1]
    /\ UNCHANGED <<binding, status, finalization, initial>>

\* An explicit id is refused unless the original cursor or a binding comes with it.
ActExplicit(c) ==
    /\ c \in Explicit /\ call[c].state = "idle"
    /\ CanAct /\ (call[c].cursor # None \/ binding # None)
    /\ Calling(c, <<None, c>>, IF call[c].cursor # None THEN call[c].cursor ELSE binding)
    /\ UNCHANGED handle

Observe ==
    /\ call["observe"].state = "idle"
    /\ CanObserve /\ initial = None
    /\ Calling("observe", None, None)
    /\ UNCHANGED handle

\* updateStatus: only a terminal response changes the status
StatusAfter(r) == IF r.over = "terminal" THEN "terminal" ELSE status

\* The first observe of an adopted handle shows the tick it was made with.
ObserveInitial ==
    /\ CanObserve /\ initial # None
    /\ initial' = None
    /\ status' = StatusAfter(initial)
    /\ UNCHANGED <<server, binding, sequences, finalization, call, wire, back, restarts>>

\* attachSessionHandle
Attach ==
    /\ call["attach"].state = "idle" /\ status \in {"none", "closed"}
    /\ Calling("attach", None, None)
    /\ UNCHANGED handle

\* createSessionHandleFromExisting: a start or an attachment the product got its own way,
\* at some time, with a binding for the same window
Adopt(r) ==
    /\ status \in {"none", "closed"}
    /\ binding' = r.window
    /\ initial' = r
    /\ finalization' = None
    /\ status' = IF r.over = "terminal" THEN "terminal" ELSE "active"
    /\ UNCHANGED <<server, sequences, call, wire, back, restarts>>

Existing == {[window |-> w, over |-> "playing"] : w \in 0..window} \cup {[window |-> window, over |-> over]}

\* finalize is answered from the handle once it has a result.
Finalize ==
    /\ call["finalize"].state = "idle"
    /\ status \notin {"none", "closed"} /\ finalization = None
    /\ Calling("finalize", None, None)
    /\ UNCHANGED handle

\* The call is given up; the request may still be on its way.
TimeOut(c) ==
    /\ call[c].state = "waiting"
    /\ call' = [call EXCEPT ![c].state =
                   IF c \in Commands \ Explicit THEN "failed" ELSE "idle"]
    /\ back' = {r \in back : r.call # c}
    /\ UNCHANGED <<server, handle, wire, restarts>>

Close ==
    /\ status \notin {"none", "closed"}
    /\ status' = "closed"
    /\ UNCHANGED <<server, binding, sequences, finalization, initial, call, wire, back, restarts>>

\* remember keeps the cursor of whichever response came last.
Remember(r) == binding' = r.window

Shown(r) == r.call \in Commands \cup {"observe"}

Finalized(r) ==
    finalization' = r.over /\ status' = "finalized" /\ UNCHANGED <<binding, initial>>

\* The handle of an attachment is a new one, active whatever the attachment shows.
Attached(r) ==
    binding' = r.window /\ status' = "active" /\ finalization' = None /\ initial' = None

Receive(r) ==
    /\ r \in back
    /\ back' = back \ {r}
    /\ call' = [call EXCEPT ![r.call].state =
           IF r.call \in Queries THEN "idle" ELSE IF r.ok THEN "answered" ELSE "failed"]
    /\ CASE r.ok /\ Shown(r) ->
              /\ Remember(r) /\ status' = StatusAfter(r)
              /\ initial' = IF r.call \in Commands THEN None ELSE initial
              /\ UNCHANGED finalization
         [] r.ok /\ r.call = "finalize" -> Finalized(r)
         [] r.ok /\ r.call = "attach" -> Attached(r)
         [] OTHER -> UNCHANGED <<binding, status, finalization, initial>>
    /\ UNCHANGED <<server, sequences, wire, restarts>>

\* A new process has neither handle nor binding.  The product keeps the ids and the cursors
\* of its explicit submissions.
Restart ==
    /\ restarts < MaxRestarts
    /\ restarts' = restarts + 1
    /\ binding' = None
    /\ sequences' = [w \in Windows |-> 0]
    /\ status' = "none" /\ finalization' = None /\ initial' = None
    /\ call' = [c \in AllCalls |->
           IF call[c].state # "waiting" THEN call[c]
           ELSE [call[c] EXCEPT !.state = IF c \in Commands \ Explicit THEN "failed" ELSE "idle"]]
    /\ back' = {}
    /\ UNCHANGED <<server, wire>>

\* restoreSessionBinding: a binding the product saved
Restore(w) ==
    /\ status = "none" /\ binding = None
    /\ binding' = w
    /\ UNCHANGED <<server, sequences, status, finalization, initial, call, wire, back, restarts>>

-----------------------------------------------------------------------------
\* The server and the network

Known(id) == \E k \in DOMAIN log : log[k].id = id
CommandOf(id) == log[CHOOSE k \in DOMAIN log : log[k].id = id].cmd

Awaited(r) == call[r.call].state = "waiting" /\ call[r.call].attempt = r.attempt
Answer(r, ok) ==
    back' = back \cup {a \in {[call |-> r.call, attempt |-> r.attempt, ok |-> ok, window |-> window', over |-> over']} :
                         Awaited(r)}

\* The id decides first: a repetition is answered, another command under it is refused.
ServeKnown(r) ==
    /\ r \in wire /\ r.call \in Commands /\ Known(r.id)
    /\ wire' = wire \ {r}
    /\ UNCHANGED server
    /\ Answer(r, CommandOf(r.id) = r.call)
    /\ UNCHANGED <<handle, call, restarts>>

ServeNew(r) ==
    /\ r \in wire /\ r.call \in Commands /\ ~Known(r.id)
    /\ wire' = wire \ {r}
    /\ IF r.cursor = window /\ over = "playing"
       THEN /\ log' = Append(log, [id |-> r.id, cmd |-> r.call])
            /\ window' \in {w \in {window, window + 1} : w <= MaxWindow}
            /\ over' = IF r.call \in Ending THEN "terminal" ELSE over
            /\ Answer(r, TRUE)
       ELSE UNCHANGED server /\ Answer(r, FALSE)
    /\ UNCHANGED <<handle, call, restarts>>

ServeOther(r) ==
    /\ r \in wire /\ r.call \notin Commands
    /\ wire' = wire \ {r}
    /\ IF r.call = "finalize" /\ over # "playing"
       THEN over' = "finalized" /\ UNCHANGED <<window, log>>
       ELSE UNCHANGED server
    /\ Answer(r, r.call # "finalize" \/ over' = "finalized")
    /\ UNCHANGED <<handle, call, restarts>>

\* Another participant's input moves the window on.
Advance ==
    /\ window < MaxWindow /\ over = "playing"
    /\ window' = window + 1
    /\ UNCHANGED <<log, over, handle, call, wire, back, restarts>>

-----------------------------------------------------------------------------
Next ==
    \/ \E c \in Commands : Act(c) \/ ActExplicit(c)
    \/ \E c \in AllCalls : TimeOut(c)
    \/ Observe \/ ObserveInitial \/ Attach \/ Finalize \/ Close \/ Restart \/ Advance
    \/ \E r \in Existing : Adopt(r)
    \/ \E w \in 0..window : Restore(w)
    \/ \E r \in back : Receive(r)
    \/ \E r \in wire : ServeKnown(r) \/ ServeNew(r) \/ ServeOther(r)

Spec == Init /\ [][Next]_vars

-----------------------------------------------------------------------------
TypeOK ==
    /\ binding \in Windows \cup {None}
    /\ status \in {"none", "active", "terminal", "finalized", "closed"}
    /\ \A c \in AllCalls : call[c].state \in {"idle", "waiting", "answered", "failed"}

\* Whatever is lost, late or retried, and although a new process counts its ids from 0 again,
\* a command takes effect at most once, and a call that succeeds was about its own command.
CommandsCountOnce ==
    /\ \A j, k \in DOMAIN log : log[j].cmd = log[k].cmd => j = k
    /\ \A c \in Commands : call[c].state = "answered" => \E k \in DOMAIN log : log[k].cmd = c

\* Within a process, two submissions never go out under one generated id.
FreshIds ==
    restarts = 0 => \A c, d \in Commands \ Explicit :
        c # d /\ call[c].id # None => call[c].id # call[d].id

-----------------------------------------------------------------------------
\* The inductive invariant of these properties.

\* The ids of generated submissions, and of the product's own.
Ids == {None} \cup (Windows \X Nat) \cup ({None} \X Explicit)
Cursors == Windows \cup {None}
States == {"idle", "waiting", "answered", "failed"}
Overs == {"playing", "terminal", "finalized"}
Requests == [call : AllCalls, id : Ids, cursor : Cursors, attempt : Nat]
Responses == [call : AllCalls, attempt : Nat, ok : BOOLEAN, window : Windows, over : Overs]
Generated == Commands \ Explicit

ServerTyped ==
    /\ window \in Windows /\ over \in Overs /\ log \in Seq([id : Ids, cmd : Commands])
    /\ wire \subseteq Requests /\ back \subseteq Responses
ClientTyped ==
    /\ binding \in Cursors /\ sequences \in [Windows -> Nat] /\ restarts \in Nat
    /\ status \in {"none", "active", "terminal", "finalized", "closed"}
    /\ call \in [AllCalls -> [state : States, id : Ids, cursor : Cursors, attempt : Nat]]

Sent(c) == {r \in wire : r.call = c}
Logged(c) == {k \in DOMAIN log : log[k].cmd = c}
\* A submission with a generated id goes out once, and is served after that.
SentOnce ==
    \A c \in Generated :
        /\ call[c].attempt = 0 => Sent(c) = {} /\ Logged(c) = {}
        /\ Sent(c) # {} => Logged(c) = {}
        /\ \A r, q \in Sent(c) : r = q
\* A retried one always goes out under the same id.
SameId ==
    \A c \in Explicit : /\ \A r \in Sent(c) : r.id = <<None, c>>
                        /\ \A k \in Logged(c) : log[k].id = <<None, c>>
CountedOnce == \A c \in Commands : \A j, k \in Logged(c) : j = k
\* Who hears that a command was accepted hears it of one in the log.
AnswersHonest ==
    /\ \A a \in back : a.call \in Commands /\ a.ok => Logged(a.call) # {}
    /\ \A c \in Commands : call[c].state = "answered" => Logged(c) # {}
\* Until a restart, ids are below the counters they come from.
IdsCounted ==
    restarts = 0 =>
        /\ \A c \in Generated : call[c].id # None =>
              \E w \in Windows : \E n \in Nat : call[c].id = <<w, n>> /\ n < sequences[w]
        /\ FreshIds
ClientInv ==
    ServerTyped /\ ClientTyped /\ SentOnce /\ SameId /\ CountedOnce /\ AnswersHonest /\ IdsCounted
=============================================================================
