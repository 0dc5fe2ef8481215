------------------------------ MODULE RunStreams ------------------------------
(***************************************************************************)
(* The live stream of a room run (room-agent-runtime.ts, startRun and      *)
(* RoomAgentRunEventQueue): what the run journals is pushed to a queue, a  *)
(* consumer asks for it ahead or behind, and the end of the run closes or  *)
(* fails the queue.  An entry is its number in the journal.                *)
(***************************************************************************)
EXTENDS Naturals, Sequences

CONSTANTS MaxEntries, MaxAsks

VARIABLES journal,  \* entries the run has journalled
          run,      \* "running", "completed", "failed"
          values,   \* entries nobody has asked for yet
          waiters,  \* asks that wait for an entry, by number
          ended,    \* "open", "closed", "failed"
          asks,     \* asks so far
          answers   \* what each ask was answered
vars == <<journal, run, values, waiters, ended, asks, answers>>

Unanswered == <<"none", 0>>
Entry(n) == <<"entry", n>>
Init == /\ journal = 0 /\ run = "running"
        /\ values = <<>> /\ waiters = <<>> /\ ended = "open"
        /\ asks = 0 /\ answers = [n \in 1..MaxAsks |-> Unanswered]

\* onEvent: pushed once it is in the journal; the waiter of longest gets it.
Emit ==
    /\ run = "running" /\ journal < MaxEntries
    /\ journal' = journal + 1
    /\ IF waiters = <<>>
       THEN values' = Append(values, journal + 1) /\ UNCHANGED <<waiters, answers>>
       ELSE /\ answers' = [answers EXCEPT ![waiters[1]] = Entry(journal + 1)]
            /\ waiters' = Tail(waiters) /\ values' = values
    /\ UNCHANGED <<run, ended, asks>>

RunEnds(how) ==
    /\ run = "running" /\ run' = how
    /\ UNCHANGED <<journal, values, waiters, ended, asks, answers>>
Waiting == {waiters[k] : k \in DOMAIN waiters}
\* Mutant: the end settles the waiters and keeps them.
SettleForgetting(end, answer) ==
    /\ ended = "open" /\ ended' = end
    /\ answers' = [n \in 1..MaxAsks |-> IF n \in Waiting THEN answer ELSE answers[n]]
    /\ UNCHANGED <<journal, run, values, waiters, asks>>
\* Mutant: the end drops the waiters unanswered.
SettleUnanswered(end, answer) ==
    /\ ended = "open" /\ ended' = end
    /\ waiters' = <<>>
    /\ UNCHANGED <<journal, run, values, asks, answers>>
\* close and fail settle every waiter; the queue learns of the end later.
Settle(end, answer) ==
    /\ ended = "open" /\ ended' = end
    /\ answers' = [n \in 1..MaxAsks |-> IF n \in Waiting THEN answer ELSE answers[n]]
    /\ waiters' = <<>>
    /\ UNCHANGED <<journal, run, values, asks>>
Close == run = "completed" /\ Settle("closed", <<"done", 0>>)
Fail == run = "failed" /\ Settle("failed", <<"threw", 0>>)

\* next: what is there first, then the failure or the end, and else it waits.
Answered(answer) == answers' = [answers EXCEPT ![asks + 1] = answer]
Ask ==
    /\ asks < MaxAsks /\ asks' = asks + 1
    /\ IF values # <<>>
       THEN Answered(Entry(values[1])) /\ values' = Tail(values) /\ waiters' = waiters
       ELSE IF ended = "open"
       THEN waiters' = Append(waiters, asks + 1) /\ UNCHANGED <<values, answers>>
       ELSE /\ Answered(IF ended = "failed" THEN <<"threw", 0>> ELSE <<"done", 0>>)
            /\ UNCHANGED <<values, waiters>>
    /\ UNCHANGED <<journal, run, ended>>

Next == Emit \/ (\E how \in {"completed", "failed"} : RunEnds(how)) \/ Close \/ Fail \/ Ask
Spec == Init /\ [][Next]_vars
FairSpec == Spec /\ WF_vars(Close \/ Fail)

----------------------------------------------------------------------------
(* Properties.                                                             *)

TypeOK == /\ waiters = <<>> \/ values = <<>>
          /\ ended # "open" => waiters = <<>>

\* Nothing journalled is lost or turned round: the asks are answered with the
\* entries in order and then with the end, which comes after the last entry.
StreamWhole ==
    \A n \in 1..asks :
        answers[n] # Unanswered =>
            IF n <= journal THEN answers[n] = Entry(n)
            ELSE /\ run # "running"
                 /\ answers[n] = IF run = "failed" THEN <<"threw", 0>> ELSE <<"done", 0>>
\* No consumer waits for ever for a run that is over.
Owed(n) == run # "running" /\ asks >= n
IsAnswered(n) == answers[n] # Unanswered
NobodyWaits == \A n \in 1..MaxAsks : Owed(n) ~> IsAnswered(n)

----------------------------------------------------------------------------
(* The inductive invariant of these properties: the first asks have had    *)
(* all entries but those in values, in order, and the asks after them wait *)
(* or were told of the end.                                                *)

Served == journal - Len(values)
EndReply == IF run = "failed" THEN <<"threw", 0>> ELSE <<"done", 0>>
Replies == {Unanswered, <<"done", 0>>, <<"threw", 0>>} \cup ({"entry"} \X Nat)
StreamTyped ==
    /\ journal \in Nat /\ asks \in 0..MaxAsks
    /\ run \in {"running", "completed", "failed"} /\ ended \in {"open", "closed", "failed"}
    /\ values \in Seq(Nat) /\ waiters \in Seq(1..MaxAsks)
    /\ answers \in [1..MaxAsks -> Replies]
InOrder ==
    /\ Served \in 0..asks /\ (values # <<>> => Served = asks)
    /\ \A k \in DOMAIN values : values[k] = Served + k
    /\ \A n \in 1..Served : answers[n] = Entry(n)
    /\ \A n \in (asks + 1)..MaxAsks : answers[n] = Unanswered
TheRest ==
    IF ended = "open"
    THEN /\ Len(waiters) = asks - Served
         /\ \A k \in DOMAIN waiters : waiters[k] = Served + k
         /\ \A n \in (Served + 1)..asks : answers[n] = Unanswered
    ELSE /\ waiters = <<>>
         /\ run = IF ended = "closed" THEN "completed" ELSE "failed"
         /\ \A n \in (Served + 1)..asks : answers[n] = EndReply
StreamInv == StreamTyped /\ InOrder /\ TheRest
=============================================================================
