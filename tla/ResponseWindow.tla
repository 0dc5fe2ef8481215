--------------------------- MODULE ResponseWindow ---------------------------
(***************************************************************************)
(* A window in which seats answer one another                              *)
(* (engine/response-windows.ts): priority goes round, a response enters    *)
(* the stack, and the window closes once every seat has passed in a row;   *)
(* a timeout is a pass of the seat that holds priority.  The closed window *)
(* is unwound last response first.                                         *)
(***************************************************************************)
EXTENDS Naturals, Sequences, SequencesExt

CONSTANTS SeatOrder, Responses, MaxEntries, MaxPending

VARIABLES window, resolved
vars == <<window, resolved>>

N == Len(SeatOrder)
Holder == SeatOrder[window.priority + 1]
NextPriority == (window.priority + 1) % N

\* openResponseWindow, with responses already pending
Opened(first, pending) ==
    [priority |-> first, passes |-> 0, next |-> Len(pending), closed |-> FALSE,
     stack |-> [k \in DOMAIN pending |-> [sequence |-> k - 1, seat |-> pending[k].seat,
                                          response |-> pending[k].response]],
     passed |-> <<>>]

Pending == UNION {[1..n -> [seat : ToSet(SeatOrder), response : Responses]] : n \in 0..MaxPending}

Init ==
    /\ \E first \in 0..(N - 1), pending \in Pending : window = Opened(first, pending)
    /\ resolved = <<>>

\* Mutant: an answer leaves the passes before it counted.
SubmitKeepingPasses(seat, response) ==
    /\ ~window.closed /\ seat = Holder
    /\ window.next < MaxEntries
    /\ window' = [window EXCEPT !.priority = NextPriority, !.next = @ + 1,
                    !.stack = Append(@, [sequence |-> window.next, seat |-> seat,
                                         response |-> response])]
    /\ UNCHANGED resolved

\* submitResponse: only the holder of priority, only while open
Submit(seat, response) ==
    /\ ~window.closed /\ seat = Holder
    /\ window.next < MaxEntries
    /\ window' = [window EXCEPT !.priority = NextPriority, !.passes = 0, !.next = @ + 1,
                    !.stack = Append(@, [sequence |-> window.next, seat |-> seat,
                                         response |-> response])]
    /\ UNCHANGED resolved

\* passResponsePriority
Passed(seat, reason) ==
    [window EXCEPT !.priority = NextPriority, !.passes = @ + 1, !.next = @ + 1,
                   !.passed = Append(@, [sequence |-> window.next, seat |-> seat,
                                         reason |-> reason]),
                   !.closed = window.passes + 1 = N]

Pass(seat, reason) ==
    /\ ~window.closed /\ seat = Holder
    /\ window' = Passed(seat, reason)
    /\ UNCHANGED resolved

\* timeoutResponsePriority: a deadline may come after the holder has answered; it then
\* passes for the seat that holds priority by now
Timeout ==
    /\ ~window.closed
    /\ window' = Passed(Holder, "timeout")
    /\ UNCHANGED resolved

\* unwindResponseWindow
Unwind ==
    /\ window.closed /\ resolved = <<>>
    /\ resolved' = Reverse(window.stack)
    /\ UNCHANGED window

Next ==
    \/ \E seat \in ToSet(SeatOrder), response \in Responses : Submit(seat, response)
    \/ \E seat \in ToSet(SeatOrder), reason \in {"pass", "wait"} : Pass(seat, reason)
    \/ Timeout
    \/ Unwind

Spec == Init /\ [][Next]_vars

-----------------------------------------------------------------------------
\* Properties

TypeOK ==
    /\ window.priority \in 0..(N - 1) /\ window.passes \in 0..N
    /\ window.next = Len(window.stack) + Len(window.passed)

\* The window closes only when, after the last response, each seat has passed exactly once;
\* until then a seat is still to pass, and what is unwound is the stack, last first.
ClosesAfterAllPass ==
    /\ window.closed =>
         LET k == Len(window.passed) - N
         IN  /\ k >= 0
             /\ {window.passed[j].seat : j \in (k + 1)..(k + N)} = ToSet(SeatOrder)
             /\ \A e \in ToSet(window.stack) : e.sequence < window.passed[k + 1].sequence
    /\ ~window.closed => window.passes < N
    /\ \A j, k \in DOMAIN resolved : j < k => resolved[j].sequence > resolved[k].sequence
=============================================================================
