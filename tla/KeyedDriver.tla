----------------------------- MODULE KeyedDriver -----------------------------
(***************************************************************************)
(* The hosted-model driver (agent/keyed.ts, the OpenAI-compatible and the  *)
(* Anthropic class): one request at a time, retried after transient        *)
(* answers, aborted by interrupt, reset or a deadline, and a history of    *)
(* complete exchanges bounded in turns and in bytes.                       *)
(*                                                                         *)
(* An abort reaches a request that still waits for its provider, whose act *)
(* then fails a little later; one whose answer has been read (landed) goes *)
(* on.  A context is a number that is its size in bytes, an answer has     *)
(* size 1.                                                                 *)
(***************************************************************************)
EXTENDS Naturals, Sequences, SequencesExt

CONSTANTS Sizes, SystemSize, MaxTurns, MaxBytes, MaxRetries, MaxActs, None

VARIABLES
    history,   \* the exchanges kept: the act and the size of its context
    active,    \* the act whose controller is activeRequest
    acts,      \* the acts so far: how each one stands
    sent,      \* the exchanges of the history that each request carried
    resetAt    \* the number of acts begun when reset was last called

vars == <<history, active, acts, sent, resetAt>>

Stages == {"waiting", "sleeping", "aborted", "landed", "done", "failed"}
Running == {"waiting", "sleeping", "aborted", "landed"}

Bytes(h) == FoldLeft(LAMBDA total, e : total + e.size + 1, 0, h)
Suffix(h, n) == SubSeq(h, Len(h) - n + 1, Len(h))

\* boundedMessages: the longest end of the history that fits beside system and context
Fitting(h, size) ==
    LET ns == {n \in 0..Len(h) : SystemSize + size + Bytes(Suffix(h, n)) <= MaxBytes}
    IN  Suffix(h, CHOOSE n \in ns : \A m \in ns : m <= n)

\* After an exchange: at most MaxTurns, then the oldest go while the bytes exceed the
\* limit, but never the last one
Trimmed(h) ==
    LET turns == IF Len(h) > MaxTurns THEN Suffix(h, MaxTurns) ELSE h
        ns == {n \in 0..Len(turns) : n <= 1 \/ Bytes(Suffix(turns, n)) <= MaxBytes}
    IN  Suffix(turns, CHOOSE n \in ns : \A m \in ns : m <= n)

Init ==
    /\ history = <<>>
    /\ active = None
    /\ acts = <<>>
    /\ sent = <<>>
    /\ resetAt = 0

Abort(a) ==
    [n \in DOMAIN acts |->
        IF n = a /\ acts[n].stage \in {"waiting", "sleeping"}
        THEN [acts[n] EXCEPT !.stage = "aborted"] ELSE acts[n]]

\* act: refused while a request is active; a context that does not fit fails at once
Act(size) ==
    /\ active = None
    /\ Len(acts) < MaxActs
    /\ LET fits == SystemSize + size <= MaxBytes
           n == Len(acts) + 1
       IN  /\ acts' = Append(acts, [stage |-> IF fits THEN "waiting" ELSE "failed",
                                    size |-> size, tries |-> 0])
           /\ sent' = Append(sent, IF fits THEN Fitting(history, size) ELSE <<>>)
           /\ active' = IF fits THEN n ELSE None
    /\ UNCHANGED <<history, resetAt>>

Cleared(n) == IF active = n THEN None ELSE active

\* requestWithRetries: a transient answer or a network error, retried after a delay
Transient(n) ==
    /\ acts[n].stage = "waiting"
    /\ acts' = [acts EXCEPT ![n].stage = IF acts[n].tries < MaxRetries
                                         THEN "sleeping" ELSE "failed"]
    /\ active' = IF acts[n].tries < MaxRetries THEN active ELSE Cleared(n)
    /\ UNCHANGED <<history, sent, resetAt>>

Retry(n) ==
    /\ acts[n].stage = "sleeping"
    /\ acts' = [acts EXCEPT ![n].stage = "waiting", ![n].tries = @ + 1]
    /\ UNCHANGED <<history, active, sent, resetAt>>

\* The deadline of the whole call, or the caller's signal
Deadline(n) ==
    /\ acts[n].stage \in {"waiting", "sleeping"}
    /\ acts' = Abort(n)
    /\ UNCHANGED <<history, active, sent, resetAt>>

\* The aborted request rejects, and its act with it
Unwind(n) ==
    /\ acts[n].stage = "aborted"
    /\ acts' = [acts EXCEPT ![n].stage = "failed"]
    /\ active' = Cleared(n)
    /\ UNCHANGED <<history, sent, resetAt>>

\* The whole answer has been read
Land(n) ==
    /\ acts[n].stage = "waiting"
    /\ acts' = [acts EXCEPT ![n].stage = "landed"]
    /\ UNCHANGED <<history, active, sent, resetAt>>

\* The continuation: a legal decision adds its exchange; an illegal one, or an answer that
\* cannot be parsed, adds nothing
Continue(n, legal) ==
    /\ acts[n].stage = "landed"
    /\ acts' = [acts EXCEPT ![n].stage = IF legal THEN "done" ELSE "failed"]
    /\ history' = IF legal THEN Trimmed(Append(history, [act |-> n, size |-> acts[n].size]))
                  ELSE history
    /\ active' = Cleared(n)
    /\ UNCHANGED <<sent, resetAt>>

\* interrupt: the active request is aborted and stays active until its act fails
Interrupt ==
    /\ active # None
    /\ acts' = Abort(active)
    /\ UNCHANGED <<history, active, sent, resetAt>>

Reset ==
    /\ history' = <<>>
    /\ acts' = IF active = None THEN acts ELSE Abort(active)
    /\ active' = None
    /\ resetAt' = Len(acts)
    /\ UNCHANGED sent

Next ==
    \/ \E size \in Sizes : Act(size)
    \/ \E n \in DOMAIN acts : Transient(n)
    \/ \E n \in DOMAIN acts : Retry(n)
    \/ \E n \in DOMAIN acts : Deadline(n)
    \/ \E n \in DOMAIN acts : Unwind(n)
    \/ \E n \in DOMAIN acts : Land(n)
    \/ \E n \in DOMAIN acts : \E legal \in BOOLEAN : Continue(n, legal)
    \/ Interrupt
    \/ Reset

Spec == Init /\ [][Next]_vars

-----------------------------------------------------------------------------
\* Properties

TypeOK ==
    /\ \A n \in DOMAIN acts : acts[n].stage \in Stages /\ acts[n].tries \in 0..MaxRetries
    /\ active \in DOMAIN acts \cup {None}
    /\ Len(sent) = Len(acts)

\* Whatever runs and was begun since the last reset can be interrupted: it is the active
\* request, so two of them never overlap.
RunningIsActive ==
    \A n \in DOMAIN acts :
        (acts[n].stage \in Running /\ n > resetAt) => active = n

\* The history and every request hold whole exchanges that ended in a legal decision, in
\* order, within the bounds of turns and bytes.
HistoryWhole ==
    /\ \A h \in {history} \cup {sent[n] : n \in DOMAIN sent} :
         /\ \A j, k \in DOMAIN h : j < k => h[j].act # h[k].act
         /\ \A k \in DOMAIN h : acts[h[k].act].stage = "done"
         /\ Len(h) <= MaxTurns
    /\ Len(history) > 1 => Bytes(history) <= MaxBytes
    /\ \A n \in DOMAIN sent :
         sent[n] # <<>> => SystemSize + acts[n].size + Bytes(sent[n]) <= MaxBytes
=============================================================================
