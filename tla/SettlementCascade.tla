-------------------------- MODULE SettlementCascade --------------------------
(***************************************************************************)
(* Same-tick consequences resolved in waves (engine/settlement.ts): jobs   *)
(* enqueued while a wave runs wait for the next one, a wave is sorted by   *)
(* priority, kind and key, duplicates are repeated, coalesced while they   *)
(* wait, or scheduled once, and a cascade that does not settle within its  *)
(* steps is an error.                                                      *)
(*                                                                         *)
(* The product's resolver is any choice of jobs to enqueue, and to defer   *)
(* the job itself or not.                                                  *)
(***************************************************************************)
EXTENDS Naturals, Sequences, SequencesExt, FiniteSets

CONSTANTS Jobs,        \* by identity: priority and policy; identities compare as text does
          MaxSteps, MaxEnqueue, None

VARIABLES current, next, waiting, once, trace, deferred, sequence, outcome
vars == <<current, next, waiting, once, trace, deferred, sequence, outcome>>

Ids == DOMAIN Jobs

\* schedule: what is refused as a duplicate changes nothing
Duplicate(q, id) ==
    \/ Jobs[id].policy = "once" /\ id \in q.once
    \/ Jobs[id].policy = "coalesce" /\ id \in q.waiting

Schedule(wave, parent, q, id) ==
    IF Duplicate(q, id) THEN q
    ELSE [q EXCEPT
            !.list = Append(@, [id |-> id, sequence |-> q.sequence, wave |-> wave,
                                parent |-> parent]),
            !.sequence = @ + 1,
            !.once = IF Jobs[id].policy = "once" THEN @ \cup {id} ELSE @,
            !.waiting = IF Jobs[id].policy = "coalesce" THEN @ \cup {id} ELSE @]

ScheduleAll(q, wave, parent, ids) == FoldLeft(LAMBDA x, id : Schedule(wave, parent, x, id), q, ids)

\* compareQueued
Before(a, b) ==
    \/ Jobs[a.id].priority < Jobs[b.id].priority
    \/ /\ Jobs[a.id].priority = Jobs[b.id].priority
       /\ a.id < b.id \/ (a.id = b.id /\ a.sequence < b.sequence)
Sorted(list) == SetToSortSeq(ToSet(list), Before)

Seeds == UNION {[1..n -> Ids] : n \in 1..MaxEnqueue}
Consequences == {<<>>} \cup Seeds

Init ==
    \E seeds \in Seeds :
        LET q == ScheduleAll([list |-> <<>>, sequence |-> 0, once |-> {}, waiting |-> {}], 0, None, seeds)
        IN  /\ current = Sorted(q.list)
            /\ waiting = q.waiting
            /\ once = q.once
            /\ sequence = q.sequence
            /\ next = <<>>
            /\ trace = <<>>
            /\ deferred = <<>>
            /\ outcome = "running"

\* The next job of the wave: a coalesced one may be scheduled again from here on
Resolve(ids, defers) ==
    /\ outcome = "running" /\ current # <<>> /\ Len(trace) < MaxSteps
    /\ LET job == Head(current)
           q == ScheduleAll([list |-> next, sequence |-> sequence, once |-> once,
                             waiting |-> waiting \ {job.id}],
                            job.wave + 1, Len(trace) + 1, ids)
       IN  /\ trace' = Append(trace, job)
           /\ waiting' = q.waiting
           /\ once' = q.once
           /\ sequence' = q.sequence
           /\ deferred' = IF defers THEN Append(deferred, job.id) ELSE deferred
           /\ IF Len(current) > 1
              THEN current' = Tail(current) /\ next' = q.list
              ELSE current' = Sorted(q.list) /\ next' = <<>>
    /\ UNCHANGED outcome

\* SettlementLimitError, thrown before the job that is one too many
Limit ==
    /\ outcome = "running" /\ current # <<>> /\ Len(trace) = MaxSteps
    /\ outcome' = "limit"
    /\ UNCHANGED <<current, next, waiting, once, trace, deferred, sequence>>

Quiet ==
    /\ outcome = "running" /\ current = <<>>
    /\ outcome' = "settled"
    /\ UNCHANGED <<current, next, waiting, once, trace, deferred, sequence>>

Next ==
    \/ \E ids \in Consequences, defers \in BOOLEAN : Resolve(ids, defers)
    \/ Limit
    \/ Quiet

Spec == Init /\ [][Next]_vars

-----------------------------------------------------------------------------
\* Properties

Scheduled == current \o next \o trace

TypeOK ==
    /\ outcome \in {"running", "limit", "settled"}
    /\ Len(trace) <= MaxSteps
    /\ waiting \cup once \subseteq Ids

\* No scheduled job is lost or run twice; once means once, and of a coalesced job at most
\* one waits at any time, whichever wave it is in.
EachScheduledOnce ==
    /\ {Scheduled[k].sequence : k \in DOMAIN Scheduled} = 0..(sequence - 1)
    /\ Len(Scheduled) = sequence
    /\ \A id \in Ids :
         /\ Jobs[id].policy = "once" =>
              Cardinality({k \in DOMAIN Scheduled : Scheduled[k].id = id}) <= 1
         /\ Jobs[id].policy = "coalesce" =>
              Cardinality({k \in DOMAIN (current \o next) : (current \o next)[k].id = id}) <= 1
    /\ outcome = "settled" => Len(trace) = sequence

\* A consequence runs in the wave after its cause, waves run in order, and within a wave
\* a job never runs after one it comes before.
WavesInOrder ==
    \A j, k \in DOMAIN trace :
        /\ trace[k].parent = j => trace[k].wave = trace[j].wave + 1 /\ j < k
        /\ j < k => /\ trace[j].wave <= trace[k].wave
                    /\ trace[j].wave = trace[k].wave => ~Before(trace[k], trace[j])
=============================================================================
