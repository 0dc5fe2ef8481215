-------------------------- MODULE TranscriptRecheck --------------------------
(***************************************************************************)
(* The legacy transcript (engine/replay.ts): the actions of a finished     *)
(* run, numbered, with the disguised and the real id of each and, in a     *)
(* ticked run, the tick; recheckTranscript simulates them again and        *)
(* compares the outcome with the one recorded.                             *)
(*                                                                         *)
(* The product's state is the ticks so far, each with an action or empty.  *)
(* A move of Winning wins; a run that has lasted Deadline ticks is lost.   *)
(* A transcript does not hold the empty ticks after its last action, so a  *)
(* run lost in one of them is outside the model.                           *)
(***************************************************************************)
EXTENDS Naturals, Sequences, SequencesExt, FiniteSets

CONSTANTS Perm,        \* the disguise: from wire number to canonical number
          Winning, Controls, Deadline, Bases, None

VARIABLES ticked, state, transcript, header, fault
vars == <<ticked, state, transcript, header, fault>>

Wires == DOMAIN Perm

Status(s) ==
    CASE \E k \in DOMAIN s : s[k] \in Winning -> "won"
      [] Len(s) >= Deadline -> "failed"
      [] OTHER -> "playing"
ActionsUsed(s) == Cardinality({k \in DOMAIN s : s[k] \notin Controls \cup {None}})

-----------------------------------------------------------------------------
\* recheckTranscriptInternal

\* The tick an action is taken to be at: its own, or that of the action before
Effective(t, k) ==
    LET ticks == {0} \cup {t[j].tick : j \in {i \in 1..k : t[i].tick # None}}
    IN  CHOOSE m \in ticks : \A n \in ticks : n <= m

IsControl(a) == a.wire \in Controls \/ a.canonical \in Controls
ControlsAgree(a) == a.wire \in Controls /\ a.wire = a.canonical
InRange(a) == a.wire \in Wires /\ a.canonical \in {Perm[w] : w \in Wires}
ActionOK(a) == IF IsControl(a) THEN ControlsAgree(a) ELSE InRange(a)

\* What is wrong with the records, before any of them is simulated
Malformed(t) ==
    \/ t # <<>> /\ t[1].n \notin {0, 1}
    \/ \E k \in DOMAIN t :
         \/ t[k].n # t[1].n + k - 1
         \/ ~ActionOK(t[k])
         \/ ~IsControl(t[k]) /\ InRange(t[k]) /\ Perm[t[k].wire] # t[k].canonical
         \/ t[k].tick # None /\ k > 1 /\ t[k].tick < Effective(t, k - 1)

\* One record: the empty ticks before it, unless the run is over, then the action
Empties(from, to) == [k \in 1..(IF to > from + 1 THEN to - from - 1 ELSE 0) |-> None]
Simulated(t) ==
    LET Take(out, k) ==
            LET at == Effective(t, k)
                idle == IF at > out.last THEN out.state \o Empties(out.last, at) ELSE out.state
            IN  IF out.stopped THEN out
                ELSE IF Status(idle) # "playing" THEN [out EXCEPT !.state = idle, !.stopped = TRUE]
                ELSE [out EXCEPT
                        !.state = IF ActionOK(t[k]) THEN Append(idle, t[k].canonical) ELSE idle,
                        !.last = IF at > @ THEN at ELSE @]
        \* the records from the first to the last
    IN  FoldLeft(Take, [state |-> <<>>, last |-> -1, stopped |-> FALSE], [k \in DOMAIN t |-> k])

Accepted(t, h) ==
    LET out == Simulated(t)
    IN  /\ ~Malformed(t) /\ ~out.stopped
        /\ Status(out.state) = h.status
        /\ ActionsUsed(out.state) = h.used

-----------------------------------------------------------------------------
Init ==
    /\ ticked \in BOOLEAN
    /\ state = <<>>
    /\ transcript = <<>>
    /\ header = None
    /\ fault = "none"

Recorded(base, wire, canonical) ==
    Append(transcript, [n |-> base + Len(transcript), wire |-> wire, canonical |-> canonical,
                        tick |-> IF ticked THEN Len(state) ELSE None])
Base == IF transcript = <<>> THEN Bases ELSE {transcript[1].n}

\* The run: a move under its disguise, a control of the host, an empty tick
Move(base, wire) ==
    /\ header = None /\ Status(state) = "playing"
    /\ state' = Append(state, Perm[wire])
    /\ transcript' = Recorded(base, wire, Perm[wire])
    /\ UNCHANGED <<ticked, header, fault>>

Control(base, c) ==
    /\ header = None /\ Status(state) = "playing"
    /\ state' = Append(state, c)
    /\ transcript' = Recorded(base, c, c)
    /\ UNCHANGED <<ticked, header, fault>>

Idle ==
    /\ header = None /\ ticked
    /\ Status(Append(state, None)) = "playing"
    /\ state' = Append(state, None)
    /\ UNCHANGED <<ticked, transcript, header, fault>>

Finish ==
    /\ header = None /\ Status(state) # "playing"
    /\ header' = [status |-> Status(state), used |-> ActionsUsed(state)]
    /\ UNCHANGED <<ticked, state, transcript, fault>>

\* What may happen to a stored transcript: a record lost or repeated, two exchanged, one
\* given another real id, or another tick
Damage(kind, t) ==
    /\ header # None /\ fault = "none"
    /\ t # transcript
    /\ transcript' = t
    /\ fault' = kind
    /\ UNCHANGED <<ticked, state, header>>

Swapped(j, k) == [transcript EXCEPT ![j] = transcript[k], ![k] = transcript[j]]
Moves == {k \in DOMAIN transcript : transcript[k].wire \in Wires}

Next ==
    \/ \E base \in Base : \E wire \in Wires : Move(base, wire)
    \/ \E base \in Base : \E c \in Controls : Control(base, c)
    \/ Idle
    \/ Finish
    \/ \E k \in Moves : Damage("lost", RemoveAt(transcript, k))
    \/ \E k \in Moves : Damage("repeated", InsertAt(transcript, k, transcript[k]))
    \/ \E j, k \in Moves : Damage("exchanged", Swapped(j, k))
    \/ \E k \in Moves, w \in Wires : Damage("rewired", [transcript EXCEPT ![k].canonical = Perm[w]])
    \/ \E k \in Moves : Damage("later", [transcript EXCEPT ![k].tick = IF @ = None THEN 0 ELSE @ + 1])

Spec == Init /\ [][Next]_vars

-----------------------------------------------------------------------------
\* Properties

TypeOK ==
    /\ fault \in {"none", "lost", "repeated", "exchanged", "rewired", "later"}
    /\ Len(state) <= Deadline
    /\ header # None /\ fault = "none" => Len(transcript) >= 1

\* The transcript of a finished run is accepted, and simulates to the run's own state.
HonestAccepted ==
    (header # None /\ fault = "none") =>
        Accepted(transcript, header) /\ Simulated(transcript).state = state

\* A transcript with a move lost, repeated, exchanged with another or given another real id
\* is not accepted.
DamageNoticed ==
    fault \in {"lost", "repeated", "exchanged", "rewired"} => ~Accepted(transcript, header)
=============================================================================
