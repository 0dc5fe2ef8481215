----------------------------- MODULE PhaseClock -----------------------------
(***************************************************************************)
(* The phases of a round (engine/phases.ts) and the statuses that last     *)
(* until some boundary (engine/durations.ts).  The product advances the    *)
(* phase and then the durations: at the end of the phase left and, when    *)
(* the cycle is complete, at the end of the round; counters are spent at   *)
(* any time.                                                               *)
(***************************************************************************)
EXTENDS Naturals, Sequences, SequencesExt, FiniteSets

CONSTANTS Phases,       \* their ids, in order
          Durations,    \* kind, phase (None: any), remaining
          Statuses,     \* ids; authored in the order of the numbers
          MaxCycles, None

VARIABLES phase, active, expired, due, owed
vars == <<phase, active, expired, due, owed>>

N == Len(Phases)

\* advancePhase: exit, the end of the cycle, enter
Events(p) ==
    LET wraps == p.index = N
        to == [index |-> IF wraps THEN 1 ELSE p.index + 1,
               cycle |-> IF wraps THEN p.cycle + 1 ELSE p.cycle]
    IN  [phase |-> to,
         events |-> <<[type |-> "exited", phase |-> Phases[p.index]]>>
                    \o (IF wraps THEN <<[type |-> "completed", cycle |-> p.cycle]>> ELSE <<>>)
                    \o <<[type |-> "entered", phase |-> Phases[to.index]]>>]

\* advanceDurations at a boundary: what stays active, and what expires in authored order
Expires(s, boundary) ==
    \/ /\ s.duration.kind = "until-phase-end" /\ boundary.kind = "phase-end"
       /\ s.duration.phase \in {None, boundary.phase}
    \/ /\ s.duration.kind = "rounds" /\ boundary.kind = "round-end"
       /\ s.duration.remaining = 1

Counted(s, boundary) ==
    IF s.duration.kind = "rounds" /\ boundary.kind = "round-end"
    THEN [s EXCEPT !.duration.remaining = @ - 1] ELSE s

Advanced(list, boundary) ==
    [active |-> LET kept == SelectSeq(list, LAMBDA s : ~Expires(s, boundary))
                IN  [k \in DOMAIN kept |-> Counted(kept[k], boundary)],
     expired |-> SetToSortSeq({s \in ToSet(list) : Expires(s, boundary)},
                              LAMBDA a, b : a.id < b.id)]

Init ==
    /\ \E first \in 1..N : phase = [index |-> first, cycle |-> 1]
    /\ active = <<>>
    /\ expired = <<>>
    /\ due = <<>>     \* boundaries the product has still to hand on
    /\ owed = <<>>    \* by status, the boundaries it has seen since it was gained

Boundaries(events) ==
    LET from == [k \in DOMAIN events |->
                    CASE events[k].type = "exited" -> [kind |-> "phase-end", phase |-> events[k].phase]
                      [] events[k].type = "completed" -> [kind |-> "round-end"]
                      [] OTHER -> [kind |-> "none"]]
    IN  SelectSeq(from, LAMBDA b : b.kind # "none")

Gain(id, d) ==
    /\ due = <<>>
    /\ id \notin {s.id : s \in ToSet(active \o expired)}
    /\ active' = Append(active, [id |-> id, duration |-> d])
    /\ owed' = [i \in DOMAIN owed \cup {id} |-> IF i = id THEN [duration |-> d, seen |-> <<>>] ELSE owed[i]]
    /\ UNCHANGED <<phase, expired, due>>

Advance ==
    /\ due = <<>> /\ phase.cycle < MaxCycles
    /\ phase' = Events(phase).phase
    /\ due' = Boundaries(Events(phase).events)
    /\ UNCHANGED <<active, expired, owed>>

Boundary ==
    /\ due # <<>>
    /\ LET out == Advanced(active, Head(due))
       IN  /\ active' = out.active
           /\ expired' = expired \o out.expired
    /\ owed' = [i \in DOMAIN owed |->
                  IF i \in {s.id : s \in ToSet(active)}
                  THEN [owed[i] EXCEPT !.seen = Append(@, Head(due))] ELSE owed[i]]
    /\ due' = Tail(due)
    /\ UNCHANGED phase

\* spendStatusCounters: one status, not below zero; at zero it expires
Spend(id, count) ==
    /\ \E k \in DOMAIN active :
        /\ active[k].id = id /\ active[k].duration.kind = "counters"
        /\ count <= active[k].duration.remaining
        /\ IF count = active[k].duration.remaining
           THEN /\ active' = RemoveAt(active, k)
                /\ expired' = Append(expired, active[k])
           ELSE /\ active' = [active EXCEPT ![k].duration.remaining = @ - count]
                /\ UNCHANGED expired
    /\ UNCHANGED <<phase, due, owed>>

Next ==
    \/ \E id \in Statuses, d \in Durations : Gain(id, d)
    \/ Advance
    \/ Boundary
    \/ \E id \in Statuses, count \in 1..2 : Spend(id, count)

Spec == Init /\ [][Next]_vars

-----------------------------------------------------------------------------
\* Properties

TypeOK ==
    /\ phase.index \in 1..N /\ phase.cycle \in 1..MaxCycles
    /\ \A k \in DOMAIN active : active[k].duration.remaining > 0

\* A status lasts until exactly the boundary it was given: n rounds are n ends of a round,
\* whichever phase it was gained in, and a phase ends it the first time it is left.
LastsAsGiven ==
    \A id \in DOMAIN owed :
        LET d == owed[id].duration
            seen == owed[id].seen
            rounds == Len(SelectSeq(seen, LAMBDA b : b.kind = "round-end"))
            ends == Len(SelectSeq(seen, LAMBDA b :
                       IF b.kind = "phase-end" THEN d.phase \in {None, b.phase} ELSE FALSE))
            gone == id \in {s.id : s \in ToSet(expired)}
        IN  CASE d.kind = "rounds" -> gone = (rounds >= d.remaining)
              [] d.kind = "until-phase-end" -> gone = (ends >= 1)
              [] OTHER -> TRUE
=============================================================================
