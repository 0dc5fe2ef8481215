---------------------------- MODULE PortalTransits ----------------------------
(***************************************************************************)
(* Portals (engine/portals.ts): following the edges of every entrant for a *)
(* bounded number of passes, arbitration of the room at the destinations,  *)
(* and the commit of the plan on the state it was made for.  A place is    *)
(* the key of a location, an edge the number it was authored under, and an *)
(* entity's form the edges that transformed it.                            *)
(***************************************************************************)
EXTENDS Integers, Sequences, SequencesExt, FiniteSets, FiniteSetsExt

CONSTANTS Edges,     \* <<[from, to, priority, both], ...>>, as authored
          Zones,     \* the places that are zones: one claim for the whole
          Occupies,  \* the cells an entity occupies at a place of a board
          Capacity,  \* room at a claim; one unless the product says more
          Worlds,    \* [entrants, active, denied, closed, invalid, mode, passes]
          MaxChanges, None

VARIABLES world,     \* what the product asked and its policy answers
          stage,     \* "planning", "planned", or how it ended
          paths,     \* the path of every entrant looked at
          rejected,  \* why an entrant was rejected
          transits,  \* the plan: <<entrant, pass>>, in order
          changes,   \* how often the product's state changed since planning began
          entities   \* committed: where each entrant is, and its form
vars == <<world, stage, paths, rejected, transits, changes, entities>>

Entrants == world.entrants
Init == /\ world \in Worlds
        /\ stage = "planning" /\ paths = <<>> /\ transits = <<>> /\ changes = 0
        /\ rejected = [i \in DOMAIN world.entrants |-> None]
        /\ entities = [i \in DOMAIN world.entrants |->
                          [at |-> world.entrants[i].at, form |-> <<>>]]

----------------------------------------------------------------------------
(* Edges and destinations.                                                 *)

Below(s, t) == \E k \in DOMAIN s : s[k] < t[k] /\ \A j \in 1..(k - 1) : s[j] = t[j]

\* orientEdges: an edge that goes both ways is two, under one number.
Oriented == {o \in [n : DOMAIN Edges, back : BOOLEAN] : o.back => Edges[o.n].both}
From(o) == IF o.back THEN Edges[o.n].to ELSE Edges[o.n].from
To(o) == IF o.back THEN Edges[o.n].from ELSE Edges[o.n].to
EdgeRank(o) == <<Edges[o.n].priority, o.n, IF o.back THEN 1 ELSE 0>>

\* edgeCandidates: the active edges that leave here, in order.
Departing(at, chosen) ==
    SetToSortSeq({o \in Oriented : /\ From(o) = at /\ o.n \in world.active
                                   /\ chosen \in {None, o.n}},
                 LAMBDA o, p : Below(EdgeRank(o), EdgeRank(p)))
Usable(e, candidates) == SelectSeq(candidates, LAMBDA o : <<e.id, o.n>> \notin world.denied)

\* destinationFor: the claims of the destination; none when it is invalid.
Claims(e, to) == IF to \in Zones THEN {to} ELSE Occupies[e.id][to]
Refusal(to) == IF to \in world.invalid THEN "invalid_destination"
               ELSE IF to \in world.closed THEN "destination_blocked" ELSE None

\* withPortalNeighbors: where a search is told an entity may go from here.
Advised(e, at) ==
    {To(o) : o \in {x \in ToSet(Usable(e, Departing(at, None))) : Refusal(To(x)) = None}}

----------------------------------------------------------------------------
(* planPortalTransits: one entrant after the other.                        *)

NewPath(e) == [at |-> e.at, chosen |-> e.edge, steps |-> <<>>, end |-> None]
Visited(e, p) == {e.at} \cup {To(p.steps[k]) : k \in DOMAIN p.steps}
Ended(p, code) == [p EXCEPT !.end = code]

Taken(e, p, o) ==
    LET on == [p EXCEPT !.at = To(o), !.chosen = None, !.steps = Append(@, o)] IN
    IF Usable(e, Departing(To(o), None)) = <<>> THEN Ended(on, "arrived")
    ELSE IF Len(on.steps) = world.passes THEN Ended(on, "pass_limit") ELSE on
Pass(e, p) ==
    LET leaving == Departing(p.at, p.chosen)
        usable == Usable(e, leaving)
    IN
    IF p.end # None THEN p
    ELSE IF usable = <<>>
    THEN Ended(p, IF leaving # <<>> THEN "transit_denied"
                  ELSE IF p.chosen # None THEN "unknown_edge" ELSE "inactive")
    ELSE IF Refusal(To(usable[1])) # None THEN Ended(p, Refusal(To(usable[1])))
    ELSE IF To(usable[1]) \in Visited(e, p) THEN Ended(p, "cycle")
    ELSE Taken(e, p, usable[1])
PathOf(e) == FoldLeft(LAMBDA p, n : Pass(e, p), NewPath(e), [n \in 1..world.passes |-> n])

Follow ==
    LET i == Len(paths) + 1
        e == Entrants[i]
        path == PathOf(e)
        again == \E j \in 1..(i - 1) : Entrants[j].id = e.id
    IN
    /\ stage = "planning" /\ i \in DOMAIN Entrants
    /\ paths' = Append(paths, path)
    /\ stage' = IF again THEN "duplicate_entity"
                ELSE IF path.end \in {"cycle", "pass_limit"} THEN path.end ELSE stage
    /\ rejected' = IF path.end = "arrived" THEN rejected ELSE [rejected EXCEPT ![i] = path.end]
    /\ UNCHANGED <<world, transits, changes, entities>>

----------------------------------------------------------------------------
(* Arbitration.                                                            *)

Members(g) == {i \in DOMAIN Entrants : Entrants[i].group = g}
Broken == {Entrants[i].group : i \in {j \in DOMAIN Entrants : rejected[j] # None}}
Candidates == {Entrants[i].group : i \in DOMAIN Entrants} \ Broken

WaveOf(i, pass) == Entrants[i].wave + pass - 1
\* What a group claims: the entrant, the wave and the place, once each.
ClaimsOf(g) ==
    UNION {{<<i, WaveOf(i, k), c>> : c \in Claims(Entrants[i], To(paths[i].steps[k]))} :
              <<i, k>> \in {x \in Members(g) \X (1..world.passes) : x[2] \in DOMAIN paths[x[1]].steps}}
Use(groups, wave, place) ==
    Cardinality({c \in UNION {ClaimsOf(g) : g \in groups} : c[2] = wave /\ c[3] = place})
Fits(groups, g) ==
    \A c \in ClaimsOf(g) : Use(groups \cup {g}, c[2], c[3]) <= Capacity[c[3]]

StepRank(i, pass) ==
    LET o == paths[i].steps[pass] IN
    <<WaveOf(i, pass), Edges[o.n].priority, o.n, Entrants[i].priority, i, pass>>
\* comparePath: a group goes by its best member, and that by its first step.
BestMember(g) == CHOOSE i \in Members(g) :
                    \A j \in Members(g) \ {i} : Below(StepRank(i, 1), StepRank(j, 1))
InTurn == SetToSortSeq(Candidates, LAMBDA g, h : Below(StepRank(BestMember(g), 1),
                                                       StepRank(BestMember(h), 1)))
Accepted ==
    IF world.mode = "all-fail" THEN {g \in Candidates : Fits(Candidates, g)}
    ELSE FoldLeft(LAMBDA groups, g : IF Fits(groups, g) THEN groups \cup {g} ELSE groups,
                  {}, InTurn)

Arbitrate ==
    LET won == UNION {Members(g) : g \in Accepted}
        steps == UNION {{<<i, k>> : k \in DOMAIN paths[i].steps} : i \in won}
    IN
    /\ stage = "planning" /\ Len(paths) = Len(Entrants)
    /\ stage' = "planned"
    /\ transits' = SetToSortSeq(steps, LAMBDA x, y : Below(StepRank(x[1], x[2]), StepRank(y[1], y[2])))
    /\ rejected' = [i \in DOMAIN Entrants |->
                      IF rejected[i] # None \/ i \in won THEN rejected[i]
                      ELSE IF Entrants[i].group \in Broken THEN "group_failed" ELSE "contested"]
    /\ UNCHANGED <<world, paths, changes, entities>>

----------------------------------------------------------------------------
(* commitPortalTransits, and the product whose state may have moved on.    *)

ProductMoves ==
    /\ stage \in {"planning", "planned"} /\ changes < MaxChanges
    /\ changes' = changes + 1
    /\ UNCHANGED <<world, stage, paths, rejected, transits, entities>>
Passed(at, x) ==
    LET o == paths[x[1]].steps[x[2]] IN
    [at EXCEPT ![x[1]] = [at |-> To(o), form |-> Append(@.form, o.n)]]
Commit ==
    /\ stage = "planned"
    /\ IF changes # 0 THEN stage' = "stale_plan" /\ entities' = entities
       ELSE stage' = "committed" /\ entities' = FoldLeft(Passed, entities, transits)
    /\ UNCHANGED <<world, paths, rejected, transits, changes>>

Next == Follow \/ Arbitrate \/ ProductMoves \/ Commit
Spec == Init /\ [][Next]_vars

----------------------------------------------------------------------------
(* Properties.                                                             *)

Planned == stage \in {"planned", "stale_plan", "committed"}
Goes(i) == \E x \in ToSet(transits) : x[1] = i
TypeOK == /\ stage \in {"planning", "planned", "committed", "stale_plan", "cycle", "pass_limit",
                        "duplicate_entity"}
          /\ Len(paths) <= Len(Entrants)
          /\ \A x \in ToSet(transits) : x[2] \in DOMAIN paths[x[1]].steps

\* Nobody is lost on the way: every entrant either goes its whole path or is
\* told why not, its group with it, and a commit leaves it where the path ends,
\* transformed once by each edge of it in order.
NobodyLost ==
    Planned =>
      \A i \in DOMAIN Entrants :
        /\ Goes(i) <=> rejected[i] = None
        /\ \A j \in Members(Entrants[i].group) : Goes(i) <=> Goes(j)
        /\ \A k \in DOMAIN paths[i].steps : Goes(i) => <<i, k>> \in ToSet(transits)
        /\ stage = "committed" /\ Goes(i) =>
              /\ entities[i].at = paths[i].at
              /\ entities[i].form = [k \in DOMAIN paths[i].steps |-> paths[i].steps[k].n]
        /\ stage # "committed" \/ ~Goes(i) => entities[i] = [at |-> Entrants[i].at, form |-> <<>>]

\* No place is ever over its capacity: at each wave those that enter it fit.
PlacesHold ==
    Planned =>
      \A x \in ToSet(transits) :
        \A c \in Claims(Entrants[x[1]], To(paths[x[1]].steps[x[2]])) :
          Cardinality({y \in ToSet(transits) :
             /\ WaveOf(y[1], y[2]) = WaveOf(x[1], x[2])
             /\ c \in Claims(Entrants[y[1]], To(paths[y[1]].steps[y[2]]))}) <= Capacity[c]

\* The advice of a search can be followed: where it says an entity may go, a
\* plan for that edge goes first, or says that the path from there cycles.
AdviceHolds ==
    \A i \in DOMAIN Entrants : \A to \in Advised(Entrants[i], Entrants[i].at) :
        \E n \in DOMAIN Edges :
            LET path == PathOf([Entrants[i] EXCEPT !.edge = n]) IN
            \/ path.steps # <<>> /\ To(path.steps[1]) = to
            \/ to = Entrants[i].at /\ path.end = "cycle"
=============================================================================
