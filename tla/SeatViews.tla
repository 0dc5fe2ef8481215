------------------------------- MODULE SeatViews -------------------------------
(***************************************************************************)
(* Information partitions (engine/information.ts): the view of a seat,     *)
(* derived from the full view by who may see the entries of a zone, their  *)
(* order, and the cells of a board; teams share what they see.  A twin of  *)
(* the full view changes on its own, as the variants of a leak check do.   *)
(***************************************************************************)
EXTENDS Integers, Sequences, SequencesExt, FiniteSets, TLC

CONSTANTS Seats,
          Teams,      \* a sequence of [id, seats]
          Policies,   \* [identity, order, cells, mode]: two visibilities, the cells
                      \* the seat sees, and "absent" or "shell"
          Entries,    \* what a zone holds, as numbers in the order of their keys
          Slots, Cells, Ranks, MaxZone, None,
          Entities,   \* 1..n, in the order the board lists them
          Boards      \* bound: where the entities of the full view stand

VARIABLES policy, full, twin, ranking
vars == <<policy, full, twin, ranking>>

\* A zone is a row of entries or slots, some of them empty.
Rows == UNION {[1..n -> Entries] : n \in 0..MaxZone}
Row(row) == [entries |-> row, slots |-> None, count |-> Len(row)]
Slotted(slots) == [entries |-> None, slots |-> slots,
                   count |-> Cardinality({s \in Slots : slots[s] # None})]
Zone == {Row(row) : row \in Rows} \cup {Slotted(slots) : slots \in [Slots -> Entries \cup {None}]}
View(zone, entities) == [zone |-> zone, entities |-> entities]

Init == /\ policy \in Policies
        /\ full \in {View(zone, board) : zone \in Zone, board \in Boards}
        /\ twin = full
        /\ ranking = <<>>

\* The twin changes, as a bound before teams are ranked: its zone, or where an entity is.
ZoneDiffers(zone) ==
    /\ ranking = <<>> /\ zone # twin.zone
    /\ twin' = [twin EXCEPT !.zone = zone]
    /\ UNCHANGED <<policy, full, ranking>>
EntityMoves(e, cell) ==
    /\ ranking = <<>> /\ cell # twin.entities[e]
    /\ twin' = [twin EXCEPT !.entities[e] = cell]
    /\ UNCHANGED <<policy, full, ranking>>

----------------------------------------------------------------------------
(* Teams.                                                                  *)

TeamsOf(seat) == SelectSeq(Teams, LAMBDA t : seat \in t.seats)
TeamVisibility(seat) ==
    [kind |-> "seats", seats |-> IF TeamsOf(seat) = <<>> THEN {seat} ELSE TeamsOf(seat)[1].seats]
VisibilityAllows(visibility, seat) ==
    \/ visibility.kind = "public"
    \/ visibility.kind = "seats" /\ seat \in visibility.seats
    \/ visibility.kind = "team" /\ seat \in TeamVisibility(visibility.of).seats

\* outcomeForTeams: every team once, each member with the rank of its team.  It reads
\* no view: a bound lets it run while the two are the same.
Rank(order, ranks) ==
    /\ ranking = <<>> /\ twin = full
    /\ Len(order) = Len(Teams) /\ ToSet(order) = {Teams[i].id : i \in DOMAIN Teams}
    /\ ranking' = FlattenSeq([i \in DOMAIN order |->
          LET team == SelectSeq(Teams, LAMBDA t : t.id = order[i])[1] IN
          SetToSeq({[seat |-> s, rank |-> ranks[i]] : s \in team.seats})])
    /\ UNCHANGED <<policy, full, twin>>

----------------------------------------------------------------------------
(* deriveSeatView.                                                         *)

Present(zone) == IF zone.entries # None THEN zone.entries
                 ELSE SelectSeq([i \in 1..Cardinality(Slots) |-> zone.slots[SetToSeq(Slots)[i]]],
                                LAMBDA x : x # None)
Shown(zone, entries, slots, ordered) ==
    [count |-> zone.count, entries |-> entries, slots |-> slots, ordered |-> ordered]
RedactZone(zone, seat) ==
    IF ~VisibilityAllows(policy.identity, seat) THEN Shown(zone, None, None, FALSE)
    ELSE IF ~VisibilityAllows(policy.order, seat)
    THEN Shown(zone, SortSeq(Present(zone), LAMBDA a, b : a < b), None, FALSE)
    ELSE Shown(zone, zone.entries, zone.slots, TRUE)

\* A board lists its entities in a row; a shell keeps the place of its entity in it.
RedactBoard(entities) ==
    LET Tell(e) == IF entities[e] \in policy.cells THEN <<[at |-> entities[e], entity |-> e]>>
                   ELSE IF policy.mode = "shell" THEN <<[at |-> entities[e], entity |-> None]>>
                   ELSE <<>>
    IN FlattenSeq([e \in 1..Cardinality(Entities) |-> Tell(e)])
DeriveSeatView(view, seat) ==
    [zone |-> RedactZone(view.zone, seat), board |-> RedactBoard(view.entities)]

Next == \/ \E zone \in Zone : ZoneDiffers(zone)
        \/ \E e \in Entities, cell \in Cells : EntityMoves(e, cell)
        \/ \E order \in UNION {[1..n -> {Teams[i].id : i \in DOMAIN Teams}] : n \in {Len(Teams)}},
              ranks \in [1..Len(Teams) -> Ranks] : Rank(order, ranks)
Spec == Init /\ [][Next]_vars

----------------------------------------------------------------------------
(* Properties.                                                             *)

TypeOK == full.zone \in Zone /\ twin.zone \in Zone

\* What the policy lets a seat tell apart, said without the derivation.
Times(x, zone) == Cardinality({i \in DOMAIN Present(zone) : Present(zone)[i] = x})
SameZone(v, w, seat) ==
    /\ v.count = w.count
    /\ VisibilityAllows(policy.identity, seat) =>
          /\ \A x \in Entries : Times(x, v) = Times(x, w)
          /\ VisibilityAllows(policy.order, seat) => v = w
\* A shell tells that somebody is in a hidden cell, not who.
Hidden(v, cell) == {e \in Entities : v[e] = cell} \cap {e \in Entities : cell \notin policy.cells}
SameBoard(v, w) ==
    /\ \A e \in Entities : {v[e], w[e]} \cap policy.cells # {} => v[e] = w[e]
    /\ policy.mode = "shell" =>
          \A cell \in Cells : Cardinality(Hidden(v, cell)) = Cardinality(Hidden(w, cell))
\* A seat's view of two states is the same exactly when they differ in nothing the policy
\* lets it see: neither more nor less is shown. Of a board with shells this is said of what
\* stands on it, whatever the order of the list.
Alike(board, other) ==
    \A x \in ToSet(board) \cup ToSet(other) :
        Cardinality({i \in DOMAIN board : board[i] = x})
            = Cardinality({i \in DOMAIN other : other[i] = x})
SeesWhatItMay ==
    \A seat \in Seats :
        LET view == DeriveSeatView(full, seat)
            other == DeriveSeatView(twin, seat)
            same == SameBoard(full.entities, twin.entities)
        IN  /\ (view.zone = other.zone) <=> SameZone(full.zone, twin.zone, seat)
            /\ Alike(view.board, other.board) <=> same
            /\ policy.mode = "absent" => ((view.board = other.board) <=> same)
\* No invariant: a shell stands at the place of its entity in the list, so a seat notices
\* when two hidden entities change places, and can follow each of them.
ShellsHaveNoPlace ==
    \A seat \in Seats : SameBoard(full.entities, twin.entities) =>
        DeriveSeatView(full, seat).board = DeriveSeatView(twin, seat).board
\* Team mates fare alike, and nobody is ranked twice.
TeamsFareAlike ==
    \A i, j \in DOMAIN ranking :
        /\ ranking[i].seat = ranking[j].seat => i = j
        /\ TeamVisibility(ranking[i].seat) = TeamVisibility(ranking[j].seat)
              => ranking[i].rank = ranking[j].rank
=============================================================================
