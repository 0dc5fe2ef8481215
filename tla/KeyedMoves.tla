------------------------------ MODULE KeyedMoves ------------------------------
(***************************************************************************)
(* Simultaneous movement (engine/movement.ts, resolveKeyedMoves): intents  *)
(* are taken back, pass after pass, until those left can all be carried    *)
(* out at once.  Cells are their keys, movers the order of their ids.      *)
(***************************************************************************)
EXTENDS Integers, FiniteSets

CONSTANTS Ids,      \* the movers, numbers in the order of their ids
          Cells,
          Intents   \* [from, to, priority, swapOk, occupies, blocked]: functions of
                    \* the movers, occupies of a mover one of its anchors; blocked
                    \* has the cells no mover may enter

VARIABLES intent, moving, settled
vars == <<intent, moving, settled>>

Source(id) == intent.occupies[id][intent.from[id]]
Target(id) == intent.occupies[id][intent.to[id]]
Overlap(a, b) == a \cap b # {}

Init == /\ intent \in Intents
        /\ moving = {id \in Ids : intent.from[id] # intent.to[id]}
        /\ settled = FALSE

\* Into the ground, or onto someone who stays.
Barred == {id \in moving : \/ Overlap(Target(id), intent.blocked)
                           \/ \E other \in Ids \ moving : Overlap(Target(id), Source(other))}

\* Head on: the first other whose place it takes and who takes its place.
Opposite(id) == {other \in moving \ {id} : /\ Overlap(Target(id), Source(other))
                                           /\ Overlap(Target(other), Source(id))}
FirstOf(S) == CHOOSE id \in S : \A other \in S : id <= other
Consented(id, other) == other \in intent.swapOk[id] \/ id \in intent.swapOk[other]
HeadOn == UNION {{id, FirstOf(Opposite(id))} :
                    id \in {x \in moving : /\ Opposite(x) # {}
                                           /\ ~Consented(x, FirstOf(Opposite(x)))}}

\* Contests: each mover with its rivals, of whom only the first by priority wins.
Rivals(id) == {other \in moving \ {id} : Overlap(Target(id), Target(other))}
Ahead(a, b) == \/ intent.priority[a] < intent.priority[b]
               \/ intent.priority[a] = intent.priority[b] /\ a <= b
Winner(group) == CHOOSE a \in group : \A b \in group : Ahead(a, b)
Losers == UNION {LET group == {id} \cup Rivals(id) IN group \ {Winner(group)} : id \in moving}

TakeBack(ids) == /\ ~settled /\ ids # {}
                 /\ moving' = moving \ ids
                 /\ UNCHANGED <<intent, settled>>
PassBarred == TakeBack(Barred)
PassHeadOn == Barred = {} /\ TakeBack(HeadOn)
PassContests == Barred = {} /\ HeadOn = {} /\ TakeBack(Losers)
Settle == /\ ~settled /\ Barred = {} /\ HeadOn = {} /\ Losers = {}
          /\ settled' = TRUE
          /\ UNCHANGED <<intent, moving>>
Next == PassBarred \/ PassHeadOn \/ PassContests \/ Settle
Spec == Init /\ [][Next]_vars

----------------------------------------------------------------------------
(* Properties.                                                             *)

At(id) == IF id \in moving THEN Target(id) ELSE Source(id)
TypeOK == moving \subseteq Ids

\* What a set of movers could do together, by the rules and not by the passes.
Swapping(a, b) == Overlap(Target(a), Source(b)) /\ Overlap(Target(b), Source(a))
Possible(S) ==
    /\ \A id \in S : ~Overlap(Target(id), intent.blocked)
    /\ \A id \in S, other \in Ids \ S : ~Overlap(Target(id), Source(other))
    /\ \A a, b \in S : a # b => ~Overlap(Target(a), Target(b))
\* The outcome of the passes can be carried out at once: nobody shares a cell or
\* enters the ground.  When nobody contests a cell or stands head on, it is
\* moreover all that could be: a chain or a rotation moves as soon as it may.
Wanted == {id \in Ids : intent.from[id] # intent.to[id]}
Orderly == \A a, b \in Wanted : a # b => ~Overlap(Target(a), Target(b)) /\ ~Swapping(a, b)
MovesTogether ==
    settled =>
      /\ Possible(moving)
      /\ \A a, b \in Ids : a # b => ~Overlap(At(a), At(b))
      /\ Orderly => moving = UNION {S \in SUBSET Wanted : Possible(S)}
\* A contest is won: of those who want one cell that is free and stays so, one
\* gets there, unless every one of them wants more than that cell or swaps.
Simple == \A id \in Ids, c \in Cells : Cardinality(intent.occupies[id][c]) = 1
ContestsAreWon ==
    settled /\ Simple =>
      \A c \in Cells \ (intent.blocked \cup UNION {Source(id) : id \in Ids}) :
        (\E id \in Wanted : Target(id) = {c}) => \E id \in moving : Target(id) = {c}
=============================================================================
