------------------------------- MODULE RoomVote -------------------------------
(***************************************************************************)
(* The tally of a room's vote (room-interaction.ts, resolveRoomVote): the  *)
(* ballots are cast one after the other and any one of them may be bad,    *)
(* which refuses the whole tally.                                          *)
(***************************************************************************)
EXTENDS Naturals, Sequences, SequencesExt, FiniteSets, FiniteSetsExt

CONSTANTS Options,      \* in the order they are offered
          TieBreaks,    \* orders of all options; the first tied one wins
          Eligible, Voters, Choosable, MaxCasts, None

VARIABLES tieBreak, casts, counts, refused
vars == <<tieBreak, casts, counts, refused>>

Init == /\ tieBreak \in TieBreaks
        /\ casts = <<>> /\ refused = FALSE
        /\ counts = [o \in ToSet(Options) |-> 0]

\* One round of the loop over the ballots.
Cast(voter, option) ==
    LET bad == \/ voter \notin Eligible \/ option \notin ToSet(Options)
               \/ \E i \in DOMAIN casts : casts[i].voter = voter
    IN
    /\ ~refused /\ Len(casts) < MaxCasts
    /\ refused' = bad
    /\ casts' = Append(casts, [voter |-> voter, option |-> option])
    /\ counts' = IF bad THEN counts ELSE [counts EXCEPT ![option] = @ + 1]
    /\ UNCHANGED tieBreak
Next == \E voter \in Voters, option \in Choosable : Cast(voter, option)
Spec == Init /\ [][Next]_vars

\* The result of a tally that was not refused.
Tied == SelectSeq(Options, LAMBDA o : counts[o] = Max({counts[x] : x \in ToSet(Options)}))
Winner == IF casts = <<>> THEN None ELSE SelectSeq(tieBreak, LAMBDA o : o \in ToSet(Tied))[1]

----------------------------------------------------------------------------
(* Properties.                                                             *)

TypeOK == \A o \in ToSet(Options) : counts[o] \in 0..MaxCasts

\* Nobody decides twice: a result is of one ballot of each voter, and the winner
\* beats every option before it in the tie break and is not beaten by those after.
OneBallotEach ==
    ~refused =>
      /\ \A i, j \in DOMAIN casts : casts[i].voter = casts[j].voter => i = j
      /\ FoldFunction(LAMBDA n, m : n + m, 0, counts) = Len(casts)
      /\ casts # <<>> =>
           \A i, w \in DOMAIN tieBreak : tieBreak[w] = Winner =>
              LET ballots(o) == Cardinality({k \in DOMAIN casts : casts[k].option = o})
              IN IF i < w THEN ballots(tieBreak[i]) < ballots(Winner)
                 ELSE ballots(tieBreak[i]) <= ballots(Winner)
=============================================================================
