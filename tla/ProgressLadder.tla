---------------------------- MODULE ProgressLadder ----------------------------
(***************************************************************************)
(* Waiting with progress (room-agent-runtime.ts, waitWithRoomAgentProgress *)
(* and mergeRoomAgentInputFragments): a ladder of silences over work that  *)
(* may settle, fail or never end, with an abort at any moment; and speech  *)
(* that comes in fragments, each joined to what was heard before.          *)
(***************************************************************************)
EXTENDS Naturals, Sequences

CONSTANTS Rungs,      \* delays given
          Fragments,  \* texts, as sequences of letters
          MaxLength, MaxFragments, None

VARIABLES work,      \* "pending", "value", "error"
          aborted,
          at,        \* the generator: "idle", "racing", "raced", "yielded", "over"
          rung,      \* rungs climbed
          outcome,   \* what the race gave
          out,       \* what was yielded or thrown
          heard, spoken
ladder == <<work, aborted, at, rung, outcome, out>>
vars == <<work, aborted, at, rung, outcome, out, heard, spoken>>

Init == /\ work = "pending" /\ aborted \in BOOLEAN
        /\ at = "idle" /\ rung = 0 /\ outcome = None /\ out = <<>>
        /\ heard = None /\ spoken = <<>>

WorkSettles(how) ==
    /\ work = "pending" /\ work' = how
    /\ UNCHANGED <<aborted, at, rung, outcome, out, heard, spoken>>
Abort ==
    /\ ~aborted /\ aborted' = TRUE
    /\ UNCHANGED <<work, at, rung, outcome, out, heard, spoken>>

\* The consumer asks for more: the next race begins, unless it was aborted.
Ask ==
    /\ at \in {"idle", "yielded"}
    /\ at' = IF aborted THEN "over" ELSE "racing"
    /\ UNCHANGED <<work, aborted, rung, outcome, out, heard, spoken>>
\* Promise.race: the work, the abort, or the timer while there is a rung left.
Race(winner) ==
    /\ at = "racing"
    /\ CASE winner = "work" -> work # "pending"
         [] winner = "abort" -> aborted
         [] winner = "rung" -> rung < Rungs
    /\ outcome' = IF winner = "work" THEN work ELSE winner
    /\ at' = "raced"
    /\ UNCHANGED <<work, aborted, rung, out, heard, spoken>>
Yield(entry) == out' = Append(out, entry)
Resume ==
    /\ at = "raced"
    /\ IF aborted THEN at' = "over" /\ UNCHANGED <<rung, out>>
       ELSE IF outcome = "rung"
       THEN at' = "yielded" /\ rung' = rung + 1 /\ Yield(<<"progress", rung + 1>>)
       ELSE at' = "over" /\ rung' = rung /\ Yield(<<outcome, 0>>)
    /\ UNCHANGED <<work, aborted, outcome, heard, spoken>>

----------------------------------------------------------------------------
(* Fragments.                                                              *)

Take(text, n) == IF n < Len(text) THEN SubSeq(text, 1, n) ELSE text
Begins(text, part) == Len(part) <= Len(text) /\ \A k \in DOMAIN part : text[k] = part[k]
Ends(text, part) ==
    /\ Len(part) <= Len(text)
    /\ \A k \in DOMAIN part : text[Len(text) - Len(part) + k] = part[k]
Joined(previous, latest) ==
    IF Begins(latest, previous) THEN latest
    ELSE IF Ends(previous, latest) THEN previous
    ELSE previous \o <<"blank">> \o latest
Merged(previous, latest) ==
    LET left == MaxLength - Len(latest) IN
    IF Len(Joined(previous, latest)) <= MaxLength THEN Joined(previous, latest)
    ELSE IF left < 3 THEN Take(latest, MaxLength)
    ELSE Take(previous, left - 2) \o <<"cut", "blank">> \o latest
Speak(latest) ==
    /\ Len(spoken) < MaxFragments /\ spoken' = Append(spoken, latest)
    /\ heard' = IF heard = None THEN latest ELSE Merged(heard, latest)
    /\ UNCHANGED ladder

Next == \/ \E how \in {"value", "error"} : WorkSettles(how)
        \/ \E winner \in {"work", "abort", "rung"} : Race(winner)
        \/ Abort \/ Ask \/ Resume
        \/ \E f \in Fragments : Speak(f)
Spec == Init /\ [][Next]_vars

----------------------------------------------------------------------------
(* Properties.                                                             *)

TypeOK == rung <= Rungs /\ (out # <<>> => at # "idle")

\* The ladder is honest: rungs in order without a gap, then at most the one
\* outcome of the work and nothing after it.
LadderHonest ==
    \A i \in DOMAIN out :
        \/ out[i] = <<"progress", i>>
        \/ i = Len(out) /\ out[i] = <<work, 0>> /\ at = "over"
\* An abort exposes nothing more.
ShowsNoMore == aborted => out' = out

\* The newest fragment is kept whole, or as much as there is room for, at the end.
NewestKept ==
    spoken # <<>> =>
        /\ Ends(heard, Take(spoken[Len(spoken)], MaxLength)) \/ Len(spoken) = 1
        /\ Len(spoken) > 1 => Len(heard) <= MaxLength

----------------------------------------------------------------------------
(* The inductive invariant of these properties: until the ladder is over   *)
(* it has shown the rungs climbed and nothing else, and what a race gave   *)
(* is still so.                                                            *)

Letters == {"cut", "blank"} \cup UNION {{f[k] : k \in DOMAIN f} : f \in Fragments}
LadderTyped ==
    /\ work \in {"pending", "value", "error"} /\ aborted \in BOOLEAN
    /\ at \in {"idle", "racing", "raced", "yielded", "over"} /\ rung \in 0..Rungs
    /\ out \in Seq(({"progress"} \X Nat) \cup ({"value", "error"} \X {0}))
    /\ spoken \in Seq(Fragments) /\ (spoken = <<>> => heard = None)
    /\ (spoken # <<>> => heard \in Seq(Letters))
RaceHolds ==
    at = "raced" =>
        \/ outcome = "rung" /\ rung < Rungs
        \/ outcome = work /\ work # "pending"
        \/ outcome = "abort" /\ aborted
Climbed ==
    /\ (at # "over" => Len(out) = rung) /\ (at = "idle" => out = <<>>)
    /\ \A i \in DOMAIN out :
        \/ out[i] = <<"progress", i>>
        \/ i = Len(out) /\ at = "over" /\ out[i] = <<work, 0>> /\ work # "pending"
LadderInv == LadderTyped /\ RaceHolds /\ Climbed /\ NewestKept
=============================================================================
