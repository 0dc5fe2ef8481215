------------------------ MODULE MultiAgentEnvironment ------------------------
(***************************************************************************)
(* The shared environment of several seat policies                         *)
(* (engine/multi-agent-environment.ts) and the episode that asks them      *)
(* concurrently (runMultiAgentEpisode): the policies of a tick answer in   *)
(* any order, or fail; a seat without a policy, or whose policy declines,  *)
(* waits; the answers become one batch in seat order, and a batch is taken *)
(* whole or not at all.                                                    *)
(*                                                                         *)
(* The product's reducer keeps the whole past.  Who takes part in a tick   *)
(* depends on the number of ticks before it (Sitting); a move may be made  *)
(* once, and one of Winning ends the game; a level of Decided is over from *)
(* the start.  A reward is not finite after a move of RewardLost.          *)
(***************************************************************************)
EXTENDS Naturals, Sequences, SequencesExt, FiniteSets

CONSTANTS Levels, Decided,
          SeatOrder,    \* the configured seats, in text order
          Sitting,      \* for each tick, its participation: a mode and a sequence of seats
          Moves, Winning, Wait, Policies, MaxTicks, RewardLost, MaxResets, None

VARIABLES
    env,      \* the environment's fields
    asked,    \* the participants whose policies were asked for this tick
    answers,  \* what they answered, by seat
    phase,    \* "idle", "asking", "done" or "failed": the episode
    resets

vars == <<env, asked, answers, phase, resets>>

Seated == ToSet(SeatOrder)

-----------------------------------------------------------------------------
\* The product's reducer: its state is the sequence of batches taken

Used(s) == {b.id : b \in UNION {ToSet(s[k]) : k \in DOMAIN s}}
Status(level, s) ==
    IF level \in Decided \/ Used(s) \cap Winning # {} THEN "won" ELSE "playing"
LegalFor(s) == (Moves \ Used(s)) \cup {Wait}
Participation(s) == Sitting[Len(s) + 1]
RewardFor(next, seat) ==
    IF Used(next) \cap Winning # {} /\ seat \in {a.seat : a \in ToSet(Last(next))} THEN 1 ELSE 0

-----------------------------------------------------------------------------
\* The environment

\* reset: a level may be over before anybody moved
Started(level) ==
    [level |-> level, state |-> <<>>, ticks |-> 0, truncated |-> FALSE,
     ended |-> Status(level, <<>>) # "playing",
     totals |-> [s \in Seated |-> 0], records |-> <<>>, error |-> None]

\* participatingSeats: unique configured seats, sorted
Participating(s) ==
    SelectSeq(SeatOrder, LAMBDA seat : seat \in ToSet(Participation(s).seats))

Batch(s, intents) ==
    LET seats == Participating(s)
    IN  [k \in DOMAIN seats |-> [seat |-> seats[k],
                                 id |-> IF intents[seats[k]] = None THEN Wait
                                        ELSE intents[seats[k]]]]

Refusal(e, intents) ==
    LET batch == Batch(e.state, intents)
    IN  CASE e.ended -> "episode_done"
          [] ~ (DOMAIN intents \subseteq ToSet(Participating(e.state))) -> "invalid_participation"
          [] \E k \in DOMAIN batch : batch[k].id \notin LegalFor(e.state) -> "illegal_action"
          [] Participation(e.state).mode # "simultaneous" /\ Len(batch) # 1 ->
               "invalid_participation"
          [] OTHER -> None

\* step: the state advances before the rewards are looked at
Stepped(e, intents) ==
    IF Refusal(e, intents) # None THEN [e EXCEPT !.error = Refusal(e, intents)]
    ELSE
        LET all == [s \in ToSet(Participating(e.state)) |->
                      IF s \in DOMAIN intents THEN intents[s] ELSE None]
            batch == Batch(e.state, all)
            next == Append(e.state, batch)
            moved == [e EXCEPT !.state = next, !.ticks = @ + 1]
            over == Status(e.level, next) # "playing"
        IN  IF \E k \in DOMAIN batch : batch[k].id \in RewardLost THEN [moved EXCEPT !.error = "reward"]
            ELSE [moved EXCEPT
                    !.totals = [s \in Seated |-> e.totals[s] + RewardFor(next, s)],
                    !.ended = over \/ moved.ticks >= MaxTicks,
                    !.truncated = ~over /\ moved.ticks >= MaxTicks,
                    !.records = Append(@, [n |-> moved.ticks, actions |-> batch]),
                    !.error = None]

\* replay: per tick the batch's actions by seat; a failure ends it
IntentsOf(batch) ==
    [s \in {batch[k].seat : k \in DOMAIN batch} |->
        batch[CHOOSE k \in DOMAIN batch : batch[k].seat = s].id]
Replayed(level, batches) ==
    FoldLeft(LAMBDA e, b : IF e.error = None THEN Stepped(e, IntentsOf(b)) ELSE e,
             Started(level), batches)

TranscriptOf(e) ==
    [level |-> e.level, ticks |-> [k \in DOMAIN e.records |-> e.records[k].actions],
     count |-> e.ticks, totals |-> e.totals, terminated |-> e.ended /\ ~e.truncated, truncated |-> e.truncated]

-----------------------------------------------------------------------------
Init ==
    /\ env \in {Started(level) : level \in Levels}
    /\ asked = {}
    /\ answers = <<>>
    /\ phase = "idle"
    /\ resets = 0

\* runMultiAgentEpisode resets the environment and asks the first participants
Begin ==
    /\ phase \in {"idle", "done", "failed"}
    /\ resets < MaxResets
    /\ resets' = resets + 1
    /\ env' = Started(env.level)
    /\ phase' = IF env'.ended THEN "done" ELSE "asking"
    /\ asked' = IF env'.ended THEN {} ELSE ToSet(Participating(<<>>))
    /\ answers' = [s \in asked' \ Policies |-> None]

\* One policy resolves; None is a policy that returns nothing
Answer(seat, move) ==
    /\ phase = "asking"
    /\ seat \in asked \ DOMAIN answers
    /\ answers' = [s \in DOMAIN answers \cup {seat} |-> IF s = seat THEN move ELSE answers[s]]
    /\ UNCHANGED <<env, asked, phase, resets>>

\* One policy fails: the episode fails, the other policies are left running
PolicyFails(seat) ==
    /\ phase = "asking"
    /\ seat \in asked \ DOMAIN answers
    /\ phase' = "failed"
    /\ UNCHANGED <<env, asked, answers, resets>>

\* All have answered: one step of the environment
Resolve ==
    /\ phase = "asking"
    /\ DOMAIN answers = asked
    /\ LET e == Stepped(env, answers)
           next == IF e.error # None THEN "failed" ELSE IF e.ended THEN "done" ELSE "asking"
           seats == IF next = "asking" THEN ToSet(Participating(e.state)) ELSE {}
       IN  /\ env' = e
           /\ phase' = next
           /\ asked' = seats
           /\ answers' = [s \in seats \ Policies |-> None]
    /\ UNCHANGED resets

Next ==
    \/ Begin
    \/ \E seat \in Seated : \E move \in Moves \cup {None} : Answer(seat, move)
    \/ \E seat \in Seated : PolicyFails(seat)
    \/ Resolve

Spec == Init /\ [][Next]_vars /\ WF_vars(Begin) /\ WF_vars(Resolve)
             /\ \A seat \in Seated : WF_vars(PolicyFails(seat) \/ \E m \in Moves \cup {None} : Answer(seat, m))

-----------------------------------------------------------------------------
\* Properties

TypeOK ==
    /\ phase \in {"idle", "asking", "done", "failed"}
    /\ DOMAIN answers \subseteq asked /\ asked \subseteq Seated
    /\ env.error \in {None, "episode_done", "illegal_action", "invalid_participation", "reward"}

\* The batches of a transcript, replayed, give the same state, totals and ending. Where a
\* reward was refused after the state had advanced, the transcript says so: it counts one
\* tick more than it records, and replays to the state before that tick.
TranscriptReplays ==
    LET transcript == TranscriptOf(env)
        short == transcript.count # Len(transcript.ticks)
        again == Replayed(transcript.level, transcript.ticks)
    IN  /\ short <=> env.error = "reward"
        /\ again.state = IF short THEN Front(env.state) ELSE env.state
        /\ ~short => again = [env EXCEPT !.error = None] /\ TranscriptOf(again) = transcript

\* A tick takes exactly one action of each participant, in seat order whatever the order of
\* the answers, and only one move of the game ever ends it.
BatchesWhole ==
    \A k \in DOMAIN env.state :
        LET batch == env.state[k]
            before == SubSeq(env.state, 1, k - 1)
        IN  /\ [j \in DOMAIN batch |-> batch[j].seat] = Participating(before)
            /\ Status(env.level, before) = "playing"

\* Policies that answer or fail bring an episode to an end.
EpisodeEnds == (phase = "asking") ~> (phase \in {"done", "failed"})
=============================================================================
