-------------------------- MODULE AgentEnvironment --------------------------
(***************************************************************************)
(* The single-agent environment (engine/agent-environment.ts): an episode  *)
(* of a product's reducer driven one action at a time, with its reward     *)
(* accounting and its transcript, which "replay" must be able to take back *)
(* to the same state.                                                      *)
(*                                                                         *)
(* The reducer is the product's.  Its state is the level, the seed and the *)
(* actions applied so far, so that two states are equal only when the      *)
(* whole past is.  A move may be made once; a move of Winning ends the     *)
(* game; a level of Over is over when it starts.  The product's reward     *)
(* function returns a number that is not finite after a move of            *)
(* RewardLost.                                                             *)
(***************************************************************************)
EXTENDS Naturals, Sequences, SequencesExt

CONSTANTS Levels, Over, Seeds, Moves, Winning, SystemMoves, Seat, Seats,
          MaxTicks, RewardLost, MaxResets, None

VARIABLES
    env,      \* the environment's fields
    error,    \* how the last call failed, None when it returned
    lost,     \* a reward was refused since the last reset
    resets    \* the calls of reset and replay, for the bound

vars == <<env, error, lost, resets>>

-----------------------------------------------------------------------------
\* The product's reducer

Past(s) == s.past
InitialState(level, seed) == [level |-> level, seed |-> seed, past |-> <<>>]
AdvanceTick(s, action) == [s EXCEPT !.past = Append(@, action)]
Status(s) ==
    CASE s.level \in Over -> "ended"
      [] \E k \in DOMAIN s.past : s.past[k].id \in Winning -> "won"
      [] OTHER -> "playing"
Enumerated(s) == Moves \ {a.id : a \in ToSet(s.past)}
RewardFor(next) == IF Status(next) = "won" THEN 1 ELSE 0

-----------------------------------------------------------------------------
\* The environment

Started(level, seed) ==
    LET s == InitialState(level, seed)
        over == Status(s) # "playing"
    IN  [level |-> level, seed |-> seed, state |-> s, ticks |-> 0, total |-> 0,
         last |-> 0, ended |-> over, reason |-> IF over THEN Status(s) ELSE None,
         records |-> <<>>, initial |-> s]

Result(e) ==
    [legal |-> IF e.ended THEN {} ELSE Enumerated(e.state),
     systems |-> IF e.ended THEN {} ELSE SystemMoves,
     terminated |-> e.ended /\ e.reason # "tick_limit",
     truncated |-> e.reason = "tick_limit"]

Refusal(e, action) ==
    CASE e.state = None -> "not_started"
      [] e.ended -> "episode_done"
      [] action.id \notin Enumerated(e.state) \cup SystemMoves -> "illegal_action"
      [] action.seat \notin {None, Seat} -> "illegal_action"
      [] OTHER -> None

\* The state and the tick count change before the reward is looked at; a reward that is
\* not finite leaves them changed and everything after it undone.
Advanced(e, action) ==
    [e EXCEPT !.state = AdvanceTick(@, [action EXCEPT !.seat = Seat]), !.ticks = @ + 1]

\* Mutant: the tick limit is looked at before the end of the game.
AccountedByLimit(e, action) ==
    LET r == RewardFor(e.state)
        reason == IF e.ticks >= MaxTicks THEN "tick_limit"
                  ELSE IF Status(e.state) # "playing" THEN Status(e.state) ELSE None
    IN  [e EXCEPT !.last = r, !.total = @ + r, !.ended = reason # None, !.reason = reason,
                  !.records = Append(@, [n |-> e.ticks, reward |-> r, status |-> Status(e.state),
                                         action |-> [action EXCEPT !.seat = Seat],
                                         view |-> e.state])]

Accounted(e, action) ==
    LET r == RewardFor(e.state)
        over == Status(e.state) # "playing"
        reason == IF over THEN Status(e.state)
                  ELSE IF e.ticks >= MaxTicks THEN "tick_limit" ELSE None
    IN  [e EXCEPT !.last = r, !.total = @ + r, !.ended = reason # None, !.reason = reason,
                  !.records = Append(@, [n |-> e.ticks, reward |-> r, status |-> Status(e.state),
                                         action |-> [action EXCEPT !.seat = Seat],
                                         view |-> e.state])]

\* stepInternal: the environment after the call and how the call failed
Stepped(e, action) ==
    IF Refusal(e, action) # None THEN [env |-> e, error |-> Refusal(e, action)]
    ELSE LET a == Advanced(e, action)
         IN  IF action.id \in RewardLost THEN [env |-> a, error |-> "reward"]
             ELSE [env |-> Accounted(a, action), error |-> None]

TranscriptOf(e) ==
    [level |-> e.level, seed |-> e.seed, result |-> Result(e), ticks |-> e.ticks,
     actions |-> [k \in DOMAIN e.records |-> e.records[k].action]]

\* replay: the first action that fails ends it
Replayed(level, seed, actions) ==
    FoldLeft(LAMBDA out, a : IF out.error = None THEN Stepped(out.env, a) ELSE out,
             [env |-> Started(level, seed), error |-> None], actions)

-----------------------------------------------------------------------------
Init ==
    /\ \E level \in Levels, seed \in Seeds :
         env = [Started(level, seed) EXCEPT !.state = None, !.ended = FALSE, !.reason = None,
                                            !.initial = None]
    /\ error = None
    /\ lost = FALSE
    /\ resets = 0

\* reset, with the level and the seed given or kept
Reset(level, seed) ==
    /\ resets < MaxResets
    /\ resets' = resets + 1
    /\ env' = Started(level, seed)
    /\ error' = None
    /\ lost' = FALSE

Step(action) ==
    LET out == Stepped(env, action)
    IN  /\ env' = out.env
        /\ error' = out.error
        /\ lost' = (lost \/ out.error = "reward")
        /\ UNCHANGED resets

\* replay of a canonical list of actions in the current level
Replay(actions) ==
    LET out == Replayed(env.level, env.seed, actions)
    IN  /\ resets < MaxResets
        /\ resets' = resets + 1
        /\ env' = out.env
        /\ error' = out.error
        /\ lost' = (out.error = "reward")

Action == [id : Moves \cup SystemMoves, seat : Seats \cup {None}]

Next ==
    \/ \E level \in Levels, seed \in Seeds : Reset(level, seed)
    \/ \E action \in Action : Step(action)
    \/ \E a, b \in Action : Replay(<<a, b>>)

Spec == Init /\ [][Next]_vars

-----------------------------------------------------------------------------
\* Properties

TypeOK ==
    /\ env.ticks \in Nat /\ (~lost => env.ticks <= MaxTicks)
    /\ env.reason \in {None, "won", "ended", "tick_limit"}
    /\ env.ended = (env.reason # None)
    /\ Len(env.records) <= env.ticks
    /\ error \in {None, "not_started", "episode_done", "illegal_action", "reward"}

\* The transcript's actions, replayed from its level and seed, end in the same state with
\* the same rewards, records and ending. Where a reward was refused on the way the transcript
\* shows it: it counts more ticks than it has actions.
TranscriptReplays ==
    env.state # None =>
        LET t == TranscriptOf(env)
        IN  /\ lost <=> t.ticks # Len(t.actions)
            /\ ~lost => Replayed(t.level, t.seed, t.actions) = [env |-> env, error |-> None]

\* A finished game is reported as terminated, and an episode is cut short only in a game
\* still being played; either way no action is offered. Each record shows its own tick.
EndsWithGame ==
    (env.state # None /\ ~lost) =>
        /\ Result(env).terminated = (Status(env.state) # "playing")
        /\ Result(env).truncated => Status(env.state) = "playing"
        /\ env.ended => Result(env).legal \cup Result(env).systems = {}
        /\ \A k \in DOMAIN env.records :
             Past(env.records[k].view) = [j \in 1..k |-> env.records[j].action]
=============================================================================
