---------------------------- MODULE AgentRunner ----------------------------
(***************************************************************************)
(* The loop that plays a live session with an agent driver                 *)
(* (agent/session-runner.ts, runSession): observe, present, decide, act,   *)
(* until the session ends, then wait for the presentations and finalize.   *)
(* Paced, a presentation is awaited before the decision; unpaced, it runs  *)
(* in the background, in a pool of bounded size, and its failure ends the  *)
(* run at the next point that looks for one.                               *)
(*                                                                         *)
(* The session is abstracted to the results it may return: whose turn it   *)
(* is, the episode it belongs to, whether it is the last.  The driver      *)
(* keeps the episodes of the observations it was asked about since its     *)
(* last reset (its conversation).                                          *)
(***************************************************************************)
EXTENDS Naturals, FiniteSets

CONSTANTS Episodes,     \* 1..n, in the order the session plays them; 0 is no identity
          Policies,     \* records pacing, conversation, finalize
          MaxPending, MaxObservations, None

VARIABLES policy, pc, observed, current, prior, shown, pending, failure, talk, decisions

vars == <<policy, pc, observed, current, prior, shown, pending, failure, talk, decisions>>

Paced == policy.pacing = "paced"
Fresh == policy.conversation = "fresh-per-episode"

\* What the session may return after the current result: episodes never go back
Results == [mine : BOOLEAN, episode : Episodes \cup {0}, last : BOOLEAN]
Reached == IF current = None THEN 0 ELSE current.reached
Told(r) == [mine |-> r.mine, episode |-> r.episode, last |-> r.last,
            reached |-> IF r.episode = 0 THEN Reached ELSE r.episode]

Init ==
    /\ policy \in Policies
    /\ pc = "start"
    /\ observed = 0
    /\ current = None
    /\ prior = None
    /\ shown = {}        \* observations whose presentation has completed
    /\ pending = {}      \* presentations running in the background
    /\ failure = FALSE   \* backgroundFailure
    /\ talk \in {{}, {0}}  \* a driver may come with an earlier conversation
    /\ decisions = 0

\* A fresh conversation resets the driver before the first observation
Start ==
    /\ pc = "start"
    /\ pc' = "observe"
    /\ talk' = IF Fresh THEN {} ELSE talk
    /\ UNCHANGED <<policy, observed, current, prior, shown, pending, failure, decisions>>

\* session.observe or session.act returns a result
Observe(r) ==
    /\ pc \in {"observe", "act"}
    /\ observed < MaxObservations
    /\ r.episode # 0 => r.episode >= Reached
    /\ r.last \/ observed + 1 < MaxObservations
    /\ current' = Told(r)
    /\ pc' = "head"
    /\ UNCHANGED <<policy, observed, prior, shown, pending, failure, talk, decisions>>

\* observe, act, an event callback or the driver throws: the run is rejected and what was
\* in the background stays there
Throw ==
    /\ pc \in {"observe", "act", "decide", "present", "episode"}
    /\ pc' = "failed"
    /\ UNCHANGED <<policy, observed, current, prior, shown, pending, failure, talk, decisions>>

\* The head of the loop: a background failure or an aborted signal ends the run
Head ==
    /\ pc = "head"
    /\ IF failure
       THEN pc' = "failed" /\ observed' = observed
       ELSE pc' = "present" /\ observed' = observed + 1
    /\ UNCHANGED <<policy, current, prior, shown, pending, failure, talk, decisions>>

\* Paced: the presentation is awaited
PresentPaced ==
    /\ pc = "present" /\ Paced
    /\ shown' = shown \cup {observed}
    /\ pc' = "episode"
    /\ UNCHANGED <<policy, observed, current, prior, pending, failure, talk, decisions>>

\* Unpaced: the presentation is tracked, and a full pool waits for one to settle
PresentUnpaced ==
    /\ pc = "present" /\ ~Paced
    /\ pending' = pending \cup {observed}
    /\ pc' = IF Cardinality(pending') >= MaxPending THEN "pool" ELSE "episode"
    /\ UNCHANGED <<policy, observed, current, prior, shown, failure, talk, decisions>>

\* A background presentation settles, in any order; the pool wait sees its failure
Settle(n, ok) ==
    /\ n \in pending
    /\ pending' = pending \ {n}
    /\ shown' = IF ok THEN shown \cup {n} ELSE shown
    /\ failure' = (failure \/ ~ok)
    /\ pc' = IF pc # "pool" THEN pc ELSE IF failure' THEN "failed" ELSE "episode"
    /\ UNCHANGED <<policy, observed, current, prior, talk, decisions>>

\* A new episode identity resets the driver, except for the first one seen
ChangeEpisode ==
    /\ pc = "episode"
    /\ LET changed == current.episode # 0 /\ prior # current.episode
       IN  /\ talk' = IF changed /\ prior # None /\ Fresh THEN {} ELSE talk
           /\ prior' = IF changed THEN current.episode ELSE prior
    /\ pc' = IF current.last THEN "drain" ELSE IF current.mine THEN "decide" ELSE "observe"
    /\ UNCHANGED <<policy, observed, current, shown, pending, failure, decisions>>

Decide ==
    /\ pc = "decide"
    /\ talk' = talk \cup {current.reached}
    /\ decisions' = decisions + 1
    /\ pc' = "act"
    /\ UNCHANGED <<policy, observed, current, prior, shown, pending, failure>>

\* All presentations settled; a failure is thrown before anything is finalized
Drain ==
    /\ pc = "drain" /\ pending = {}
    /\ pc' = CASE failure -> "failed"
               [] policy.finalize = "caller" -> "terminal"
               [] OTHER -> "finalized"
    /\ UNCHANGED <<policy, observed, current, prior, shown, pending, failure, talk, decisions>>

Next ==
    \/ Start
    \/ \E r \in Results : Observe(r)
    \/ Throw
    \/ Head
    \/ PresentPaced
    \/ PresentUnpaced
    \/ \E n \in 1..MaxObservations : \E ok \in BOOLEAN : Settle(n, ok)
    \/ ChangeEpisode
    \/ Decide
    \/ Drain

Spec == Init /\ [][Next]_vars

-----------------------------------------------------------------------------
\* Properties

TypeOK ==
    /\ pc \in {"start", "observe", "head", "present", "pool", "episode", "decide", "act",
               "drain", "failed", "terminal", "finalized"}
    /\ observed \in 0..MaxObservations
    /\ pending \subseteq 1..observed /\ shown \subseteq 1..observed

\* A run ends well only when every observation was presented, and the agent decides, when
\* paced, on what was already shown; the pool never exceeds its bound.
PresentsAll ==
    /\ pc \in {"terminal", "finalized"} => shown = 1..observed /\ ~failure
    /\ Paced /\ pc \in {"decide", "act"} => shown = 1..observed
    /\ Cardinality(pending) <= MaxPending
    /\ shown \cap pending = {}

\* With a fresh conversation per episode the driver is never asked about an episode with
\* the earlier ones still in its conversation.
ConversationFresh ==
    (Fresh /\ pc = "act" /\ current.episode # 0) => talk \subseteq {current.episode, 0}
=============================================================================
