------------------------------ MODULE LevelSolver ------------------------------
(***************************************************************************)
(* The shortest solution of a level (engine/solver.ts): breadth first over *)
(* a reducer, each state kept once by its key, within bounds of actions    *)
(* and nodes.  The key leaves out what a state counts of its past, so      *)
(* states that differ only there are searched once.                        *)
(***************************************************************************)
EXTENDS Integers, Sequences, SequencesExt, FiniteSets

CONSTANTS Levels,   \* [play, deadline, views]: play of a place and an action is a place,
                    \* "won", "lost" or "bad"; views of a place its action specs
          Start,    \* where a level starts
          Limits,   \* [actions, nodes]: maxActions, maxNodes
          None

VARIABLES level, limit,
          frontier,  \* the nodes of this depth still to expand
          todo,      \* the actions of the first of them still to try
          next,      \* the nodes of the next depth
          seen, explored, depth, result
vars == <<level, limit, frontier, todo, next, seen, explored, depth, result>>

\* The reducer: a step counts, and past its deadline a level is lost.
State(at, used) == [at |-> at, used |-> used]
Advance(s, action) ==
    LET to == level.play[s.at][action] IN
    State(IF to \notin {"won", "bad"} /\ s.used + 1 > level.deadline THEN "lost" ELSE to, s.used + 1)
Key(s) == s.at

\* enumerateActions: what the view offers, in its order; choices that were cut
\* short cannot be enumerated.
ChoicesOf(spec) == IF spec.params = "none" THEN <<<<spec.id, 0>>>>
                 ELSE [i \in DOMAIN spec.choices |-> <<spec.id, spec.choices[i]>>]
Enumerable(view) == \A i \in DOMAIN view : view[i].params = "targets" => ~view[i].truncated
Enumerated(view) == FlattenSeq([i \in DOMAIN view |-> ChoicesOf(view[i])])
Offered(s) == Enumerated(level.views[s.at])

Node(s, path) == [state |-> s, path |-> path]
Found(min, capped, count, actions) ==
    [min |-> min, capped |-> capped, explored |-> count, actions |-> actions, threw |-> FALSE]

Init == /\ level \in Levels /\ limit \in Limits
        /\ frontier = <<Node(State(Start, 0), <<>>)>>
        /\ todo = None /\ next = <<>> /\ seen = {Start}
        /\ explored = 1 /\ depth = 1
        /\ result = IF limit.actions = 0 THEN Found(None, FALSE, 1, None) ELSE None

\* A node's actions are enumerated before the first is tried.
Open ==
    /\ result = None /\ frontier # <<>> /\ todo = None
    /\ IF Enumerable(level.views[frontier[1].state.at])
       THEN todo' = Offered(frontier[1].state) /\ result' = result
       ELSE result' = [Found(None, FALSE, explored, None) EXCEPT !.threw = TRUE] /\ todo' = todo
    /\ UNCHANGED <<level, limit, frontier, next, seen, explored, depth>>
Try ==
    LET node == frontier[1]
        action == todo[1]
        s == Advance(node.state, action)
        path == Append(node.path, action)
    IN
    /\ result = None /\ frontier # <<>> /\ todo # None /\ todo # <<>>
    /\ todo' = Tail(todo)
    /\ IF s.at = "won"
       THEN /\ result' = Found(depth, FALSE, explored, path)
            /\ UNCHANGED <<next, seen, explored>>
       ELSE IF s.at \in {"bad", "lost"} \/ Key(s) \in seen
       THEN UNCHANGED <<next, seen, explored, result>>
       ELSE /\ next' = Append(next, Node(s, path))
            /\ seen' = seen \cup {Key(s)}
            /\ explored' = explored + 1
            /\ result' = IF explored + 1 >= limit.nodes
                         THEN Found(None, TRUE, explored + 1, None) ELSE result
    /\ UNCHANGED <<level, limit, frontier, depth>>
Close ==
    /\ result = None /\ frontier # <<>> /\ todo = <<>>
    /\ frontier' = Tail(frontier) /\ todo' = None
    /\ UNCHANGED <<level, limit, next, seen, explored, depth, result>>
Deeper ==
    /\ result = None /\ frontier = <<>>
    /\ frontier' = next /\ next' = <<>> /\ depth' = depth + 1
    /\ result' = IF next = <<>> \/ depth = limit.actions
                 THEN Found(None, FALSE, explored, None) ELSE result
    /\ UNCHANGED <<level, limit, todo, seen, explored>>

Next == Open \/ Try \/ Close \/ Deeper
Spec == Init /\ [][Next]_vars

----------------------------------------------------------------------------
(* Properties.                                                             *)

TypeOK == /\ explored = Cardinality(seen)
          /\ todo # None => frontier # <<>>
          /\ \A i \in DOMAIN next : Len(next[i].path) = depth /\ next[i].state.used = depth

\* The states n actions lead to, without keys or bounds of nodes.
Reach[n \in 0..limit.actions] ==
    IF n = 0 THEN {State(Start, 0)}
    ELSE UNION {{Advance(s, a) : a \in ToSet(Offered(s))} :
                   s \in {x \in Reach[n - 1] : x.at \notin {"won", "lost", "bad"}}}
Wins(n) == \E s \in Reach[n] : s.at = "won"
\* The shortest is the shortest: what is found is a solution and none is shorter;
\* a search that was not cut short and found none had none to find.
ShortestFound ==
    result # None =>
      IF result.threw THEN \E view \in Range(level.views) : ~Enumerable(view)
      ELSE IF result.min # None
      THEN /\ Wins(result.min) /\ \A n \in 0..(result.min - 1) : ~Wins(n)
           /\ Len(result.actions) = result.min
           /\ FoldLeft(Advance, State(Start, 0), result.actions).at = "won"
      ELSE ~result.capped => \A n \in 0..limit.actions : ~Wins(n)
=============================================================================
