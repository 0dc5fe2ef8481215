--------------------------- MODULE ControlSources ---------------------------
(***************************************************************************)
(* ControlSourceRegistry: sources (behavior trees, human input, agents)    *)
(* are bound to control subjects and asked for decisions that may take any *)
(* time.  Registrations and bindings are told apart by a serial number, as *)
(* the objects of the program are.                                         *)
(***************************************************************************)
EXTENDS Naturals, FiniteSets

CONSTANTS Sources, Subjects, None,
          MaxSerial, MaxAsked    \* bounds

VARIABLES
    source,    \* the registration of each source id, or None
    binding,   \* the source id and the binding of each subject, or None
    asked,     \* decisions under way
    crossed,   \* what decide returned: the request, and the registry at that moment
    serial

vars == <<source, binding, asked, crossed, serial>>

Init ==
    /\ source = [s \in Sources |-> None]
    /\ binding = [x \in Subjects |-> None]
    /\ asked = {} /\ crossed = {}
    /\ serial = 0

Fresh == serial < MaxSerial /\ serial' = serial + 1

\* Every request of the bindings in affected is aborted; its result will be discarded.
AbortOf(affected) == {[r EXCEPT !.aborted = r.aborted \/ r.binding \in affected] : r \in asked}
Unbound == {x \in Subjects : binding[x] = None}
BoundTo(id) == {x \in Subjects \ Unbound : binding[x].id = id}

\* Mutant: replacing a source aborts no request of the one before it.
RegisterSilently(id) ==
    /\ Fresh
    /\ source' = [source EXCEPT ![id] = serial]
    /\ UNCHANGED <<asked, binding, crossed>>

\* register, also with replace: the subjects stay bound to the id, under the new source
Register(id) ==
    /\ Fresh
    /\ source' = [source EXCEPT ![id] = serial]
    /\ asked' = AbortOf({binding[x].serial : x \in {y \in BoundTo(id) : source[id] # None}})
    /\ UNCHANGED <<binding, crossed>>

Unregister(id) ==
    /\ source[id] # None
    /\ source' = [source EXCEPT ![id] = None]
    /\ asked' = AbortOf({binding[x].serial : x \in BoundTo(id)})
    /\ binding' = [x \in Subjects |-> IF x \in BoundTo(id) THEN None ELSE binding[x]]
    /\ UNCHANGED <<crossed, serial>>

\* Binding a subject to the source it has changes nothing.
Bind(x, id) ==
    /\ source[id] # None
    /\ x \notin BoundTo(id)
    /\ Fresh
    /\ asked' = AbortOf({binding[y].serial : y \in {x} \ Unbound})
    /\ binding' = [binding EXCEPT ![x] = [id |-> id, serial |-> serial]]
    /\ UNCHANGED <<source, crossed>>

Unbind(x) ==
    /\ binding[x] # None
    /\ asked' = AbortOf({binding[x].serial})
    /\ binding' = [binding EXCEPT ![x] = None]
    /\ UNCHANGED <<source, crossed, serial>>

\* decide: an unbound subject is refused; a signal that is already aborted yields nothing.
Ask(x) ==
    /\ binding[x] # None /\ source[binding[x].id] # None
    /\ Cardinality(asked) < MaxAsked
    /\ asked' = asked \cup {[subject |-> x, id |-> binding[x].id, binding |-> binding[x].serial,
                             registration |-> source[binding[x].id], aborted |-> FALSE]}
    /\ UNCHANGED <<source, binding, crossed, serial>>

\* The caller's own signal is linked to the request.
AbortRequest(r) ==
    /\ ~r.aborted
    /\ asked' = (asked \ {r}) \cup {[r EXCEPT !.aborted = TRUE]}
    /\ UNCHANGED <<source, binding, crossed, serial>>

\* Whatever the source answers, only a current request's answer crosses the boundary.
Current(r) ==
    /\ ~r.aborted
    /\ binding[r.subject] # None /\ binding[r.subject].serial = r.binding
Return(r) ==
    /\ asked' = asked \ {r}
    /\ crossed' = IF Current(r)
                  THEN crossed \cup {[subject |-> r.subject, registration |-> r.registration,
                                      now |-> IF binding[r.subject] = None THEN None
                                              ELSE source[binding[r.subject].id]]}
                  ELSE crossed
    /\ UNCHANGED <<source, binding, serial>>

Next ==
    \/ \E id \in Sources : Register(id) \/ Unregister(id)
    \/ \E x \in Subjects, id \in Sources : Bind(x, id)
    \/ \E x \in Subjects : Unbind(x) \/ Ask(x)
    \/ \E r \in asked : AbortRequest(r) \/ Return(r)

Spec == Init /\ [][Next]_vars

-----------------------------------------------------------------------------
TypeOK ==
    /\ \A x \in Subjects : binding[x] # None => source[binding[x].id] # None
    /\ \A r \in asked : r.binding < serial /\ r.registration < serial

\* A decision crosses only while the registration that was asked is still the one that
\* controls the subject, however late the source answers.
NoStaleDecision == \A d \in crossed : d.registration = d.now

-----------------------------------------------------------------------------
\* The inductive invariant.

Request == [subject : Subjects, id : Sources, binding : Nat, registration : Nat,
            aborted : BOOLEAN]
Binding == [id : Sources, serial : Nat]

Shape ==
    /\ serial \in Nat
    /\ source \in [Sources -> Nat \cup {None}]
    /\ binding \in [Subjects -> Binding \cup {None}]
    /\ asked \subseteq Request

\* Serials are given once, and a subject is only bound to a source that is registered.
Ordered ==
    /\ \A id \in Sources : source[id] # None => source[id] < serial
    /\ \A x \in Subjects : binding[x] # None =>
           binding[x].serial < serial /\ source[binding[x].id] # None
    /\ \A r \in asked : r.binding < serial /\ r.registration < serial

\* The registration a current request was made to still is the one in control.
Controlled ==
    \A r \in asked : Current(r) => source[binding[r.subject].id] = r.registration

SourcesInv == Shape /\ Ordered /\ Controlled /\ NoStaleDecision
=============================================================================
