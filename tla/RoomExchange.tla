---------------------------- MODULE RoomExchange ----------------------------
(***************************************************************************)
(* Routed interactions of a room: RoomInteractionRouter, the services of   *)
(* RoomAgentServiceRegistry and the responses of RoomAgentRegistry, which  *)
(* the host turns into derived envelopes.                                  *)
(*                                                                         *)
(* A disclosure is the set of people who may see an envelope: Room for     *)
(* everybody in the room, a set of participants, or {} for none, so that   *)
(* intersectRoomDisclosures is set intersection.  Outsider stands for      *)
(* whoever is in the room without being named.                             *)
(***************************************************************************)
EXTENDS Naturals, Sequences, FiniteSets, SequenceFilter

CONSTANTS
    Participants, Agents, Services, Outsider,
    VisibilityOf,   \* the people an agent may address
    GrantsOf,       \* the services an agent may call
    Drafts,         \* what the host and agents may draft: targets, disclosure, call
    Roots,          \* the endpoints the host creates envelopes for
    Leaving,        \* endpoints that may be unregistered
    Channels, CallIds, None,   \* a request names a call and a service
    MaxHops,        \* the router's maxHops
    MaxRoots, MaxEnvelopes    \* bounds

VARIABLES
    envelopes,    \* envelopes made so far, by number
    handlers,     \* endpoints with a registered handler
    seen,         \* envelopes dispatched
    lanes,        \* per channel, dispatched envelopes and the targets each has left
    answering,    \* agents at work on the envelope at the head of a lane
    calls,        \* cached service calls: what they asked and whether they succeeded
    invoked,      \* how the invocations of a service for a call went, in order
    answers,      \* envelopes that got the result of a call
    delivered,    \* deliveries of a channel, in order
    spoken        \* utterances: the envelope they respond to and their audience

vars == <<envelopes, handlers, seen, lanes, answering, calls, invoked, answers, delivered, spoken>>

Room == Participants \cup {Outsider}
Disclosures == {Room} \cup SUBSET Participants
Endpoints == Participants \cup Agents \cup Services
Keys == Agents \X CallIds
Requests == CallIds \X Services
Number == 1..MaxEnvelopes

Envelope == [channel : Channels, source : Endpoints, targets : Seq(Endpoints),
             disc : Disclosures, call : Requests \cup {None}, parent : 0..MaxEnvelopes,
             root : Number, hop : 0..MaxHops]
Ends(e) == {e.source} \cup Elements(e.targets)

\* assertEnvelope: a participant is targeted only where it is disclosed
TargetsDisclosed(targets, disc) ==
    disc # Room => Elements(targets) \cap Participants \subseteq disc

Init ==
    /\ envelopes = <<>>
    /\ handlers = Endpoints
    /\ seen = {}
    /\ lanes = [c \in Channels |-> <<>>]
    /\ answering = [c \in Channels |-> None]
    /\ calls = [k \in Keys |-> [asked |-> None, ok |-> FALSE]]
    /\ invoked = [k \in Keys |-> <<>>]
    /\ answers = {}
    /\ delivered = [c \in Channels |-> <<>>]
    /\ spoken = {}

-----------------------------------------------------------------------------
\* create: a root envelope; its source and its disclosure are the host's word
Create(c, source, d) ==
    /\ Len(envelopes) < MaxEnvelopes
    /\ Cardinality({n \in DOMAIN envelopes : envelopes[n].hop = 0}) < MaxRoots
    /\ TargetsDisclosed(d.targets, d.disc)
    /\ envelopes' = Append(envelopes,
           [channel |-> c, source |-> source, targets |-> d.targets, disc |-> d.disc, call |-> d.call,
            parent |-> 0, root |-> Len(envelopes) + 1, hop |-> 0])
    /\ UNCHANGED <<handlers, seen, lanes, answering, calls, invoked, answers, delivered, spoken>>

\* derive: on behalf of a target of the parent, never wider than the parent, and inside a
\* private chain only to agents that are already part of it
Derivable(parent, source, targets, disc) ==
    /\ source \in Elements(parent.targets)
    /\ parent.hop < MaxHops
    /\ parent.disc # Room => Elements(targets) \cap Agents \subseteq Ends(parent)
    /\ TargetsDisclosed(targets, disc)

Derived(n, source, targets, disc, call) ==
    LET parent == envelopes[n] IN
    [channel |-> parent.channel, source |-> source, targets |-> targets, disc |-> disc,
     call |-> call, parent |-> n, root |-> parent.root, hop |-> parent.hop + 1]

\* Mutant: a draft is clamped to the visibility of its agent, not to its parent.
ClampedToAgent(parent, source, requested) ==
    requested \cap (IF source \in Agents THEN VisibilityOf[source] ELSE Room)

\* What the disclosure of a draft becomes: normalizeDecision clamps the draft of an agent to
\* the agent's visibility, derive clamps every draft to the parent.
Clamped(parent, source, requested) ==
    parent.disc \cap requested \cap (IF source \in Agents THEN VisibilityOf[source] ELSE Room)

\* dispatch: every target must be registered; an envelope is accepted once and joins its lane
Dispatch(n) ==
    LET e == envelopes[n] IN
    /\ n \in DOMAIN envelopes
    /\ n \notin seen
    /\ Elements(e.targets) \subseteq handlers
    /\ seen' = seen \cup {n}
    /\ lanes' = [lanes EXCEPT ![e.channel] = Append(@, [id |-> n, left |-> e.targets])]
    /\ UNCHANGED <<envelopes, handlers, answering, calls, invoked, answers, delivered, spoken>>

-----------------------------------------------------------------------------
\* Delivery at the head of a lane, target after target

Target(c) == Head(Head(lanes[c]).left)
Current(c) == envelopes[Head(lanes[c]).id]
Busy(c) == lanes[c] # <<>>

Delivering(c) ==
    delivered' = [delivered EXCEPT ![c] = Append(@, <<Head(lanes[c]).id, Target(c)>>)]
\* The handler returned: the next target, or the next envelope.
NextTarget(queue) == IF Len(Head(queue).left) = 1 THEN Tail(queue)
                     ELSE [queue EXCEPT ![1].left = Tail(@)]
Advance(c) == lanes' = [lanes EXCEPT ![c] = NextTarget(@)]
\* The handler threw, or the signal was aborted: the other targets are skipped, the lane
\* goes on with the next envelope.
Skip(c) == lanes' = [lanes EXCEPT ![c] = Tail(@)]

HandParticipant(c) ==
    /\ Busy(c) /\ Target(c) \in Participants
    /\ Delivering(c)
    /\ Advance(c) \/ Skip(c)
    /\ UNCHANGED <<envelopes, handlers, seen, answering, calls, invoked, answers, spoken>>

Abort(c) ==
    /\ Busy(c) /\ answering[c] = None
    /\ Skip(c)
    /\ UNCHANGED <<envelopes, handlers, seen, answering, calls, invoked, answers, delivered, spoken>>

\* RoomAgentRegistry.respond begins: the driver works with the registration it found.
Invoke(c) ==
    /\ Busy(c) /\ Target(c) \in Agents /\ answering[c] = None
    /\ Delivering(c)
    /\ answering' = [answering EXCEPT ![c] = "registered"]
    /\ UNCHANGED <<envelopes, handlers, seen, lanes, calls, invoked, answers, spoken>>

\* A response under a registration that was replaced or removed is dropped; otherwise the
\* host may derive an envelope from one of its drafts.
Answer(c, d) ==
    LET n == Head(lanes[c]).id
        parent == Current(c)
        agent == Target(c)
        disc == Clamped(parent, agent, d.disc)
    IN
    /\ Busy(c) /\ answering[c] = "registered"
    /\ Len(envelopes) < MaxEnvelopes
    /\ Derivable(parent, agent, d.targets, disc)
    /\ envelopes' = Append(envelopes, Derived(n, agent, d.targets, disc, d.call))
    /\ answering' = [answering EXCEPT ![c] = None]
    /\ Advance(c)
    /\ UNCHANGED <<handlers, seen, calls, invoked, answers, delivered, spoken>>

\* normalizeAudience: an utterance is clamped the same way, and refused when nobody is left.
Utter(c, requested) ==
    LET audience == Clamped(Current(c), Target(c), requested) IN
    /\ Busy(c) /\ answering[c] = "registered"
    /\ audience # {}
    /\ spoken' = spoken \cup {<<Head(lanes[c]).id, audience>>}
    /\ answering' = [answering EXCEPT ![c] = None]
    /\ Advance(c)
    /\ UNCHANGED <<envelopes, handlers, seen, calls, invoked, answers, delivered>>

\* No response, a dropped one, an error, or a draft that derive refuses.
AnswerNothing(c) ==
    /\ Busy(c) /\ answering[c] # None
    /\ answering' = [answering EXCEPT ![c] = None]
    /\ Advance(c) \/ Skip(c)
    /\ UNCHANGED <<envelopes, handlers, seen, calls, invoked, answers, delivered, spoken>>

\* register(replace) or unregister of an agent aborts its responses under way.
Reregister(a) ==
    /\ \E c \in Channels : answering[c] = "registered" /\ Target(c) = a
    /\ answering' = [c \in Channels |->
           IF answering[c] = "registered" /\ Target(c) = a THEN "dropped" ELSE answering[c]]
    /\ UNCHANGED <<envelopes, handlers, seen, lanes, calls, invoked, answers, delivered, spoken>>

\* The router's unregister: envelopes already dispatched keep the handler they found.
Unregister(e) ==
    /\ e \in Leaving \cap handlers
    /\ handlers' = handlers \ {e}
    /\ UNCHANGED <<envelopes, seen, lanes, answering, calls, invoked, answers, delivered, spoken>>

-----------------------------------------------------------------------------
\* RoomAgentServiceRegistry.invoke as the handler of a service

\* What a call is bound to: its input and operation go with the service.
Fingerprint(e) == <<e.channel, e.disc, e.call[2]>>
Key(e) == <<e.source, e.call[1]>>
Allowed(e) ==
    /\ e.source \in Agents /\ e.call # None
    /\ e.call[2] \in GrantsOf[e.source] /\ e.call[2] \in Elements(e.targets)
NoCall == [asked |-> None, ok |-> FALSE]
CallOf(e) == IF Allowed(e) THEN calls[Key(e)] ELSE NoCall

Answerable(e) ==
    /\ Allowed(e)
    /\ \/ CallOf(e).asked = None
       \/ CallOf(e).asked = Fingerprint(e) /\ CallOf(e).ok

\* Refused before the service is asked, or its cached promise rejects.
Refuse(c) ==
    /\ Busy(c) /\ Target(c) \in Services
    /\ ~Answerable(Current(c))
    /\ Delivering(c)
    /\ Skip(c)
    /\ UNCHANGED <<envelopes, handlers, seen, answering, calls, invoked, answers, spoken>>

\* A repeated call gets the cached result.
Repeat(c) ==
    /\ Busy(c) /\ Target(c) \in Services
    /\ Allowed(Current(c)) /\ CallOf(Current(c)).ok
    /\ CallOf(Current(c)).asked = Fingerprint(Current(c))
    /\ Delivering(c)
    /\ answers' = answers \cup {<<Head(lanes[c]).id, Key(Current(c))>>}
    /\ Advance(c)
    /\ UNCHANGED <<envelopes, handlers, seen, answering, calls, invoked, spoken>>

\* A first call asks the service and caches the promise it got, kept or broken.
Serve(c, ok) ==
    LET e == Current(c) IN
    /\ Busy(c) /\ Target(c) \in Services
    /\ Allowed(e) /\ CallOf(e).asked = None
    /\ Delivering(c)
    /\ invoked' = [invoked EXCEPT ![Key(e)] = Append(@, IF ok THEN "answered" ELSE "rejected")]
    /\ calls' = [calls EXCEPT ![Key(e)] = [asked |-> Fingerprint(e), ok |-> ok]]
    /\ answers' = answers \cup {x \in {<<Head(lanes[c]).id, Key(e)>>} : ok}
    /\ IF ok THEN Advance(c) ELSE Skip(c)
    /\ UNCHANGED <<envelopes, handlers, seen, answering, spoken>>

\* The service throws before it gives a promise: nothing is cached.
ServeThrows(c) ==
    LET e == Current(c) IN
    /\ Busy(c) /\ Target(c) \in Services
    /\ Allowed(e) /\ CallOf(e).asked = None
    /\ Delivering(c)
    /\ invoked' = [invoked EXCEPT ![Key(e)] = Append(@, "threw")]
    /\ Skip(c)
    /\ UNCHANGED <<envelopes, handlers, seen, answering, calls, answers, spoken>>

\* The result of a service as a derived envelope
ServiceResult(n, s, requested) ==
    LET parent == envelopes[n]
        disc == Clamped(parent, s, requested)
    IN
    /\ n \in DOMAIN envelopes /\ Len(envelopes) < MaxEnvelopes
    /\ \E a \in answers : a[1] = n
    /\ Derivable(parent, s, <<parent.source>>, disc)
    /\ envelopes' = Append(envelopes, Derived(n, s, <<parent.source>>, disc, None))
    /\ UNCHANGED <<handlers, seen, lanes, answering, calls, invoked, answers, delivered, spoken>>

-----------------------------------------------------------------------------
Deliver(c) ==
    HandParticipant(c) \/ Invoke(c) \/ AnswerNothing(c) \/ Refuse(c) \/ Repeat(c)
        \/ (\E ok \in BOOLEAN : Serve(c, ok)) \/ ServeThrows(c)

Next ==
    \/ \E c \in Channels, source \in Roots, d \in Drafts : Create(c, source, d)
    \/ \E n \in Number : Dispatch(n)
    \/ \E c \in Channels : Deliver(c) \/ Abort(c)
    \/ \E c \in Channels, d \in Drafts : Answer(c, d)
    \/ \E c \in Channels, d \in Drafts : Utter(c, d.disc)
    \/ \E n \in Number, s \in Services, d \in Drafts : ServiceResult(n, s, d.disc)
    \/ \E a \in Agents : Reregister(a)
    \/ \E e \in Endpoints : Unregister(e)

Spec == Init /\ [][Next]_vars /\ \A c \in Channels : WF_vars(Deliver(c))

-----------------------------------------------------------------------------
\* Properties

TypeOK ==
    /\ \A n \in DOMAIN envelopes : envelopes[n] \in Envelope
    /\ seen \subseteq DOMAIN envelopes
    /\ \A c \in Channels : \A k \in DOMAIN lanes[c] :
         lanes[c][k].left # <<>> /\ envelopes[lanes[c][k].id].channel = c

\* The envelopes an envelope was derived from: the numbers in every set that has its parent
\* and the parents of its members.
Ancestors(n) ==
    {m \in DOMAIN envelopes :
        \A S \in SUBSET (0..Len(envelopes)) :
            envelopes[n].parent \in S /\ (\A k \in S \ {0} : envelopes[k].parent \in S) => m \in S}

\* Along a chain of derivations nobody is added: whoever sees or is sent an envelope could
\* see every envelope before it, an agent reached from a private envelope was part of it,
\* and an agent addresses only people it is visible to. An utterance
\* reaches nobody who could not see what it responds to.
ChainStaysPrivate ==
    /\ \A n \in DOMAIN envelopes : \A m \in Ancestors(n) :
        LET e == envelopes[n]
            a == envelopes[m]
        IN  /\ e.disc \subseteq a.disc
            /\ a.disc # Room => /\ Elements(e.targets) \cap Agents \subseteq Ends(a)
                                /\ Elements(e.targets) \cap Participants \subseteq a.disc
            /\ e.source \in Agents => e.disc \subseteq VisibilityOf[e.source]
    /\ \A u \in spoken : \A m \in {u[1]} \cup Ancestors(u[1]) : u[2] \subseteq envelopes[m].disc

\* A channel delivers envelopes one after the other, and each target gets an envelope once.
Once(log) ==
    \A j, k \in DOMAIN log : j < k =>
        /\ log[j] # log[k]
        /\ log[j][1] = log[k][1] => \A i \in j..k : log[i][1] = log[j][1]
DeliveredOnceInLane == \A c \in Channels : Once(delivered[c])

\* Once a service gave its promise for a call, kept or broken, that call never runs it
\* again, and the result reaches only envelopes of one channel and one disclosure. A
\* service that threw outright is asked again: RunsOnce is no invariant.
RunsOnce == \A key \in Keys : Len(invoked[key]) <= 1
CallsStayPrivate ==
    /\ \A key \in Keys : \A i \in DOMAIN invoked[key] :
         invoked[key][i] # "threw" => i = Len(invoked[key])
    /\ \A x, y \in answers : x[2] = y[2] =>
         /\ envelopes[x[1]].channel = envelopes[y[1]].channel
         /\ envelopes[x[1]].disc = envelopes[y[1]].disc

\* Handlers that return or throw keep a lane moving: every dispatched envelope is settled.
LanesDrain == \A c \in Channels : (lanes[c] # <<>>) ~> (lanes[c] = <<>>)
-----------------------------------------------------------------------------
(* The inductive invariant of these properties.  Each envelope follows from  *)
(* its parent; only the head of a lane has deliveries, which are the last of *)
(* the channel and to none of the targets it has left; and an answer belongs *)
(* to what its call asked.                                                   *)

Unlike(queue) == \A j, k \in DOMAIN queue : queue[j] = queue[k] => j = k
Follows(e, parent) ==
    /\ e.disc \subseteq parent.disc
    /\ e.source \in Elements(parent.targets)
    /\ parent.disc # Room => Elements(e.targets) \cap Agents \subseteq Ends(parent)
    /\ e.source \in Agents => e.disc \subseteq VisibilityOf[e.source]
Linked(made, n) ==
    LET e == made[n] IN
    /\ e.targets # <<>> /\ Unlike(e.targets)
    /\ TargetsDisclosed(e.targets, e.disc)
    /\ e.parent \in 0..(n - 1)
    /\ e.parent # 0 => Follows(e, made[e.parent])
Chained ==
    /\ envelopes \in Seq(Envelope) /\ Len(envelopes) \in 0..MaxEnvelopes
    /\ \A n \in DOMAIN envelopes : Linked(envelopes, n)
    /\ \A u \in spoken : u[1] \in DOMAIN envelopes /\ u[2] \subseteq envelopes[u[1]].disc

Entry == [id : Number, left : Seq(Endpoints)]
Log == Seq(Number \X Endpoints)
\* The targets an entry has left, without the one at work.
Unmet(entry, work) == Elements(IF work = None THEN entry.left ELSE Tail(entry.left))
LaneHolds(queue, log, work) ==
    /\ queue \in Seq(Entry) /\ log \in Log /\ Once(log)
    /\ \A j, k \in DOMAIN queue : queue[j].id = queue[k].id => j = k
    /\ \A k \in DOMAIN queue : queue[k].left # <<>> /\ Unlike(queue[k].left)
    /\ \A k \in DOMAIN queue : \A i \in DOMAIN log : log[i][1] = queue[k].id =>
          /\ k = 1 /\ log[i][2] \notin Unmet(queue[k], work)
          /\ \A j \in DOMAIN log : i < j => log[j][1] = log[i][1]
LaneKnown(c) ==
    /\ \A k \in DOMAIN lanes[c] :
          lanes[c][k].id \in seen /\ envelopes[lanes[c][k].id].channel = c
    /\ \A i \in DOMAIN delivered[c] : delivered[c][i][1] \in seen
    /\ answering[c] # None => Busy(c) /\ Target(c) \in Agents
Queues ==
    /\ seen \subseteq DOMAIN envelopes
    /\ lanes \in [Channels -> Seq(Entry)] /\ delivered \in [Channels -> Log]
    /\ answering \in [Channels -> {None, "registered", "dropped"}]
    /\ \A c \in Channels : LaneKnown(c) /\ LaneHolds(lanes[c], delivered[c], answering[c])

Asked == Channels \X Disclosures \X Services
Cached ==
    /\ calls \in [Keys -> [asked : Asked \cup {None}, ok : BOOLEAN]]
    /\ invoked \in [Keys -> Seq({"threw", "answered", "rejected"})]
    /\ \A key \in Keys : \A i \in DOMAIN invoked[key] :
         invoked[key][i] # "threw" => i = Len(invoked[key]) /\ calls[key].asked # None
    /\ answers \subseteq Number \X Keys
    /\ \A a \in answers : /\ a[1] \in DOMAIN envelopes
                          /\ calls[a[2]].asked \in Asked
                          /\ calls[a[2]].asked = Fingerprint(envelopes[a[1]])
ExchangeInv == Chained /\ Queues /\ Cached
=============================================================================
