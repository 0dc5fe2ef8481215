----------------------------- MODULE AgentRegistry -----------------------------
(***************************************************************************)
(* The registry of a room's agents (room-agent.ts): registrations that     *)
(* come, are replaced and go while their drivers are still answering, the  *)
(* narrowing of what an agent may say and to whom, and the stream of a     *)
(* run.  An audience is a set of participants; the whole room is all of    *)
(* them.  What an utterance, a progress note or an action holds is left    *)
(* out; an action is the seat it names.                                    *)
(***************************************************************************)
EXTENDS Naturals, FiniteSets

CONSTANTS Calls,        \* invocations of drivers
          Participants,
          Parents,      \* the disclosures of the interactions answered
          Visibilities, \* the visibilities agents are registered with
          Audiences,    \* the audiences drivers ask for
          Seats,        \* seats agents may be bound to
          MaxVersions, MaxEvents, None

VARIABLES registered,  \* the registration of the agent, or None
          versions,    \* registrations so far
          call,        \* the invocations
          delivered    \* what callers were given
vars == <<registered, versions, call, delivered>>

NoCall == [at |-> "idle", mode |-> None, version |-> 0, visible |-> {}, seat |-> None,
           parent |-> {}, aborted |-> FALSE, events |-> 0]
Init == /\ registered = None /\ versions = 0
        /\ call = [c \in Calls |-> NoCall]
        /\ delivered = {}

Running(c) == call[c].at \in {"running", "completing"}
\* abort: the invocations of the registration that goes are told.
Told == IF registered = None THEN call
        ELSE [c \in Calls |-> IF Running(c) /\ call[c].version = registered.version
                              THEN [call[c] EXCEPT !.aborted = TRUE] ELSE call[c]]

Register(visible, seat, replace) ==
    /\ registered = None \/ replace
    /\ versions < MaxVersions
    /\ versions' = versions + 1
    /\ call' = Told
    /\ registered' = [version |-> versions + 1, visible |-> visible, seat |-> seat]
    /\ UNCHANGED delivered
Unregister ==
    /\ registered # None
    /\ call' = Told /\ registered' = None
    /\ UNCHANGED <<versions, delivered>>

\* respond and run begin alike; an adapted driver only knows respond.
Modes == {"respond", "run", "adapted"}
Invoke(c, mode, parent) ==
    /\ registered # None /\ call[c].at = "idle"
    /\ call' = [call EXCEPT ![c] =
         [at |-> "running", mode |-> mode, version |-> registered.version,
          visible |-> registered.visible, seat |-> registered.seat,
          parent |-> parent, aborted |-> FALSE, events |-> 0]]
    /\ UNCHANGED <<registered, versions, delivered>>
CallerAborts(c) ==
    /\ Running(c) /\ ~call[c].aborted
    /\ call' = [call EXCEPT ![c].aborted = TRUE]
    /\ UNCHANGED <<registered, versions, delivered>>

Current(c) == registered # None /\ registered.version = call[c].version
Heeded(c) == ~call[c].aborted /\ Current(c)
Ends(c, how) == call' = [call EXCEPT ![c].at = how]

\* normalizeDecision: an utterance needs someone to hear it, a draft may be
\* for nobody, and only a bound agent acts, for its own seat.
Permitted(c) == call[c].parent \cap call[c].visible
Decision(say, draft, seat) == [say |-> say, draft |-> draft, seat |-> seat]
Acceptable(c, d) ==
    /\ d.say # None => Permitted(c) \cap d.say # {}
    /\ d.seat # None => call[c].seat = d.seat
    /\ d.say # None \/ d.draft # None \/ d.seat # None
Normalized(c, d) ==
    [say   |-> IF d.say = None THEN {} ELSE Permitted(c) \cap d.say,
     draft |-> IF d.draft = None THEN {} ELSE Permitted(c) \cap d.draft,
     seat  |-> d.seat]
Deliver(c, d) ==
    delivered' = delivered \cup
        {[call |-> c, version |-> call[c].version,
          under |-> IF registered = None THEN 0 ELSE registered.version,
          told |-> call[c].aborted, content |-> Normalized(c, d)]}

\* respond: the driver's decision comes, too late or in time.
Decide(c, d) ==
    /\ call[c].at = "running" /\ call[c].mode = "respond"
    /\ IF ~Heeded(c) THEN Ends(c, "dropped") /\ UNCHANGED delivered
       ELSE IF ~Acceptable(c, d) THEN Ends(c, "failed") /\ UNCHANGED delivered
       ELSE Ends(c, "answered") /\ Deliver(c, d)
    /\ UNCHANGED <<registered, versions>>
DriverThrows(c) ==
    /\ call[c].at = "running"
    /\ Ends(c, IF Heeded(c) THEN "failed" ELSE "dropped")
    /\ UNCHANGED <<registered, versions, delivered>>
DecidesNothing(c) ==
    /\ call[c].at = "running" /\ call[c].mode # "run" /\ Ends(c, "dropped")
    /\ UNCHANGED <<registered, versions, delivered>>

\* run: each event of the stream is looked at when it comes.  Output is for an
\* audience, a decision is as above, and the rest is for nobody (normalizeRunEvent).
EventKinds == {"assistant_output", "decision", "progress"}
Borne(kind, d) ==
    CASE kind = "decision" -> d
      [] kind = "assistant_output" -> Decision(d.say, None, None)
      [] OTHER -> Decision(None, None, None)
Event(c, kind, d) ==
    /\ call[c].at = "running" /\ call[c].mode = "run" /\ call[c].events < MaxEvents
    /\ kind = "assistant_output" => d.say # None
    /\ IF ~Heeded(c) THEN Ends(c, "dropped") /\ UNCHANGED delivered
       ELSE IF kind # "progress" /\ ~Acceptable(c, Borne(kind, d))
       THEN Ends(c, "failed") /\ UNCHANGED delivered
       ELSE /\ call' = [call EXCEPT ![c].events = @ + 1]
            /\ Deliver(c, Borne(kind, d))
    /\ UNCHANGED <<registered, versions>>
\* An adapted driver's decision, and its end with no further look.
AdaptedDecision(c, d) ==
    /\ call[c].at = "running" /\ call[c].mode = "adapted"
    /\ IF ~Heeded(c) THEN Ends(c, "dropped") /\ UNCHANGED delivered
       ELSE IF ~Acceptable(c, d) THEN Ends(c, "failed") /\ UNCHANGED delivered
       ELSE Ends(c, "completing") /\ Deliver(c, d)
    /\ UNCHANGED <<registered, versions>>
StreamEnds(c) ==
    /\ call[c].at = "completing" \/ (call[c].at = "running" /\ call[c].mode = "run")
    /\ Ends(c, "answered")
    /\ UNCHANGED <<registered, versions, delivered>>

Decisions == {Decision(say, draft, seat) : say \in Audiences \cup {None},
                 draft \in {None, Participants}, seat \in Seats \cup {None}}
Next == \/ \E visible \in Visibilities, seat \in Seats \cup {None}, replace \in BOOLEAN :
              Register(visible, seat, replace)
        \/ Unregister
        \/ \E c \in Calls :
              \/ \E mode \in Modes, parent \in Parents : Invoke(c, mode, parent)
              \/ CallerAborts(c) \/ DriverThrows(c) \/ DecidesNothing(c) \/ StreamEnds(c)
              \/ \E d \in Decisions : Decide(c, d) \/ AdaptedDecision(c, d)
                    \/ \E kind \in EventKinds : Event(c, kind, d)
Spec == Init /\ [][Next]_vars

----------------------------------------------------------------------------
(* Properties.                                                             *)

TypeOK == /\ registered = None \/ registered.version = versions
          /\ \A c \in Calls : call[c].version <= versions /\ call[c].events <= MaxEvents
          /\ versions <= MaxVersions

\* Who is replaced falls silent: an invocation whose registration went was
\* told so, and what a caller was given came from the registration of then.
ReplacedFallSilent ==
    /\ \A c \in Calls : Running(c) /\ ~Current(c) => call[c].aborted
    /\ \A x \in delivered : x.under = x.version /\ ~x.told

\* Nobody overhears: what was delivered is for those the interaction and the
\* agent's visibility both admit, and acts for the seat it was bound to.
NobodyOverhears ==
    \A x \in delivered :
        /\ x.content.say \cup x.content.draft \subseteq
               call[x.call].parent \cap call[x.call].visible
        /\ x.content.seat # None => x.content.seat = call[x.call].seat

----------------------------------------------------------------------------
(* The inductive invariant of these properties.                            *)

Registration == [version : Nat, visible : SUBSET Participants, seat : Seats \cup {None}]
Invocation ==
    [at : {"idle", "running", "completing", "answered", "failed", "dropped"},
     mode : Modes \cup {None}, version : Nat, visible : SUBSET Participants,
     seat : Seats \cup {None}, parent : SUBSET Participants, aborted : BOOLEAN, events : Nat]
Registered ==
    /\ versions \in Nat
    /\ registered \in {None} \cup Registration
    /\ call \in [Calls -> Invocation]
\* What was given to a caller came from an invocation that had begun.
CallsBegun == \A x \in delivered : x.call \in Calls /\ call[x.call].at # "idle"

RegistryInv == Registered /\ TypeOK /\ CallsBegun /\ ReplacedFallSilent /\ NobodyOverhears
=============================================================================
