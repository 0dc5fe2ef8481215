----------------------------- MODULE StateForks -----------------------------
(***************************************************************************)
(* Ownership of reducer states (SessionStateIsolation in session.ts): each *)
(* prepare operation forks the live state, a prepared transition owns its  *)
(* forks until it is committed or aborted, and every state is handed to    *)
(* discard or retire when the kernel is done with it.                      *)
(*                                                                         *)
(* A state is a number, in the order of creation.  The reducer and the     *)
(* classifier work in place or return a new state.  The live state stands  *)
(* for its transition revision: a commit that is not a repeat replaces     *)
(* both.  Rehydration, which replays on the live state, is left out.       *)
(***************************************************************************)
EXTENDS Naturals, FiniteSets

CONSTANTS Slots, MaxTicks, MaxMade, None

VARIABLES
    live,       \* the live state
    made,       \* states created so far: 1..made
    released,   \* how often a state was handed to discard or retire
    prepared,   \* the open transition of each slot
    refused,    \* classification forks whose intent was then refused
    dropped,    \* states an operation replaced and kept no reference to
    owned       \* history: states that were live or belonged to an open transition

vars == <<live, made, released, prepared, refused, dropped, owned>>

\* The kernel's constructor tries a fork of the initial state.
Init ==
    /\ live = 1 /\ made = 2
    /\ released = [i \in 1..MaxMade |-> IF i = 2 THEN 1 ELSE 0]
    /\ prepared = [s \in Slots |-> None]
    /\ refused = {} /\ dropped = {}
    /\ owned = {1}

-----------------------------------------------------------------------------
Create(n) == made + n <= MaxMade /\ made' = made + n
ReleaseTwice(states, again) ==
    released' = [i \in DOMAIN released |-> released[i] + (IF i \in states THEN 1 ELSE 0)
                                                       + (IF i \in again THEN 1 ELSE 0)]
Release(states) == ReleaseTwice(states, {})

\* takeDraftResources: the fork a draft began with and the state it ended with
TakeDraftResources(original, state) == {original, state}

Open(s, original, state, noop) ==
    prepared' = [prepared EXCEPT ![s] =
        [base |-> live, next |-> state, noop |-> noop,
         drafts |-> TakeDraftResources(original, state)]]

\* prepareExtension, prepareInterest, prepareSeatSignature and every repeat of a command
\* or control: the fork is not changed. Only a repeat cannot fail.
PrepareUnchanged(s, noop, ok) ==
    LET d == made + 1 IN
    /\ prepared[s] = None /\ (noop => ok)
    /\ Create(1)
    /\ IF ok THEN Open(s, d, d, noop) /\ UNCHANGED released
       ELSE Release({d}) /\ UNCHANGED prepared
    /\ UNCHANGED <<live, refused, dropped>>

\* prepareIntent: the command is validated on a fork of its own. It is refused there or
\* earlier, or fails when the transition is made, or is accepted. What prepareCommand discarded
\* before is discarded by its catch once more when this one throws.
Intent(s, first, outcome, before) ==
    LET valid == first + 1
        d == first + 2
    IN  CASE outcome = "refused" -> Create(valid - made) /\ UNCHANGED prepared
                                    /\ ReleaseTwice(before \cup {valid}, before)
          [] outcome = "fails"   -> Create(d - made) /\ UNCHANGED prepared
                                    /\ ReleaseTwice(before \cup {valid, d}, before)
          [] OTHER               -> Create(d - made) /\ Release(before \cup {valid})
                                    /\ Open(s, d, d, FALSE)
Outcomes == {"refused", "fails", "accepted"}

PrepareIntent(s, outcome) ==
    /\ prepared[s] = None
    /\ Intent(s, made, outcome, {})
    /\ UNCHANGED <<live, refused, dropped>>

-----------------------------------------------------------------------------
\* prepareCommand with a classifier

ClassifierThrows ==
    /\ Create(1)
    /\ Release({made + 1})
    /\ UNCHANGED <<live, prepared, refused, dropped>>

\* The classification fork is discarded before the intent is prepared.
ClassifiedIntent(s, outcome) ==
    LET c == made + 1 IN
    /\ prepared[s] = None
    /\ Intent(s, c, outcome, {c})
    /\ refused' = IF outcome = "accepted" THEN refused ELSE refused \cup {c}
    /\ UNCHANGED <<live, dropped>>

\* prepareInteraction goes on with the classifier's state in the place of its own fork. When
\* even that fork cannot be made, nobody discards the classifier's state.
ClassifiedInteraction(s, inPlace, outcome) ==
    LET c == made + 1
        next == IF inPlace THEN c ELSE c + 1
        d == next + 1
    IN
    /\ prepared[s] = None
    /\ IF outcome = "forkless"
       THEN /\ Create(next - made)
            /\ Release({c} \ {next})
            /\ dropped' = dropped \cup {next}
            /\ UNCHANGED prepared
       ELSE /\ Create(d - made)
            /\ Release(({c} \ {next}) \cup {d} \cup (IF outcome = "fails" THEN {next} ELSE {}))
            /\ IF outcome = "fails" THEN UNCHANGED prepared ELSE Open(s, next, next, FALSE)
            /\ UNCHANGED dropped
    /\ UNCHANGED <<live, refused>>

\* prepareAdvance, prepareTimeout and prepareControlTransition: up to k reducer steps on the
\* fork, in place or each with a new state. The states between the first and the last are
\* not kept track of.
PrepareChange(s, k, inPlace, noop, ok) ==
    LET d == made + 1
        last == IF inPlace THEN d ELSE d + k
    IN
    /\ prepared[s] = None
    /\ noop => k = 0 /\ ok
    /\ Create(last - made)
    /\ dropped' = dropped \cup ((d + 1)..(last - 1))
    /\ IF ok THEN Open(s, d, last, noop) /\ UNCHANGED released
       ELSE Release(TakeDraftResources(d, last)) /\ UNCHANGED prepared
    /\ UNCHANGED <<live, refused>>

-----------------------------------------------------------------------------
Finish(s) == prepared' = [prepared EXCEPT ![s] = None]

\* commit: a stale transition and a repeat give all their states back; otherwise the new
\* live state is kept and the previous one retired.
Commit(s) ==
    LET p == prepared[s] IN
    /\ p # None
    /\ Finish(s)
    /\ IF p.base # live \/ p.noop
       THEN Release(p.drafts) /\ UNCHANGED live
       ELSE Release((p.drafts \ {p.next}) \cup {live}) /\ live' = p.next
    /\ UNCHANGED <<made, refused, dropped>>

Abort(s) ==
    /\ prepared[s] # None
    /\ Finish(s)
    /\ Release(prepared[s].drafts)
    /\ UNCHANGED <<live, made, refused, dropped>>

Operation ==
    \/ ClassifierThrows
    \/ \E s \in Slots :
        \/ \E noop, ok \in BOOLEAN : PrepareUnchanged(s, noop, ok)
        \/ \E outcome \in Outcomes : PrepareIntent(s, outcome) \/ ClassifiedIntent(s, outcome)
        \/ \E inPlace \in BOOLEAN, outcome \in {"forkless", "fails", "accepted"} :
               ClassifiedInteraction(s, inPlace, outcome)
        \/ \E k \in 0..MaxTicks : \E inPlace, noop, ok \in BOOLEAN :
               PrepareChange(s, k, inPlace, noop, ok)
        \/ Commit(s)
        \/ Abort(s)

InUse == {live} \cup UNION {prepared[s].drafts : s \in {t \in Slots : prepared[t] # None}}

Next == Operation /\ owned' = owned \cup InUse'

Spec == Init /\ [][Next]_vars

-----------------------------------------------------------------------------
\* Properties

TypeOK ==
    /\ made \in 2..MaxMade /\ live \in 1..made
    /\ released \in [1..MaxMade -> 0..2]
    /\ refused \subseteq 1..made /\ dropped \subseteq 1..made /\ owned \subseteq 1..made
    /\ \A s \in Slots : prepared[s] # None => prepared[s].next \in prepared[s].drafts

\* Whatever is prepared, refused, committed or aborted, and in whatever order, no state in
\* use has been given back.
InUseKept == \A i \in InUse : released[i] = 0

\* What the documentation promises of discard and retire and the kernel does not keep of a
\* classification fork: a state is given back at most once.
ReleasedOnce == \A i \in 1..made : released[i] <= 1

\* What the kernel does keep, for aborted and stale drafts and for the live states that a
\* commit replaces: a state that was live or belonged to a prepared transition is given back
\* exactly once when that ends, by whichever of commit and abort, over all slots. Any other
\* state is given back too, unless the operation that made it lost sight of it.
GivenBackOnce ==
    /\ \A i \in owned \ InUse : released[i] = 1
    /\ \A i \in 1..made : released[i] = 0 => i \in InUse \cup dropped

-----------------------------------------------------------------------------
\* The inductive invariant: where each state is, and what became of it.

Opened(s) == prepared[s] # None

Shape ==
    /\ made \in Nat /\ made <= MaxMade /\ live \in 1..made
    /\ released \in [1..MaxMade -> Nat]
    /\ prepared = [s \in Slots |-> prepared[s]]
    /\ \A s \in Slots : Opened(s) => /\ prepared[s].drafts \subseteq 1..made
                                     /\ prepared[s].next \in prepared[s].drafts

\* A state is in one place at a time: live, or in the draft of one slot.
Apart ==
    \A s \in Slots : Opened(s) =>
        /\ live \notin prepared[s].drafts
        /\ \A t \in Slots \ {s} : Opened(t) => prepared[s].drafts \cap prepared[t].drafts = {}

\* What is in use, and what is not yet made, was never given back.
Unreleased ==
    /\ released[live] = 0
    /\ \A s \in Slots : Opened(s) => \A i \in prepared[s].drafts : released[i] = 0
    /\ \A i \in 1..MaxMade : i > made => released[i] = 0

ForksInv == Shape /\ Apart /\ Unreleased

\* What became of each state: given back twice only as a refused classification fork, and
\* otherwise once, unless it is in use or lost from sight. Those two never were in use.
Counted ==
    /\ made >= 2 /\ refused \subseteq 1..made /\ dropped \subseteq 1..made
    /\ \A i \in 1..made : /\ released[i] \in 0..2
                          /\ released[i] = 2 <=> i \in refused
                          /\ released[i] = 0 => i \in InUse \cup dropped
Parted ==
    /\ InUse \subseteq owned /\ owned \subseteq 1..made
    /\ owned \cap (refused \cup dropped) = {}
=============================================================================
