------------------------- MODULE PredictionSession -------------------------
(***************************************************************************)
(* Optimistic prediction (PredictionSession, applyObservationDelta and     *)
(* snapshot of src/src/session.ts): a client of one seat reconciles its    *)
(* pending submissions with the observation deltas of the kernel.  The     *)
(* deltas travel over a channel that may lose, repeat, delay and reorder   *)
(* them: every delta ever published may be received at any later time, any *)
(* number of times.                                                        *)
(*                                                                         *)
(* The kernel is reduced to what its deltas show to the seat.  A view is   *)
(* the sequence of the sets of this client's submissions that each visible *)
(* step applied, so its length is the view revision; the inputs of other   *)
(* seats are left out.  A patch appends to the view it is applied to and a *)
(* digest is the view itself.  applyPending is total, submission ids are   *)
(* never reused, and the client has a single interest scope.               *)
(***************************************************************************)
EXTENDS Naturals, Sequences, FiniteSets, SequenceFilter, TLC

CONSTANTS
    Submissions,   \* submissions of this client
    NoView,        \* no authoritative view yet
    MaxCatchUp,    \* empty ticks a catch-up resolves behind the first
    MaxTransitions  \* bound on committed transitions

ASSUME PredictionAssumption ==
    /\ NoView \notin Nat
    /\ {MaxCatchUp, MaxTransitions} \subseteq Nat

View == Seq(SUBSET Submissions)
\* The rejections a delta carries are the submissions of its notices.
Delta == [rev : Nat, viewRev : Nat,
          origin : {"resolution", "interaction", "snapshot"},
          acknowledgements : SUBSET Submissions, rejections : SUBSET Submissions,
          body : {"snapshot", "patch", "unchanged"},
          content : View,      \* the view, or what a patch appends
          digest : View]

VARIABLES
    \* The kernel.
    revision,    \* transitionRevision
    committed,   \* the seat's view
    window,      \* submissions accepted and not yet resolved
    rejected,    \* rejectionHistory: submission and revision
    sent,        \* deltas published so far
    \* The client.
    enqueued,    \* every submission predicted, in order
    pending,     \* pendingSubmissions
    authoritative, transitionRevision, viewRevision,
    repaired,    \* a snapshot was applied
    result       \* status or reason of the last reconcile

kernel == <<revision, committed, window, rejected, sent>>
client == <<enqueued, pending, authoritative, transitionRevision, viewRevision,
            repaired, result>>
predictionVars == <<kernel, client>>

Applied(view) == UNION Elements(view)
RejectedBy(r) == {n.id : n \in {m \in rejected : m.rev <= r}}
Spent == window \cup Applied(committed) \cup RejectedBy(revision)

-----------------------------------------------------------------------------
(* The kernel: transitions as one seat sees them.                          *)

\* encodedObservation chooses between a patch and the whole view.
Encoded(rev, view, origin, acks) ==
    {[rev |-> rev, viewRev |-> Len(view), origin |-> origin,
      acknowledgements |-> acks, rejections |-> {}, body |-> b,
      content |-> IF b = "patch" THEN <<view[Len(view)]>> ELSE view,
      digest |-> view] : b \in {"patch", "snapshot"}}

\* Transitions without a delta: an accepted intent, an extension, a signature.
Accept(s) ==
    /\ revision < MaxTransitions
    /\ s \in Elements(enqueued) \ Spent
    /\ revision' = revision + 1
    /\ window' = window \cup {s}
    /\ UNCHANGED <<committed, rejected, sent, client>>

Extend ==
    /\ revision < MaxTransitions
    /\ revision' = revision + 1
    /\ UNCHANGED <<committed, window, rejected, sent, client>>

Interact(s) ==
    LET view == Append(committed, {s})
    IN /\ revision < MaxTransitions
       /\ s \in Elements(enqueued) \ Spent
       /\ revision' = revision + 1
       /\ committed' = view
       /\ \E d \in Encoded(revision + 1, view, "interaction", {s}) :
             sent' = sent \cup {d}
       /\ UNCHANGED <<window, rejected, client>>

\* An advance: one delta for the window and one for each tick of a catch-up,
\* all at the same transition revision.
CatchUpView(extra) == committed \o <<window>> \o [j \in 1..extra |-> {}]
Resolve(extra) ==
    LET view == CatchUpView(extra)
        upTo(j) == SubSeq(view, 1, Len(committed) + 1 + j)
    IN /\ revision < MaxTransitions
       /\ revision' = revision + 1
       /\ committed' = view
       /\ window' = {}
       /\ \E f \in [0..extra -> {"patch", "snapshot"}] :
             sent' = sent \cup UNION
               {{d \in Encoded(revision + 1, upTo(j), "resolution",
                               IF j = 0 THEN window ELSE {}) : d.body = f[j]} :
                  j \in 0..extra}
       /\ UNCHANGED <<rejected, client>>

\* A mismatching reveal leaves the window; no view changes.
Reject(s) ==
    /\ revision < MaxTransitions
    /\ s \in window
    /\ revision' = revision + 1
    /\ window' = window \ {s}
    /\ rejected' = rejected \cup {[id |-> s, rev |-> revision + 1]}
    /\ sent' = sent \cup
         {[rev |-> revision + 1, viewRev |-> Len(committed),
           origin |-> "resolution", acknowledgements |-> {}, rejections |-> {s},
           body |-> "unchanged", content |-> <<>>, digest |-> committed]}
    /\ UNCHANGED <<committed, client>>

\* Mutated rejectionNoticesSince: the first revision after the client's is left
\* out.
rejectionNoticesSinceShifted(after) ==
    {n.id : n \in {m \in rejected : m.rev > after + 1}}
rejectionNoticesSince(after) == {n.id : n \in {m \in rejected : m.rev > after}}

\* snapshot(seat, after), with the client's watermark at the time it asks.
Snapshot ==
    LET after == IF transitionRevision = NoView THEN 0 ELSE transitionRevision
    IN /\ sent' = sent \cup
            {[rev |-> revision, viewRev |-> Len(committed), origin |-> "snapshot",
              acknowledgements |-> {}, rejections |-> rejectionNoticesSince(after),
              body |-> "snapshot", content |-> committed, digest |-> committed]}
       /\ UNCHANGED <<revision, committed, window, rejected, client>>

-----------------------------------------------------------------------------
(* The client.                                                             *)

\* A prediction needs a view to apply to.
predict(s) ==
    /\ transitionRevision # NoView
    /\ s \notin Elements(enqueued)
    /\ enqueued' = Append(enqueued, s)
    /\ pending' = Append(pending, s)
    /\ UNCHANGED <<kernel, authoritative, transitionRevision, viewRevision,
                   repaired, result>>

Known == transitionRevision # NoView
\* Mutated Stale: only a repeated delta is ignored, not an older one.
StaleIfEqual(d) == Known /\ d.rev = transitionRevision
Stale(d) == Known /\ d.rev <= transitionRevision
Gap(d) == Known /\ d.origin # "snapshot" /\ d.rev # transitionRevision + 1

\* applyObservationDelta: the body applied to the previous view ...
NextView(d) == IF d.body = "snapshot" THEN d.content
               ELSE authoritative \o d.content
\* Mutated Applies: the digest of the result is not compared.
AppliesUnchecked(d) == d.body = "snapshot" \/ Known
\* ... needs one unless it is a snapshot, and must reproduce the digest.
Applies(d) == (d.body = "snapshot" \/ Known) /\ NextView(d) = d.digest

\* Mutated Refusal: the status is recorded, not its reason.
RefusalStatus(d) == IF Stale(d) THEN "ignored" ELSE "resync_required"
Refusal(d) ==
    CASE Stale(d) -> "ignored"
      [] ~Stale(d) /\ Gap(d) -> "transition_gap"
      [] ~Stale(d) /\ ~Gap(d) /\ ~Known /\ d.body # "snapshot" -> "missing_base"
      [] OTHER -> "invalid_delta"

\* Mutated Settled: a snapshot settles whatever was pending.
SettledBySnapshot(d) ==
    IF d.origin = "snapshot" THEN Elements(pending)
                             ELSE d.acknowledgements \cup d.rejections
Settled(d) == d.acknowledgements \cup d.rejections

\* reconcile, when it applies the delta ...
reconcile(d) ==
    /\ ~Stale(d) /\ ~Gap(d) /\ Applies(d)
    /\ pending' = Filtered(pending, Elements(pending) \ Settled(d))
    /\ authoritative' = NextView(d)
    /\ transitionRevision' = d.rev
    /\ viewRevision' = d.viewRev
    /\ repaired' = (repaired \/ d.origin = "snapshot")
    /\ result' = "applied"
    /\ UNCHANGED <<kernel, enqueued>>

\* ... and when it ignores it or asks for a resync.
reconcileRefused(d) ==
    /\ Stale(d) \/ Gap(d) \/ ~Applies(d)
    /\ result' = Refusal(d)
    /\ UNCHANGED <<kernel, enqueued, pending, authoritative, transitionRevision,
                   viewRevision, repaired>>

-----------------------------------------------------------------------------
PredictionInit ==
    /\ revision = 0 /\ committed = <<>> /\ window = {}
    /\ rejected = {} /\ sent = {}
    /\ enqueued = <<>> /\ pending = <<>>
    /\ authoritative = <<>>
    /\ \/ transitionRevision = 0 /\ viewRevision = 0       \* options.initial
       \/ transitionRevision = NoView /\ viewRevision = NoView
    /\ repaired = FALSE /\ result = "none"

PredictionNext ==
    \/ \E s \in Submissions : Accept(s) \/ Interact(s) \/ Reject(s) \/ predict(s)
    \/ Extend
    \/ \E extra \in 0..MaxCatchUp : Resolve(extra)
    \/ Snapshot
    \/ \E d \in sent : reconcile(d) \/ reconcileRefused(d)

PredictionSpec == PredictionInit /\ [][PredictionNext]_predictionVars

-----------------------------------------------------------------------------
(* Properties.                                                             *)

Results == {"none", "applied", "ignored", "transition_gap", "missing_base",
            "invalid_delta"}

\* Type invariant of the kernel's and the client's state.
PredictionTypeOK ==
    /\ revision \in 0..MaxTransitions /\ committed \in View
    /\ window \subseteq Submissions
    /\ rejected \subseteq [id : Submissions, rev : Nat]
    /\ sent \subseteq Delta
    /\ {enqueued, pending} \subseteq Seq(Submissions)
    /\ authoritative \in View
    /\ {transitionRevision, viewRevision} \subseteq Nat \cup {NoView}
    /\ repaired \in BOOLEAN /\ result \in Results

\* The view a client builds from patches and snapshots is one the kernel showed
\* at exactly that view revision, whatever the channel lost, repeated or
\* reordered (applyObservationDelta, reconcile).
ViewWasCommitted ==
    Known => /\ viewRevision <= Len(committed)
             /\ authoritative = SubSeq(committed, 1, viewRevision)

\* A client never returns to an older view or an older transition.
NeverBackwards ==
    [][Known => /\ transitionRevision' >= transitionRevision
                /\ viewRevision' >= viewRevision]_predictionVars

\* Pending submissions keep the order they were predicted in, and none is
\* dropped before the view the client holds has applied or rejected it.
PendingKept ==
    /\ pending = Filtered(enqueued, Elements(pending))
    /\ Elements(enqueued) \ Elements(pending) \subseteq
         Applied(authoritative) \cup RejectedBy(transitionRevision)

\* Nothing the client's view has rejected stays pending, and nothing it has
\* applied does, so that no prediction is replayed on top of its own effect;
\* only a snapshot, which carries no acknowledgements, may leave one behind.
SettledOnce ==
    Known => /\ RejectedBy(transitionRevision) \cap Elements(pending) = {}
             /\ ~repaired => Applied(authoritative) \cap Elements(pending) = {}

\* docs/session-and-integrity.md: "Prediction clients process envelopes in
\* increasing `transitionRevision` order and newer resolution bodies in
\* increasing `viewRevision` order."  A client that reconciles the next body of
\* the transition it is at, a later tick of the same catch-up, shows it.
NewerBodiesShown ==
    [][\A d \in sent :
         (Known /\ reconcileRefused(d) /\ d.rev = transitionRevision)
         => d.viewRev <= viewRevision]_predictionVars

-----------------------------------------------------------------------------
\* For TLC: submissions are interchangeable.
SubmissionSymmetry == Permutations(Submissions)
=============================================================================
