----------------------- MODULE PredictionSession_proofs -----------------------
(***************************************************************************)
(* Proofs about PredictionSession for every set of submissions and every   *)
(* bound: whatever the channel loses, repeats or reorders, the view of the *)
(* client is a view of the kernel, and its pending submissions are the     *)
(* ones that view has neither applied nor rejected.                        *)
(*                                                                         *)
(* The hard part is that no acknowledgement is missed.  An accepted intent *)
(* is a transition without a delta: a client that was behind it when the   *)
(* window resolves meets a gap and must be repaired by a snapshot.  So a   *)
(* client that was never repaired has received every delta in an unbroken  *)
(* run of transitions, and what those apply is acknowledged by the only    *)
(* transition that applies it, an interaction.                             *)
(***************************************************************************)
EXTENDS PredictionSession, SequenceFilter

\* What the client has predicted, and what the kernel knows of it.
Predicted ==
    /\ Spent \subseteq Elements(enqueued)
    /\ \A n \in rejected : n.id \in Elements(enqueued) /\ n.rev \in 1..revision
    /\ ~Known => enqueued = <<>>

\* A delta shows a prefix of the kernel's view, and accounts for no more than
\* that view and the rejections up to its revision.
DeltasHonest ==
    \A d \in sent :
        /\ d.rev <= revision /\ d.viewRev <= Len(committed)
        /\ d.digest = SubSeq(committed, 1, d.viewRev)
        /\ d.acknowledgements \subseteq Applied(d.digest)
        /\ d.rejections \subseteq RejectedBy(d.rev)

DeltasInOrder == \A d, e \in sent : d.rev < e.rev => d.viewRev <= e.viewRev

\* The deltas the client may still apply are ahead of it, and bring every
\* rejection it has not seen.
ClientBehind ==
    Known =>
        /\ transitionRevision <= revision /\ viewRevision \in Nat
        /\ \A d \in sent : d.rev > transitionRevision => d.viewRev >= viewRevision

Repairs(d) == d.origin = "snapshot"
RejectionsSent ==
    \A d \in sent, n \in rejected :
        /\ ~Repairs(d) /\ d.rev = n.rev => n.id \in d.rejections
        /\ Repairs(d) /\ n.rev <= d.rev /\ (Known => n.rev > transitionRevision)
              => n.id \in d.rejections

\* Every transition after the client's, up to r, has a delta.
Unbroken(r) ==
    \A g \in 1..r : transitionRevision < g =>
        \E d \in sent : ~Repairs(d) /\ d.rev = g

\* Up to r, what a view applied of the pending submissions was acknowledged by
\* every delta of one transition after the client's.
Acknowledged(r, view) ==
    \A s \in Applied(view) \cap Elements(pending) :
        \E g \in 1..r :
            /\ transitionRevision < g
            /\ \A d \in sent : ~Repairs(d) /\ d.rev = g => s \in d.acknowledgements

\* A client that was never repaired misses no acknowledgement.
AcknowledgementsSent ==
    Known /\ ~repaired =>
        /\ window # {} => ~Unbroken(revision)
        /\ Unbroken(revision) => Acknowledged(revision, committed)
        /\ \A d \in sent :
             ~Repairs(d) /\ Unbroken(d.rev) => Acknowledged(d.rev, d.digest)

IInv ==
    /\ PredictionTypeOK /\ Predicted /\ DeltasHonest /\ DeltasInOrder /\ ClientBehind
    /\ ViewWasCommitted /\ PendingKept
    /\ RejectionsSent /\ AcknowledgementsSent /\ SettledOnce

-----------------------------------------------------------------------------
(* Prefixes of views.                                                      *)

LEMMA PrefixFacts ==
    ASSUME NEW v \in View, NEW k \in 0..Len(v)
    PROVE  /\ SubSeq(v, 1, k) \in View
           /\ Len(SubSeq(v, 1, k)) = k
           /\ \A i \in 1..k : SubSeq(v, 1, k)[i] = v[i]
<1>1. \A i \in 1..k : v[i] \in SUBSET Submissions
  BY DEF View
<1>2. Len(v) \in Nat
  BY DEF View
<1>q. QED  BY <1>1, <1>2, SubSeqProperties DEF View

LEMMA PrefixFull ==
    ASSUME NEW v \in View
    PROVE  SubSeq(v, 1, Len(v)) = v
BY SubSeqFull DEF View

LEMMA PrefixApplied ==
    ASSUME NEW v \in View, NEW l \in 0..Len(v), NEW k \in 0..l
    PROVE  Applied(SubSeq(v, 1, k)) \subseteq Applied(SubSeq(v, 1, l))
<1>1. Len(v) \in Nat /\ k \in 0..Len(v)
  BY DEF View
<1>2. /\ DOMAIN SubSeq(v, 1, k) = 1..k /\ DOMAIN SubSeq(v, 1, l) = 1..l
      /\ \A i \in 1..k : SubSeq(v, 1, k)[i] = SubSeq(v, 1, l)[i]
  BY <1>1, PrefixFacts DEF View
<1>3. Elements(SubSeq(v, 1, k)) \subseteq Elements(SubSeq(v, 1, l))
  BY <1>1, <1>2 DEF Elements
<1>q. QED  BY <1>3 DEF Applied

LEMMA PrefixOfPrefix ==
    ASSUME NEW v \in View, NEW l \in 0..Len(v), NEW k \in 0..l
    PROVE  SubSeq(SubSeq(v, 1, l), 1, k) = SubSeq(v, 1, k)
<1>1. Len(v) \in Nat /\ k \in 0..Len(v)
  BY DEF View
<1> DEFINE w == SubSeq(v, 1, l)
<1>2. w \in View /\ Len(w) = l /\ \A i \in 1..l : w[i] = v[i]
  BY PrefixFacts
<1>3. /\ SubSeq(w, 1, k) \in View /\ Len(SubSeq(w, 1, k)) = k
      /\ \A i \in 1..k : SubSeq(w, 1, k)[i] = w[i]
  <2> HIDE DEF w
  <2>q. QED  BY <1>1, <1>2, PrefixFacts
<1>4. /\ SubSeq(v, 1, k) \in View /\ Len(SubSeq(v, 1, k)) = k
      /\ \A i \in 1..k : SubSeq(v, 1, k)[i] = v[i]
  BY <1>1, PrefixFacts
<1>5. \A i \in 1..k : SubSeq(w, 1, k)[i] = SubSeq(v, 1, k)[i]
  BY <1>1, <1>2, <1>3, <1>4
<1> HIDE DEF w
<1>6. SubSeq(w, 1, k) = SubSeq(v, 1, k)
  BY <1>3, <1>4, <1>5, SeqEqual DEF View
<1>q. QED  BY <1>6 DEF w

LEMMA ViewConcat ==
    ASSUME NEW v \in View, NEW w \in View
    PROVE  /\ v \o w \in View /\ Len(v \o w) = Len(v) + Len(w)
           /\ SubSeq(v \o w, 1, Len(v)) = v
           /\ Applied(v \o w) = Applied(v) \cup Applied(w)
<1>1. v \o w \in View /\ Len(v \o w) = Len(v) + Len(w) /\ Len(v) \in Nat /\ Len(w) \in Nat
  BY DEF View
<1>2. SubSeq(v \o w, 1, Len(v)) = v
  <2> DEFINE u == v \o w
  <2>0. u \in View /\ Len(v) \in 0..Len(u)
    BY <1>1
  <2> HIDE DEF u
  <2>1. /\ SubSeq(u, 1, Len(v)) \in View
        /\ Len(SubSeq(u, 1, Len(v))) = Len(v)
        /\ \A i \in 1..Len(v) : SubSeq(u, 1, Len(v))[i] = u[i]
    BY <2>0, PrefixFacts
  <2>2. \A i \in 1..Len(v) : u[i] = v[i]
    BY DEF View, u
  <2>3. SubSeq(u, 1, Len(v)) = v
    BY <2>1, <2>2, SeqEqual DEF View
  <2>q. QED  BY <2>3 DEF u
<1>3. Elements(v \o w) = Elements(v) \cup Elements(w)
  BY ElementsConcat DEF View
<1>q. QED  BY <1>1, <1>2, <1>3 DEF Applied

-----------------------------------------------------------------------------
(* The deltas of the kernel.                                               *)

LEMMA EncodedFacts ==
    ASSUME NEW rev \in Nat, NEW view \in View, Len(view) > 0,
           NEW origin \in {"resolution", "interaction"},
           NEW acks \in SUBSET Submissions, NEW d \in Encoded(rev, view, origin, acks)
    PROVE  /\ d \in Delta
           /\ d.rev = rev /\ d.viewRev = Len(view) /\ d.origin = origin
           /\ d.acknowledgements = acks /\ d.rejections = {} /\ d.digest = view
           /\ ~Repairs(d)
<1>1. PICK b \in {"patch", "snapshot"} :
        d = [rev |-> rev, viewRev |-> Len(view), origin |-> origin,
             acknowledgements |-> acks, rejections |-> {}, body |-> b,
             content |-> IF b = "patch" THEN <<view[Len(view)]>> ELSE view,
             digest |-> view]
  BY DEF Encoded
<1>2. Len(view) \in Nat /\ view[Len(view)] \in SUBSET Submissions
  BY DEF View
<1>3. <<view[Len(view)]>> \in View
  BY <1>2 DEF View
<1>4. (IF b = "patch" THEN <<view[Len(view)]>> ELSE view) \in View
  BY <1>3
<1>q. QED  BY <1>1, <1>2, <1>4 DEF Delta, Repairs

LEMMA CatchUpFacts ==
    ASSUME committed \in View, window \subseteq Submissions, NEW extra \in Nat
    PROVE  /\ CatchUpView(extra) \in View
           /\ Len(CatchUpView(extra)) = Len(committed) + 1 + extra
           /\ SubSeq(CatchUpView(extra), 1, Len(committed)) = committed
           /\ Applied(CatchUpView(extra)) = Applied(committed) \cup window
           /\ window \subseteq Applied(SubSeq(CatchUpView(extra), 1, Len(committed) + 1))
<1> DEFINE one == committed \o <<window>>
           ticks == [j \in 1..extra |-> {}]
<1>1. <<window>> \in View /\ Len(<<window>>) = 1 /\ Applied(<<window>>) = window
  BY DEF View, Applied, Elements
<1>2. ticks \in View /\ Len(ticks) = extra
  BY DEF View
<1>3. Applied(ticks) = {}
  BY DEF Applied, Elements
<1>4. Len(committed) \in Nat
  BY DEF View
<1>5. /\ one \in View /\ Len(one) = Len(committed) + 1
      /\ SubSeq(one, 1, Len(committed)) = committed
      /\ Applied(one) = Applied(committed) \cup window
  BY <1>1, ViewConcat
<1> HIDE DEF one, ticks
<1>6. /\ one \o ticks \in View /\ Len(one \o ticks) = Len(one) + extra
      /\ SubSeq(one \o ticks, 1, Len(one)) = one
      /\ Applied(one \o ticks) = Applied(one) \cup Applied(ticks)
  BY <1>2, <1>5, ViewConcat
<1> DEFINE all == one \o ticks
<1>7. all = CatchUpView(extra)
  BY DEF all, one, ticks, CatchUpView
<1> HIDE DEF all
<1>8. /\ all \in View /\ Len(all) = Len(committed) + 1 + extra
      /\ SubSeq(all, 1, Len(committed) + 1) = one
      /\ Applied(all) = Applied(committed) \cup window
  BY <1>3, <1>4, <1>5, <1>6 DEF all
<1>9. SubSeq(SubSeq(all, 1, Len(committed) + 1), 1, Len(committed))
        = SubSeq(all, 1, Len(committed))
  BY <1>4, <1>8, PrefixOfPrefix
<1>q. QED  BY <1>5, <1>7, <1>8, <1>9

\* What the kernel publishes for one advance.
Published(extra, f) ==
    UNION {{d \in Encoded(revision + 1,
                          SubSeq(CatchUpView(extra), 1, Len(committed) + 1 + j),
                          "resolution", IF j = 0 THEN window ELSE {}) : d.body = f[j]} :
             j \in 0..extra}

LEMMA PublishedFacts ==
    ASSUME committed \in View, window \subseteq Submissions, revision \in Nat,
           NEW extra \in Nat, NEW f, NEW d \in Published(extra, f)
    PROVE  /\ d \in Delta /\ ~Repairs(d)
           /\ d.rev = revision + 1
           /\ d.viewRev \in Len(committed)..Len(CatchUpView(extra))
           /\ d.digest = SubSeq(CatchUpView(extra), 1, d.viewRev)
           /\ d.acknowledgements \subseteq Applied(d.digest) /\ d.rejections = {}
<1> DEFINE v == CatchUpView(extra)
<1>0. Len(committed) \in Nat
  BY DEF View
<1>1. /\ v \in View /\ Len(v) = Len(committed) + 1 + extra /\ Len(committed) \in Nat
      /\ window \subseteq Applied(SubSeq(v, 1, Len(committed) + 1))
  BY <1>0, CatchUpFacts
<1>2. PICK j \in 0..extra :
        d \in Encoded(revision + 1, SubSeq(v, 1, Len(committed) + 1 + j),
                      "resolution", IF j = 0 THEN window ELSE {})
  BY DEF Published
<1> DEFINE k == Len(committed) + 1 + j
           acks == IF j = 0 THEN window ELSE {}
<1>3. k \in 0..Len(v) /\ k > 0
  BY <1>1
<1> HIDE DEF v, k
<1>4. SubSeq(v, 1, k) \in View /\ Len(SubSeq(v, 1, k)) = k
  BY <1>1, <1>3, PrefixFacts
<1>5. acks \in SUBSET Submissions
  OBVIOUS
<1>6. /\ d \in Delta
      /\ d.rev = revision + 1 /\ d.viewRev = k /\ d.origin = "resolution"
      /\ d.acknowledgements = acks /\ d.rejections = {} /\ d.digest = SubSeq(v, 1, k)
      /\ ~Repairs(d)
  <2> DEFINE w == SubSeq(v, 1, k)
             n == revision + 1
  <2>1. d \in Encoded(n, w, "resolution", acks)
    BY <1>2 DEF k, acks
  <2>2. n \in Nat /\ w \in View /\ Len(w) > 0 /\ Len(w) = k
    BY <1>3, <1>4
  <2> HIDE DEF acks, w, n
  <2>3. /\ d \in Delta
        /\ d.rev = n /\ d.viewRev = Len(w) /\ d.origin = "resolution"
        /\ d.acknowledgements = acks /\ d.rejections = {} /\ d.digest = w
        /\ ~Repairs(d)
    BY <1>5, <2>1, <2>2, EncodedFacts
  <2>q. QED  BY <2>2, <2>3 DEF w, n
<1>7. acks \subseteq Applied(SubSeq(v, 1, k))
  BY <1>1 DEF k
<1>8. k \in Len(committed)..Len(v)
  BY <1>1 DEF k
<1>q. QED  BY <1>6, <1>7, <1>8 DEF v
-----------------------------------------------------------------------------
(* Type correctness.                                                       *)

LEMMA TypeFacts ==
    ASSUME PredictionTypeOK
    PROVE  /\ revision \in Nat /\ committed \in View /\ Len(committed) \in Nat
           /\ window \subseteq Submissions /\ sent \subseteq Delta
           /\ enqueued \in Seq(Submissions) /\ pending \in Seq(Submissions)
           /\ authoritative \in View
           /\ Known => transitionRevision \in Nat
           /\ transitionRevision \in Nat => Known
BY PredictionAssumption DEF PredictionTypeOK, View, Known

LEMMA DeltaFacts ==
    ASSUME PredictionTypeOK, NEW d \in sent
    PROVE  /\ d.rev \in Nat /\ d.viewRev \in Nat /\ d \in Delta
           /\ d.acknowledgements \subseteq Submissions
           /\ d.rejections \subseteq Submissions
           /\ d.content \in View /\ d.digest \in View
           /\ d.body \in {"snapshot", "patch", "unchanged"}
<1>1. d \in Delta
  BY DEF PredictionTypeOK
<1>q. QED  BY <1>1 DEF Delta

LEMMA TypeInit == PredictionInit => PredictionTypeOK
<1> SUFFICES ASSUME PredictionInit PROVE PredictionTypeOK
  OBVIOUS
<1>1. revision \in 0..MaxTransitions
  BY PredictionAssumption DEF PredictionInit
<1>2. <<>> \in View /\ <<>> \in Seq(Submissions)
  BY DEF View
<1>3. committed \in View /\ authoritative \in View
      /\ {enqueued, pending} \subseteq Seq(Submissions)
  BY <1>2 DEF PredictionInit
<1>4. {transitionRevision, viewRevision} \subseteq Nat \cup {NoView}
  BY DEF PredictionInit
<1>5. repaired \in BOOLEAN /\ result \in Results
  BY DEF PredictionInit, Results
<1>6. window \subseteq Submissions /\ rejected \subseteq [id : Submissions, rev : Nat]
      /\ sent \subseteq Delta
  BY DEF PredictionInit
<1>q. QED  BY <1>1, <1>3, <1>4, <1>5, <1>6 DEF PredictionTypeOK

LEMMA TypeKernelStep ==
    ASSUME PredictionTypeOK,
           \/ \E s \in Submissions : Accept(s) \/ Interact(s) \/ Reject(s)
           \/ Extend
           \/ \E extra \in 0..MaxCatchUp : Resolve(extra)
           \/ Snapshot
    PROVE  PredictionTypeOK'
<1> USE TypeFacts
<1>r. \A n \in Nat : n < MaxTransitions => n + 1 \in 0..MaxTransitions
  BY PredictionAssumption
<1>1. CASE \E s \in Submissions : Accept(s)
  BY <1>1, <1>r DEF Accept, PredictionTypeOK, client
<1>2. ASSUME NEW s \in Submissions, Interact(s) PROVE PredictionTypeOK'
  <2> DEFINE view == Append(committed, {s})
             n == revision + 1
  <2>1. view \in View /\ Len(view) > 0 /\ n \in Nat
    BY DEF View
  <2>2. PICK d \in Encoded(n, view, "interaction", {s}) : sent' = sent \cup {d}
    BY <1>2 DEF Interact
  <2>3. committed' = view
    BY <1>2 DEF Interact
  <2> HIDE DEF view, n
  <2>4. d \in Delta
    BY <2>1, <2>2, EncodedFacts
  <2>5. committed' \in View /\ sent' \subseteq Delta
    BY <2>1, <2>2, <2>3, <2>4
  <2>6. revision' \in 0..MaxTransitions
    BY <1>2, <1>r DEF Interact
  <2>q. QED  BY <1>2, <2>5, <2>6 DEF Interact, PredictionTypeOK, client
<1>3. ASSUME NEW s \in Submissions, Reject(s) PROVE PredictionTypeOK'
  <2>1. revision' \in 0..MaxTransitions
    BY <1>3, <1>r DEF Reject
  <2>2. [id |-> s, rev |-> revision + 1] \in [id : Submissions, rev : Nat]
    OBVIOUS
  <2>3. [rev |-> revision + 1, viewRev |-> Len(committed),
         origin |-> "resolution", acknowledgements |-> {}, rejections |-> {s},
         body |-> "unchanged", content |-> <<>>, digest |-> committed] \in Delta
    BY DEF Delta, View
  <2>4. rejected' \subseteq [id : Submissions, rev : Nat] /\ sent' \subseteq Delta
    BY <1>3, <2>2, <2>3 DEF Reject, PredictionTypeOK
  <2>q. QED  BY <1>3, <2>1, <2>4 DEF Reject, PredictionTypeOK, client
<1>4. CASE Extend
  BY <1>4, <1>r DEF Extend, PredictionTypeOK, client
<1>5. ASSUME NEW extra \in 0..MaxCatchUp, Resolve(extra) PROVE PredictionTypeOK'
  <2>1. revision' \in 0..MaxTransitions
    BY <1>5, <1>r DEF Resolve
  <2>2. extra \in Nat
    BY PredictionAssumption
  <2>3. committed' \in View
    BY <1>5, <2>2, CatchUpFacts DEF Resolve
  <2>4. PICK f : sent' = sent \cup Published(extra, f)
    BY <1>5 DEF Resolve, Published
  <2>5. Published(extra, f) \subseteq Delta
    BY <2>2, PublishedFacts
  <2>6. sent' \subseteq Delta
    BY <2>4, <2>5
  <2>q. QED  BY <1>5, <2>1, <2>3, <2>6 DEF Resolve, PredictionTypeOK, client
<1>6. CASE Snapshot
  <2> DEFINE after == IF transitionRevision = NoView THEN 0 ELSE transitionRevision
  <2>1. rejectionNoticesSince(after) \subseteq Submissions
    BY DEF rejectionNoticesSince, PredictionTypeOK
  <2>2. [rev |-> revision, viewRev |-> Len(committed), origin |-> "snapshot",
         acknowledgements |-> {}, rejections |-> rejectionNoticesSince(after),
         body |-> "snapshot", content |-> committed, digest |-> committed] \in Delta
    BY <2>1 DEF Delta
  <2>3. sent' \subseteq Delta
    BY <1>6, <2>2 DEF Snapshot
  <2>q. QED  BY <1>6, <2>3 DEF Snapshot, PredictionTypeOK, client
<1>q. QED  BY <1>1, <1>2, <1>3, <1>4, <1>5, <1>6

LEMMA NextViewType ==
    ASSUME PredictionTypeOK, NEW d \in sent
    PROVE  NextView(d) \in View
<1>1. d.content \in View /\ authoritative \in View
  BY DeltaFacts, TypeFacts
<1>2. authoritative \o d.content \in View
  BY <1>1, ViewConcat
<1>q. QED  BY <1>1, <1>2 DEF NextView

LEMMA TypeClientStep ==
    ASSUME PredictionTypeOK,
           \/ \E s \in Submissions : predict(s)
           \/ \E d \in sent : reconcile(d) \/ reconcileRefused(d)
           \/ UNCHANGED predictionVars
    PROVE  PredictionTypeOK'
<1> USE TypeFacts
<1>1. CASE \E s \in Submissions : predict(s)
  BY <1>1 DEF predict, PredictionTypeOK, kernel
<1>2. ASSUME NEW d \in sent, reconcile(d) PROVE PredictionTypeOK'
  <2>1. pending' \in Seq(Submissions)
    BY <1>2, FilteredElements DEF reconcile
  <2>2. authoritative' \in View
    BY <1>2, NextViewType DEF reconcile
  <2>3. transitionRevision' \in Nat /\ viewRevision' \in Nat /\ repaired' \in BOOLEAN
        /\ result' \in Results
    BY <1>2, DeltaFacts DEF reconcile, PredictionTypeOK, Results
  <2>q. QED  BY <1>2, <2>1, <2>2, <2>3 DEF reconcile, PredictionTypeOK, kernel
<1>3. ASSUME NEW d \in sent, reconcileRefused(d) PROVE PredictionTypeOK'
  <2>1. result' \in Results
    BY <1>3 DEF reconcileRefused, Refusal, Results
  <2>q. QED  BY <1>3, <2>1 DEF reconcileRefused, PredictionTypeOK, kernel
<1>4. CASE UNCHANGED predictionVars
  BY <1>4 DEF predictionVars, kernel, client, PredictionTypeOK
<1>q. QED  BY <1>1, <1>2, <1>3, <1>4
-----------------------------------------------------------------------------
(* What every step of the kernel has in common: it publishes the deltas N. *)

KernelStep(N) ==
    /\ UNCHANGED client
    /\ sent' = sent \cup N
    /\ revision' \in {revision, revision + 1}
    /\ Len(committed) <= Len(committed')
    /\ committed = SubSeq(committed', 1, Len(committed))
    /\ rejected \subseteq rejected'
    /\ \A n \in rejected' \ rejected :
         n.id \in Elements(enqueued) /\ n.rev = revision' /\ revision' = revision + 1
    /\ Spent' \subseteq Elements(enqueued)
    /\ \A d \in N :
         /\ d.rev = revision'
         /\ d.viewRev \in Len(committed)..Len(committed')
         /\ d.digest = SubSeq(committed', 1, d.viewRev)
         /\ d.acknowledgements \subseteq Applied(d.digest)
         /\ d.rejections \subseteq RejectedBy(revision)'
         /\ \A n \in rejected' \ rejected : n.id \in d.rejections
         /\ Repairs(d) => \A n \in rejected :
              (Known => n.rev > transitionRevision) => n.id \in d.rejections
         /\ ~Repairs(d) => revision' = revision + 1
    \* A transition without a delta opens a gap; one with a delta acknowledges
    \* what it applies, except what it takes from the window.
    /\ \/ UNCHANGED <<revision, committed, window>>
       \/ revision' = revision + 1 /\ N = {}
       \/ /\ revision' = revision + 1 /\ window' \subseteq window
          /\ window # {} \/ \A d \in N : ~Repairs(d) =>
               Applied(committed') \ Applied(committed) \subseteq d.acknowledgements

LEMMA SpentFacts ==
    ASSUME IInv
    PROVE  /\ window \subseteq Elements(enqueued)
           /\ Applied(committed) \subseteq Elements(enqueued)
           /\ \A n \in rejected : n.id \in Elements(enqueued)
BY DEF IInv, Predicted, Spent

LEMMA AcceptStep ==
    ASSUME IInv, NEW s \in Submissions, Accept(s)
    PROVE  KernelStep({})
<1>1. UNCHANGED <<client, committed, rejected, sent>> /\ revision' = revision + 1
      /\ UNCHANGED enqueued
  BY DEF Accept, client
<1>2. /\ committed = SubSeq(committed', 1, Len(committed)) /\ Len(committed) <= Len(committed')
  BY <1>1, TypeFacts, PrefixFull DEF IInv
<1>3. Spent' \subseteq Elements(enqueued)
  BY <1>1, SpentFacts DEF Accept, Spent, RejectedBy
<1>q. QED  BY <1>1, <1>2, <1>3 DEF KernelStep

LEMMA ExtendStep ==
    ASSUME IInv, Extend
    PROVE  KernelStep({})
<1>1. UNCHANGED <<client, committed, window, rejected, sent>> /\ revision' = revision + 1
      /\ UNCHANGED enqueued
  BY DEF Extend, client
<1>2. /\ committed = SubSeq(committed', 1, Len(committed)) /\ Len(committed) <= Len(committed')
  BY <1>1, TypeFacts, PrefixFull DEF IInv
<1>3. Spent' \subseteq Elements(enqueued)
  BY <1>1, SpentFacts DEF Spent, RejectedBy
<1>q. QED  BY <1>1, <1>2, <1>3 DEF KernelStep

LEMMA InteractStep ==
    ASSUME IInv, NEW s \in Submissions, Interact(s)
    PROVE  \E N \in SUBSET Delta : KernelStep(N)
<1> DEFINE view == Append(committed, {s})
           n == revision + 1
<1>1. /\ UNCHANGED <<client, window, rejected>> /\ revision' = n /\ UNCHANGED enqueued
      /\ committed' = view /\ s \in Elements(enqueued)
  BY DEF Interact, client
<1>2. PICK d \in Encoded(n, view, "interaction", {s}) : sent' = sent \cup {d}
  BY DEF Interact
<1>3. committed \in View /\ Len(committed) \in Nat /\ n \in Nat
  BY TypeFacts DEF IInv
<1>4. <<{s}>> \in View /\ Len(<<{s}>>) = 1 /\ Applied(<<{s}>>) = {s}
  BY DEF View, Applied, Elements
<1>5. view = committed \o <<{s}>>
  <2>1. committed \in Seq(SUBSET Submissions) /\ {s} \in SUBSET Submissions
    BY <1>3 DEF View
  <2>q. QED  BY <2>1, AppendIsConcat
<1>6. /\ view \in View /\ Len(view) = Len(committed) + 1
      /\ SubSeq(view, 1, Len(committed)) = committed
      /\ Applied(view) = Applied(committed) \cup {s}
  <2> DEFINE w == <<{s}>>
  <2> HIDE DEF w
  <2>1. /\ committed \o w \in View /\ Len(committed \o w) = Len(committed) + Len(w)
        /\ SubSeq(committed \o w, 1, Len(committed)) = committed
        /\ Applied(committed \o w) = Applied(committed) \cup Applied(w)
    BY <1>3, <1>4, ViewConcat DEF w
  <2>q. QED  BY <1>4, <1>5, <2>1 DEF w
<1> HIDE DEF view
<1>7. /\ d \in Delta /\ d.rev = n /\ d.viewRev = Len(view)
      /\ d.acknowledgements = {s} /\ d.rejections = {} /\ d.digest = view /\ ~Repairs(d)
  <2> HIDE DEF n
  <2>q. QED  BY <1>2, <1>3, <1>6, EncodedFacts
<1>8. SubSeq(view, 1, Len(view)) = view
  BY <1>6, PrefixFull
<1>9. Spent' \subseteq Elements(enqueued)
  <2>1. Applied(committed') \subseteq Elements(enqueued)
    BY <1>1, <1>6, SpentFacts
  <2>q. QED  BY <1>1, <2>1, SpentFacts DEF Spent, RejectedBy
<1>10. /\ d.rev = revision' /\ d.viewRev \in Len(committed)..Len(committed')
       /\ d.digest = SubSeq(committed', 1, d.viewRev)
       /\ d.acknowledgements \subseteq Applied(d.digest)
       /\ ~Repairs(d) => revision' = revision + 1
  BY <1>1, <1>3, <1>6, <1>7, <1>8
<1>11. Applied(committed') \ Applied(committed) \subseteq d.acknowledgements
  BY <1>1, <1>6, <1>7
<1>12. /\ Len(committed) <= Len(committed')
       /\ committed = SubSeq(committed', 1, Len(committed))
  BY <1>1, <1>3, <1>6
<1>13. KernelStep({d})
  BY <1>1, <1>2, <1>7, <1>9, <1>10, <1>11, <1>12 DEF KernelStep
<1>q. QED  BY <1>7, <1>13

LEMMA RejectStep ==
    ASSUME IInv, NEW s \in Submissions, Reject(s)
    PROVE  \E N \in SUBSET Delta : KernelStep(N)
<1> DEFINE n == [id |-> s, rev |-> revision + 1]
           d == [rev |-> revision + 1, viewRev |-> Len(committed),
                 origin |-> "resolution", acknowledgements |-> {}, rejections |-> {s},
                 body |-> "unchanged", content |-> <<>>, digest |-> committed]
<1>1. /\ UNCHANGED <<client, committed>> /\ revision' = revision + 1
      /\ UNCHANGED enqueued /\ window' = window \ {s}
      /\ rejected' = rejected \cup {n} /\ sent' = sent \cup {d} /\ s \in window
  BY DEF Reject, client
<1>2. committed \in View /\ Len(committed) \in Nat /\ revision \in Nat
  BY TypeFacts DEF IInv
<1>3. /\ committed = SubSeq(committed', 1, Len(committed)) /\ Len(committed) <= Len(committed')
  BY <1>1, <1>2, PrefixFull
<1>4. /\ d \in Delta /\ d.rev = revision + 1 /\ d.viewRev = Len(committed)
      /\ d.acknowledgements = {} /\ d.rejections = {s} /\ d.digest = committed
      /\ ~Repairs(d)
  BY <1>2 DEF Delta, View, Repairs
<1>5. n.id = s /\ n.rev = revision + 1
  OBVIOUS
<1> HIDE DEF n, d
<1>6. Spent' \subseteq Elements(enqueued)
  <2>1. window' \subseteq Elements(enqueued) /\ s \in Elements(enqueued)
    BY <1>1, SpentFacts
  <2>2. \A m \in rejected' : m.id \in Elements(enqueued)
    BY <1>1, <1>5, <2>1, SpentFacts
  <2>q. QED  BY <1>1, <2>1, <2>2, SpentFacts DEF Spent, RejectedBy
<1>7. s \in RejectedBy(revision)'
  BY <1>1, <1>2, <1>5 DEF RejectedBy
<1>8. \A m \in rejected' \ rejected :
        m.id \in Elements(enqueued) /\ m.rev = revision' /\ m.id \in d.rejections
  BY <1>1, <1>4, <1>5, SpentFacts
<1>9. /\ d.rev = revision' /\ d.viewRev \in Len(committed)..Len(committed')
      /\ d.digest = SubSeq(committed', 1, d.viewRev)
      /\ d.rejections \subseteq RejectedBy(revision)'
  BY <1>1, <1>2, <1>3, <1>4, <1>7
<1>10. rejected \subseteq rejected' /\ window' \subseteq window
  BY <1>1
<1>11. KernelStep({d})
  BY <1>1, <1>3, <1>4, <1>6, <1>8, <1>9, <1>10 DEF KernelStep
<1>q. QED  BY <1>4, <1>11

LEMMA ResolveStep ==
    ASSUME IInv, NEW extra \in Nat, Resolve(extra)
    PROVE  \E N \in SUBSET Delta : KernelStep(N)
<1> DEFINE v == CatchUpView(extra)
<1>1. /\ UNCHANGED <<client, rejected>> /\ revision' = revision + 1 /\ UNCHANGED enqueued
      /\ committed' = v /\ window' = {}
  BY DEF Resolve, client
<1>2. PICK f : sent' = sent \cup Published(extra, f)
  BY DEF Resolve, Published
<1>3. committed \in View /\ Len(committed) \in Nat /\ revision \in Nat
      /\ window \subseteq Submissions
  BY TypeFacts DEF IInv
<1>4. /\ v \in View /\ Len(v) = Len(committed) + 1 + extra
      /\ SubSeq(v, 1, Len(committed)) = committed
      /\ Applied(v) = Applied(committed) \cup window
  BY <1>3, CatchUpFacts
<1> DEFINE N == Published(extra, f)
<1>5. \A d \in N :
        /\ d \in Delta /\ ~Repairs(d) /\ d.rev = revision + 1
        /\ d.viewRev \in Len(committed)..Len(v)
        /\ d.digest = SubSeq(v, 1, d.viewRev)
        /\ d.acknowledgements \subseteq Applied(d.digest) /\ d.rejections = {}
  BY <1>3, PublishedFacts
<1> HIDE DEF N, v
<1>6. Spent' \subseteq Elements(enqueued)
  <2>1. Applied(committed') \subseteq Elements(enqueued)
    BY <1>1, <1>4, SpentFacts
  <2>q. QED  BY <1>1, <2>1, SpentFacts DEF Spent, RejectedBy
<1>7. /\ Len(committed) <= Len(committed')
      /\ committed = SubSeq(committed', 1, Len(committed))
  BY <1>1, <1>3, <1>4
<1>8. window # {} \/ Applied(committed') \ Applied(committed) = {}
  BY <1>1, <1>4
<1>9. \A d \in N :
        /\ d.rev = revision' /\ d.viewRev \in Len(committed)..Len(committed')
        /\ d.digest = SubSeq(committed', 1, d.viewRev)
        /\ d.acknowledgements \subseteq Applied(d.digest)
        /\ d.rejections = {} /\ ~Repairs(d)
  BY <1>1, <1>5
<1>10. sent' = sent \cup N
  BY <1>2 DEF N
<1>11. KernelStep(N)
  BY <1>1, <1>6, <1>7, <1>8, <1>9, <1>10 DEF KernelStep
<1>q. QED  BY <1>5, <1>11

LEMMA SnapshotStep ==
    ASSUME IInv, Snapshot
    PROVE  \E N \in SUBSET Delta : KernelStep(N)
<1> DEFINE after == IF transitionRevision = NoView THEN 0 ELSE transitionRevision
           d == [rev |-> revision, viewRev |-> Len(committed), origin |-> "snapshot",
                 acknowledgements |-> {}, rejections |-> rejectionNoticesSince(after),
                 body |-> "snapshot", content |-> committed, digest |-> committed]
<1>1. /\ UNCHANGED <<client, revision, committed, window, rejected>> /\ UNCHANGED enqueued
      /\ sent' = sent \cup {d}
  BY DEF Snapshot, client
<1>2. committed \in View /\ Len(committed) \in Nat /\ revision \in Nat
  BY TypeFacts DEF IInv
<1>3. /\ committed = SubSeq(committed', 1, Len(committed)) /\ Len(committed) <= Len(committed')
  BY <1>1, <1>2, PrefixFull
<1>4. rejectionNoticesSince(after) \subseteq Submissions
  BY DEF rejectionNoticesSince, IInv, PredictionTypeOK
<1>5. rejectionNoticesSince(after) \subseteq RejectedBy(revision)'
  BY <1>1, <1>2 DEF rejectionNoticesSince, RejectedBy, IInv, Predicted
<1>6. \A n \in rejected :
        (Known => n.rev > transitionRevision) => n.id \in rejectionNoticesSince(after)
  <2> SUFFICES ASSUME NEW n \in rejected, Known => n.rev > transitionRevision
               PROVE  n.id \in rejectionNoticesSince(after)
    OBVIOUS
  <2>1. n.rev > after
    BY DEF Known, IInv, Predicted
  <2>q. QED  BY <2>1 DEF rejectionNoticesSince
<1>7. /\ d \in Delta /\ d.rev = revision /\ d.viewRev = Len(committed)
      /\ d.acknowledgements = {} /\ d.rejections = rejectionNoticesSince(after)
      /\ d.digest = committed /\ Repairs(d)
  BY <1>2, <1>4 DEF Delta, Repairs
<1> HIDE DEF after, d
<1>8. Spent' \subseteq Elements(enqueued)
  BY <1>1, SpentFacts DEF Spent, RejectedBy
<1>9. /\ d.rev = revision' /\ d.viewRev \in Len(committed)..Len(committed')
      /\ d.digest = SubSeq(committed', 1, d.viewRev)
      /\ d.acknowledgements \subseteq Applied(d.digest)
      /\ d.rejections \subseteq RejectedBy(revision)'
  BY <1>1, <1>2, <1>3, <1>5, <1>7
<1>10. KernelStep({d})
  BY <1>1, <1>3, <1>6, <1>7, <1>8, <1>9 DEF KernelStep
<1>q. QED  BY <1>7, <1>10
-----------------------------------------------------------------------------
(* A step of the kernel preserves the invariant.                           *)

KernelFacts ==
    /\ UNCHANGED <<enqueued, pending, authoritative, transitionRevision,
                   viewRevision, repaired>>
    /\ Known' <=> Known
    /\ revision \in Nat /\ revision' \in Nat /\ revision <= revision'
    /\ Len(committed) \in Nat /\ Len(committed') \in Nat
    /\ Len(committed) <= Len(committed')
    /\ committed \in View /\ committed' \in View

LEMMA KernelStepFacts ==
    ASSUME IInv, PredictionTypeOK', NEW N \in SUBSET Delta, KernelStep(N)
    PROVE  KernelFacts
<1>1. UNCHANGED <<enqueued, pending, authoritative, transitionRevision,
                  viewRevision, repaired>>
  BY DEF KernelStep, client
<1>2. revision \in Nat /\ committed \in View /\ Len(committed) \in Nat
  BY TypeFacts DEF IInv
<1>3. revision' \in Nat /\ committed' \in View /\ Len(committed') \in Nat
  BY DEF PredictionTypeOK, View
<1>q. QED  BY <1>1, <1>2, <1>3 DEF Known, KernelStep, KernelFacts

LEMMA KernelHonest ==
    ASSUME IInv, PredictionTypeOK', NEW N \in SUBSET Delta, KernelStep(N)
    PROVE  DeltasHonest' /\ DeltasInOrder'
<1>0. KernelFacts
  BY KernelStepFacts
<1> USE <1>0 DEF KernelFacts
<1>1. \A r \in Nat : RejectedBy(r) \subseteq RejectedBy(r)'
  BY DEF KernelStep, RejectedBy
<1>2. \A d \in sent :
        /\ d.rev \in Nat /\ d.viewRev \in Nat
        /\ d.rev <= revision /\ d.viewRev <= Len(committed)
        /\ d.digest = SubSeq(committed, 1, d.viewRev)
        /\ d.acknowledgements \subseteq Applied(d.digest)
        /\ d.rejections \subseteq RejectedBy(d.rev)
  BY DeltaFacts DEF IInv, DeltasHonest
<1>3. \A d \in N :
        /\ d.rev = revision' /\ d.viewRev \in Len(committed)..Len(committed')
        /\ d.digest = SubSeq(committed', 1, d.viewRev)
        /\ d.acknowledgements \subseteq Applied(d.digest)
        /\ d.rejections \subseteq RejectedBy(revision)'
  BY DEF KernelStep
<1>4. sent' = sent \cup N
  BY DEF KernelStep
<1>5. ASSUME NEW d \in sent
      PROVE  /\ d.rev <= revision' /\ d.viewRev <= Len(committed')
             /\ d.digest = SubSeq(committed', 1, d.viewRev)
             /\ d.acknowledgements \subseteq Applied(d.digest)
             /\ d.rejections \subseteq RejectedBy(d.rev)'
  <2>1. d.rev <= revision' /\ d.viewRev <= Len(committed')
    BY <1>2
  <2>2. d.rejections \subseteq RejectedBy(d.rev)'
    BY <1>1, <1>2
  <2>3. SubSeq(SubSeq(committed', 1, Len(committed)), 1, d.viewRev)
          = SubSeq(committed', 1, d.viewRev)
    <3>1. d.viewRev \in 0..Len(committed) /\ Len(committed) \in 0..Len(committed')
      BY <1>2
    <3> DEFINE v == committed'
               l == Len(committed)
    <3>2. v \in View /\ l \in 0..Len(v) /\ d.viewRev \in 0..l
      BY <3>1
    <3> HIDE DEF v, l
    <3>3. SubSeq(SubSeq(v, 1, l), 1, d.viewRev) = SubSeq(v, 1, d.viewRev)
      BY <3>2, PrefixOfPrefix
    <3>q. QED  BY <3>3 DEF v, l
  <2>4. d.digest = SubSeq(committed', 1, d.viewRev)
    BY <1>2, <2>3 DEF KernelStep
  <2>q. QED  BY <1>2, <2>1, <2>2, <2>4
<1>6. ASSUME NEW d \in N
      PROVE  /\ d.rev <= revision' /\ d.viewRev <= Len(committed')
             /\ d.rejections \subseteq RejectedBy(d.rev)'
  <2>1. d.rev = revision'
    BY <1>3
  <2>2. RejectedBy(d.rev)' = RejectedBy(revision)'
    BY <2>1 DEF RejectedBy
  <2>q. QED  BY <1>3, <2>1, <2>2
<1>7. DeltasHonest'
  BY <1>3, <1>4, <1>5, <1>6 DEF DeltasHonest
<1>8. ASSUME NEW d \in sent', NEW e \in sent', d.rev < e.rev
      PROVE  d.viewRev <= e.viewRev
  <2>1. CASE d \in sent /\ e \in sent
    BY <1>8, <2>1 DEF IInv, DeltasInOrder
  <2>2. CASE d \in sent /\ e \in N
    BY <1>2, <1>3, <2>2
  <2>3. CASE d \in N
    BY <1>2, <1>3, <1>4, <1>8, <2>3
  <2>q. QED  BY <1>4, <2>1, <2>2, <2>3
<1>q. QED  BY <1>7, <1>8 DEF DeltasInOrder

LEMMA KernelClient ==
    ASSUME IInv, PredictionTypeOK', NEW N \in SUBSET Delta, KernelStep(N)
    PROVE  /\ Predicted' /\ ClientBehind' /\ ViewWasCommitted'
           /\ PendingKept' /\ SettledOnce' /\ RejectionsSent'
<1>0. KernelFacts
  BY KernelStepFacts
<1> USE <1>0 DEF KernelFacts
<1>n. \A n \in rejected : n \in rejected' /\ n.rev \in 1..revision
        /\ n.id \in Elements(enqueued)
  BY DEF IInv, Predicted, KernelStep
<1>m. \A n \in rejected' \ rejected :
        n.rev = revision + 1 /\ revision' = revision + 1 /\ n.id \in Elements(enqueued)
  BY DEF KernelStep
<1>t. Known => transitionRevision \in Nat /\ transitionRevision <= revision
  BY TypeFacts DEF IInv, ClientBehind
<1>v. Known => viewRevision <= Len(committed) /\ viewRevision \in Nat
               /\ authoritative = SubSeq(committed, 1, viewRevision)
  BY DEF IInv, ViewWasCommitted, ClientBehind
<1>s. sent' = sent \cup N
  BY DEF KernelStep
<1>1. Predicted'
  <2>1. \A n \in rejected' : n.id \in Elements(enqueued) /\ n.rev \in 1..revision'
    BY <1>n, <1>m
  <2>q. QED  BY <2>1 DEF Predicted, KernelStep, IInv
<1>2. ClientBehind'
  <2> SUFFICES ASSUME Known
               PROVE  /\ transitionRevision <= revision' /\ viewRevision \in Nat
                      /\ \A d \in sent' : d.rev > transitionRevision => d.viewRev >= viewRevision
    BY DEF ClientBehind
  <2>1. transitionRevision <= revision'
    BY <1>t
  <2>2. \A d \in sent : d.rev > transitionRevision => d.viewRev >= viewRevision
    BY DEF IInv, ClientBehind
  <2>3. \A d \in N : d.viewRev \in Len(committed)..Len(committed')
    BY DEF KernelStep
  <2>4. \A d \in N : d.viewRev >= viewRevision
    BY <1>v, <2>3
  <2>q. QED  BY <1>s, <1>v, <2>1, <2>2, <2>4
<1>3. ViewWasCommitted'
  <2> SUFFICES ASSUME Known
               PROVE  /\ viewRevision <= Len(committed')
                      /\ authoritative = SubSeq(committed', 1, viewRevision)
    BY DEF ViewWasCommitted
  <2> DEFINE v == committed'
             l == Len(committed)
  <2>1. v \in View /\ l \in 0..Len(v) /\ viewRevision \in 0..l
    BY <1>v
  <2>2. committed = SubSeq(v, 1, l)
    BY DEF KernelStep
  <2> HIDE DEF v, l
  <2>3. SubSeq(SubSeq(v, 1, l), 1, viewRevision) = SubSeq(v, 1, viewRevision)
    BY <2>1, PrefixOfPrefix
  <2>4. viewRevision <= Len(v)
    BY <2>1
  <2>q. QED  BY <1>v, <2>2, <2>3, <2>4 DEF v
<1>4. PendingKept'
  <2>1. RejectedBy(transitionRevision) \subseteq RejectedBy(transitionRevision)'
    BY <1>n DEF RejectedBy
  <2>q. QED  BY <2>1 DEF PendingKept, IInv
<1>5. SettledOnce'
  <2>1. Known => RejectedBy(transitionRevision)' \subseteq RejectedBy(transitionRevision)
    BY <1>m, <1>t DEF RejectedBy
  <2>q. QED  BY <2>1 DEF SettledOnce, IInv
<1>6. RejectionsSent'
  <2> SUFFICES ASSUME NEW d \in sent', NEW n \in rejected'
               PROVE  /\ ~Repairs(d) /\ d.rev = n.rev => n.id \in d.rejections
                      /\ Repairs(d) /\ n.rev <= d.rev /\ (Known => n.rev > transitionRevision)
                           => n.id \in d.rejections
    BY DEF RejectionsSent
  <2>1. CASE d \in sent /\ n \in rejected
    BY <2>1 DEF IInv, RejectionsSent
  <2>2. CASE d \in sent /\ n \notin rejected
    <3>1. d.rev <= revision /\ d.rev \in Nat
      BY <2>2, DeltaFacts DEF IInv, DeltasHonest
    <3>q. QED  BY <1>m, <2>2, <3>1
  <2>3. CASE d \in N /\ n \notin rejected
    BY <2>3 DEF KernelStep
  <2>4. CASE d \in N /\ n \in rejected
    <3>1. ~Repairs(d) => d.rev = revision + 1
      BY <2>4 DEF KernelStep
    <3>2. n.rev \in 1..revision
      BY <1>n, <2>4
    <3>3. Repairs(d) /\ (Known => n.rev > transitionRevision) => n.id \in d.rejections
      BY <2>4 DEF KernelStep
    <3>q. QED  BY <3>1, <3>2, <3>3
  <2>q. QED  BY <1>s, <2>1, <2>2, <2>3, <2>4
<1>q. QED  BY <1>1, <1>2, <1>3, <1>4, <1>5, <1>6

LEMMA KernelUnbroken ==
    ASSUME IInv, PredictionTypeOK', NEW N \in SUBSET Delta, KernelStep(N),
           Known, NEW r \in 0..revision
    PROVE  /\ Unbroken(r)' => Unbroken(r)
           /\ Unbroken(revision)' => Unbroken(revision)
           /\ \A view : Acknowledged(r, view) => Acknowledged(r, view)'
           /\ revision' = revision + 1 /\ Unbroken(revision)' =>
                \E d \in N : ~Repairs(d) /\ d.rev = revision + 1
<1>0. KernelFacts
  BY KernelStepFacts
<1> USE <1>0 DEF KernelFacts
<1>s. sent' = sent \cup N
  BY DEF KernelStep
<1>1. \A d \in N : ~Repairs(d) => d.rev = revision + 1
  BY DEF KernelStep
<1>2. \A d \in sent : d.rev <= revision /\ d.rev \in Nat
  BY DeltaFacts DEF IInv, DeltasHonest
<1>t. transitionRevision \in Nat /\ transitionRevision <= revision
  BY TypeFacts DEF IInv, ClientBehind
<1>3. ASSUME NEW k \in Nat, revision >= r, NEW q \in 0..revision, k >= q, Unbroken(k)'
      PROVE  Unbroken(q)
  <2> SUFFICES ASSUME NEW g \in 1..q, transitionRevision < g
               PROVE  \E d \in sent : ~Repairs(d) /\ d.rev = g
    BY DEF Unbroken
  <2>1. g \in 1..k
    BY <1>3
  <2>2. PICK d \in sent' : ~Repairs(d) /\ d.rev = g
    BY <1>3, <2>1 DEF Unbroken
  <2>3. d \in sent
    BY <1>1, <1>s, <2>2
  <2>q. QED  BY <2>2, <2>3
<1>4. Unbroken(r)' => Unbroken(r)
  BY <1>3
<1>5. Unbroken(revision)' => Unbroken(revision)
  <2>1. PICK k \in Nat : k = revision' /\ k >= revision
    OBVIOUS
  <2>2. Unbroken(k)' => Unbroken(revision)
    BY <1>3, <2>1
  <2>q. QED  BY <2>1, <2>2 DEF Unbroken
<1>6. ASSUME NEW view, Acknowledged(r, view) PROVE Acknowledged(r, view)'
  <2> SUFFICES ASSUME NEW s \in Applied(view) \cap Elements(pending)
               PROVE  \E g \in 1..r :
                        /\ transitionRevision < g
                        /\ \A d \in sent' : ~Repairs(d) /\ d.rev = g => s \in d.acknowledgements
    BY DEF Acknowledged
  <2>1. PICK g \in 1..r :
          /\ transitionRevision < g
          /\ \A d \in sent : ~Repairs(d) /\ d.rev = g => s \in d.acknowledgements
    BY <1>6 DEF Acknowledged
  <2>2. \A d \in N : ~Repairs(d) => d.rev # g
    BY <1>1, <2>1
  <2>q. QED  BY <1>s, <2>1, <2>2
<1>7. ASSUME revision' = revision + 1, Unbroken(revision)'
      PROVE  \E d \in N : ~Repairs(d) /\ d.rev = revision + 1
  <2>1. revision + 1 \in 1..revision' /\ transitionRevision < revision + 1
    BY <1>7, <1>t
  <2>2. PICK d \in sent' : ~Repairs(d) /\ d.rev = revision + 1
    BY <1>7, <2>1 DEF Unbroken
  <2>q. QED  BY <1>2, <1>s, <2>2
<1>q. QED  BY <1>4, <1>5, <1>6, <1>7
\* A view of an old delta, or one the transition leaves as it was.
LEMMA KernelAcksKept ==
    ASSUME IInv, PredictionTypeOK', NEW N \in SUBSET Delta, KernelStep(N), Known, ~repaired,
           NEW d \in sent, ~Repairs(d), Unbroken(d.rev)'
    PROVE  Acknowledged(d.rev, d.digest)'
<1>1. d.rev \in 0..revision
  BY DeltaFacts, TypeFacts DEF IInv, DeltasHonest
<1>2. Unbroken(d.rev)
  BY <1>1, KernelUnbroken
<1>3. Acknowledged(d.rev, d.digest)
  BY <1>2 DEF IInv, AcknowledgementsSent
<1> DEFINE r == d.rev
           view == d.digest
<1> HIDE DEF r, view
<1>4. r \in 0..revision /\ Acknowledged(r, view)
  BY <1>1, <1>3 DEF r, view
<1>5. Acknowledged(r, view)'
  BY <1>4, KernelUnbroken
<1>q. QED  BY <1>5 DEF r, view

LEMMA KernelAcksNew ==
    ASSUME IInv, PredictionTypeOK', NEW N \in SUBSET Delta, KernelStep(N), Known, ~repaired,
           Unbroken(revision)'
    PROVE  Acknowledged(revision, committed)'
<1>0. KernelFacts
  BY KernelStepFacts
<1>1. revision \in 0..revision
  BY <1>0 DEF KernelFacts
<1>2. Unbroken(revision)
  BY <1>1, KernelUnbroken
<1>3. window = {} /\ Acknowledged(revision, committed)
  BY <1>2 DEF IInv, AcknowledgementsSent
<1>4. PICK r, view : r \in 0..revision /\ r = revision /\ view = committed
  BY <1>1
<1>5. Acknowledged(r, view)'
  BY <1>3, <1>4, KernelUnbroken
<1>6. CASE UNCHANGED <<revision, committed, window>>
  BY <1>4, <1>5, <1>6 DEF Acknowledged
<1>7. CASE revision' = revision + 1
  <2> SUFFICES ASSUME NEW s \in Applied(committed') \cap Elements(pending)
               PROVE  \E g \in 1..revision' :
                        /\ transitionRevision < g
                        /\ \A d \in sent' : ~Repairs(d) /\ d.rev = g => s \in d.acknowledgements
    BY <1>0 DEF Acknowledged, KernelFacts
  <2>1. PICK e \in N : ~Repairs(e) /\ e.rev = revision + 1
    BY <1>1, <1>7, KernelUnbroken
  <2>2. CASE s \in Applied(committed)
    <3>1. s \in Applied(view) \cap Elements(pending)'
      BY <1>0, <1>4, <2>2 DEF KernelFacts
    <3>2. PICK g \in 1..r :
            /\ transitionRevision' < g
            /\ \A d \in sent' : ~Repairs(d) /\ d.rev = g => s \in d.acknowledgements
      BY <1>5, <3>1 DEF Acknowledged
    <3>3. g \in 1..revision'
      BY <1>0, <1>7, <1>4 DEF KernelFacts
    <3>q. QED  BY <1>0, <3>2, <3>3 DEF KernelFacts
  <2>3. CASE s \notin Applied(committed)
    <3>1. \A d \in N : ~Repairs(d) => s \in d.acknowledgements
      BY <1>0, <1>3, <1>7, <2>1, <2>3 DEF KernelStep, KernelFacts
    <3>2. \A d \in sent : d.rev # revision + 1
      BY <1>0, DeltaFacts DEF IInv, DeltasHonest, KernelFacts
    <3>3. \A d \in sent' : ~Repairs(d) /\ d.rev = revision + 1 => s \in d.acknowledgements
      BY <3>1, <3>2 DEF KernelStep
    <3>4. transitionRevision < revision + 1 /\ revision + 1 \in 1..revision'
      BY <1>0, <1>7, TypeFacts DEF IInv, ClientBehind, KernelFacts
    <3>q. QED  BY <3>3, <3>4
  <2>q. QED  BY <2>2, <2>3
<1>q. QED  BY <1>6, <1>7 DEF KernelStep

LEMMA KernelPreserves ==
    ASSUME IInv, PredictionTypeOK', NEW N \in SUBSET Delta, KernelStep(N)
    PROVE  IInv'
<1>0. KernelFacts
  BY KernelStepFacts
<1>1. DeltasHonest' /\ DeltasInOrder'
  BY KernelHonest
<1>2. Predicted' /\ ClientBehind' /\ ViewWasCommitted' /\ PendingKept' /\ SettledOnce'
      /\ RejectionsSent'
  BY KernelClient
<1>3. ASSUME Known', ~repaired'
      PROVE  /\ window' # {} => ~Unbroken(revision)'
             /\ Unbroken(revision)' => Acknowledged(revision, committed)'
             /\ \A d \in sent' :
                  ~Repairs(d) /\ Unbroken(d.rev)' => Acknowledged(d.rev, d.digest)'
  <2>1. Known /\ ~repaired
    BY <1>0, <1>3 DEF KernelFacts
  <2>2. Unbroken(revision)' => Acknowledged(revision, committed)'
    BY <2>1, KernelAcksNew
  <2>3. revision \in 0..revision
    BY <1>0 DEF KernelFacts
  <2>4. ASSUME window' # {} PROVE ~Unbroken(revision)'
    <3>1. window # {} => ~Unbroken(revision)'
      BY <2>1, <2>3, KernelUnbroken DEF IInv, AcknowledgementsSent
    <3>2. CASE window = {}
      <4>1. revision' = revision + 1 /\ N = {}
        BY <2>4, <3>2 DEF KernelStep
      <4>q. QED  BY <2>1, <2>3, <4>1, KernelUnbroken
    <3>q. QED  BY <3>1, <3>2
  <2>5. ASSUME NEW d \in sent', ~Repairs(d), Unbroken(d.rev)'
        PROVE  Acknowledged(d.rev, d.digest)'
    <3>1. CASE d \in sent
      BY <2>1, <2>5, <3>1, KernelAcksKept
    <3>2. CASE d \in N
      <4>1. /\ d.rev = revision' /\ d.viewRev \in Len(committed)..Len(committed')
            /\ d.digest = SubSeq(committed', 1, d.viewRev)
        BY <3>2 DEF KernelStep
      <4>2. Unbroken(revision)'
        BY <2>5, <4>1 DEF Unbroken
      <4>3. Acknowledged(revision, committed)'
        BY <2>2, <4>2
      <4>4. PICK v \in View : v = committed'
        BY <1>0 DEF KernelFacts
      <4>5. d.viewRev \in 0..Len(v) /\ Len(v) \in 0..Len(v)
        BY <1>0, <4>1, <4>4 DEF KernelFacts
      <4>6. Applied(SubSeq(v, 1, d.viewRev)) \subseteq Applied(SubSeq(v, 1, Len(v)))
        BY <4>5, PrefixApplied
      <4>7. SubSeq(v, 1, Len(v)) = v
        BY PrefixFull
      <4>8. Applied(d.digest) \subseteq Applied(committed')
        BY <4>1, <4>4, <4>6, <4>7
      <4>q. QED  BY <4>1, <4>3, <4>8 DEF Acknowledged
    <3>q. QED  BY <3>1, <3>2 DEF KernelStep
  <2>q. QED  BY <2>2, <2>4, <2>5
<1>4. AcknowledgementsSent'
  BY <1>3 DEF AcknowledgementsSent
<1>q. QED  BY <1>1, <1>2, <1>4 DEF IInv
-----------------------------------------------------------------------------
(* A step of the client preserves the invariant.                           *)

LEMMA PendingFacts ==
    ASSUME IInv
    PROVE  /\ Elements(pending) \subseteq Elements(enqueued)
           /\ ~Known => Elements(enqueued) = {} /\ window = {}
<1>1. enqueued \in Seq(Submissions) /\ pending = Filtered(enqueued, Elements(pending))
  BY TypeFacts DEF IInv, PendingKept
<1>2. Elements(Filtered(enqueued, Elements(pending))) = Elements(enqueued) \cap Elements(pending)
  BY <1>1, FilteredElements
<1>3. Elements(pending) \subseteq Elements(enqueued)
  BY <1>1, <1>2
<1>4. ~Known => Elements(enqueued) = {}
  BY <1>1, ElementsEmpty DEF IInv, Predicted
<1>q. QED  BY <1>3, <1>4, SpentFacts

LEMMA DigestFacts ==
    ASSUME IInv, NEW d \in sent
    PROVE  /\ Applied(d.digest) \subseteq Elements(enqueued)
           /\ \A k \in 0..d.viewRev :
                Applied(SubSeq(committed, 1, k)) \subseteq Applied(d.digest)
<1>1. committed \in View /\ Len(committed) \in Nat
  BY TypeFacts DEF IInv
<1>2. d.viewRev \in 0..Len(committed) /\ d.digest = SubSeq(committed, 1, d.viewRev)
  BY <1>1, DeltaFacts DEF IInv, DeltasHonest
<1>3. Len(committed) \in 0..Len(committed) /\ SubSeq(committed, 1, Len(committed)) = committed
  BY <1>1, PrefixFull
<1>4. Applied(d.digest) \subseteq Applied(committed)
  BY <1>1, <1>2, <1>3, PrefixApplied
<1>5. \A k \in 0..d.viewRev :
        Applied(SubSeq(committed, 1, k)) \subseteq Applied(SubSeq(committed, 1, d.viewRev))
  BY <1>1, <1>2, PrefixApplied
<1>q. QED  BY <1>2, <1>4, <1>5, SpentFacts

LEMMA PredictStep ==
    ASSUME IInv, PredictionTypeOK', NEW s \in Submissions, predict(s)
    PROVE  IInv'
<1>1. /\ UNCHANGED <<revision, committed, window, rejected, sent, authoritative,
                     transitionRevision, viewRevision, repaired>>
      /\ Known /\ Known' /\ s \notin Elements(enqueued)
      /\ enqueued' = Append(enqueued, s) /\ pending' = Append(pending, s)
  BY DEF predict, kernel, Known
<1>2. enqueued \in Seq(Submissions) /\ pending \in Seq(Submissions)
  BY TypeFacts DEF IInv
<1>3. /\ Elements(enqueued') = Elements(enqueued) \cup {s}
      /\ Elements(pending') = Elements(pending) \cup {s}
  BY <1>1, <1>2, ElementsAppend
<1>4. Predicted'
  BY <1>1, <1>3 DEF IInv, Predicted, Spent, RejectedBy
<1>5. DeltasHonest' /\ DeltasInOrder'
  <2>1. \A r : RejectedBy(r)' = RejectedBy(r)
    BY <1>1 DEF RejectedBy
  <2>q. QED  BY <1>1, <2>1 DEF IInv, DeltasHonest, DeltasInOrder
<1>6. ClientBehind' /\ ViewWasCommitted' /\ RejectionsSent'
  BY <1>1 DEF IInv, ClientBehind, ViewWasCommitted, RejectionsSent
<1>7. PendingKept'
  <2> DEFINE P == Elements(pending)
  <2>1. Filtered(enqueued', P \cup {s}) = Append(Filtered(enqueued, P \cup {s}), s)
    BY <1>1, <1>2, FilteredAppend
  <2>2. Filtered(enqueued, P \cup {s}) = Filtered(enqueued, P)
    BY <1>1, <1>2, FilteredSame
  <2>3. pending = Filtered(enqueued, P)
    BY DEF IInv, PendingKept
  <2>4. pending' = Filtered(enqueued', Elements(pending'))
    BY <1>1, <1>3, <2>1, <2>2, <2>3
  <2>5. Elements(enqueued') \ Elements(pending') \subseteq
          Applied(authoritative) \cup RejectedBy(transitionRevision)
    BY <1>3 DEF IInv, PendingKept
  <2>6. RejectedBy(transitionRevision)' = RejectedBy(transitionRevision)
    BY <1>1 DEF RejectedBy
  <2>q. QED  BY <1>1, <2>4, <2>5, <2>6 DEF PendingKept
<1>8. Applied(authoritative) \subseteq Elements(enqueued)
  <2>1. viewRevision \in 0..Len(committed) /\ Len(committed) \in 0..Len(committed)
    BY <1>1, TypeFacts DEF IInv, ViewWasCommitted, ClientBehind
  <2>2. committed \in View /\ SubSeq(committed, 1, Len(committed)) = committed
    BY TypeFacts, PrefixFull DEF IInv
  <2>3. Applied(SubSeq(committed, 1, viewRevision)) \subseteq Applied(committed)
    BY <2>1, <2>2, PrefixApplied
  <2>q. QED  BY <1>1, <2>3, SpentFacts DEF IInv, ViewWasCommitted
<1>9. SettledOnce'
  <2>1. s \notin RejectedBy(transitionRevision)
    BY <1>1, SpentFacts DEF RejectedBy
  <2>2. RejectedBy(transitionRevision)' = RejectedBy(transitionRevision)
    BY <1>1 DEF RejectedBy
  <2>q. QED  BY <1>1, <1>3, <1>8, <2>1, <2>2 DEF IInv, SettledOnce
<1>10. AcknowledgementsSent'
  <2>1. \A r : Unbroken(r)' <=> Unbroken(r)
    BY <1>1 DEF Unbroken
  <2>2. ASSUME NEW r, NEW view, Applied(view) \subseteq Elements(enqueued), Acknowledged(r, view)
        PROVE  Acknowledged(r, view)'
    BY <1>1, <1>3, <2>2 DEF Acknowledged
  <2>3. \A d \in sent : Applied(d.digest) \subseteq Elements(enqueued)
    BY DigestFacts
  <2>4. Unbroken(revision)' <=> Unbroken(revision)
    BY <1>1 DEF Unbroken
  <2>5. Acknowledged(revision, committed) => Acknowledged(revision, committed)'
    BY <1>1, <1>3, SpentFacts DEF Acknowledged
  <2>6. \A d \in sent : Acknowledged(d.rev, d.digest) => Acknowledged(d.rev, d.digest)'
    BY <2>2, <2>3
  <2>q. QED  BY <1>1, <2>1, <2>4, <2>5, <2>6 DEF IInv, AcknowledgementsSent
<1>q. QED  BY <1>4, <1>5, <1>6, <1>7, <1>9, <1>10 DEF IInv
\* What a delta that is applied changes.
LEMMA ReconcileFacts ==
    ASSUME IInv, NEW d \in sent, reconcile(d)
    PROVE  /\ UNCHANGED <<revision, committed, window, rejected, sent, enqueued>>
           /\ d.rev \in Nat /\ d.viewRev \in Nat /\ Known'
           /\ transitionRevision' = d.rev /\ viewRevision' = d.viewRev
           /\ authoritative' = d.digest
           /\ repaired' <=> (repaired \/ Repairs(d))
           /\ Elements(pending') = Elements(pending) \ Settled(d)
           /\ pending' = Filtered(enqueued, Elements(pending'))
           /\ Known => /\ transitionRevision \in Nat /\ transitionRevision < d.rev
                       /\ Applied(authoritative) \subseteq Applied(d.digest)
                       /\ ~Repairs(d) => d.rev = transitionRevision + 1
<1>1. /\ UNCHANGED <<revision, committed, window, rejected, sent, enqueued>>
      /\ ~Stale(d) /\ ~Gap(d) /\ Applies(d)
      /\ pending' = Filtered(pending, Elements(pending) \ Settled(d))
      /\ authoritative' = NextView(d)
      /\ transitionRevision' = d.rev /\ viewRevision' = d.viewRev
      /\ repaired' = (repaired \/ Repairs(d))
  BY DEF reconcile, kernel, Repairs
<1>2. d.rev \in Nat /\ d.viewRev \in Nat
  BY DeltaFacts DEF IInv
<1>3. Known'
  BY <1>1, <1>2, PredictionAssumption DEF Known
<1>4. authoritative' = d.digest
  BY <1>1 DEF Applies
<1>5. pending \in Seq(Submissions) /\ enqueued \in Seq(Submissions)
  BY TypeFacts DEF IInv
<1> DEFINE P == Elements(pending)
<1>6. Elements(pending') = P \ Settled(d)
  BY <1>1, <1>5, FilteredElements
<1>7. pending' = Filtered(enqueued, Elements(pending'))
  <2>1. pending = Filtered(enqueued, P)
    BY DEF IInv, PendingKept
  <2>2. Filtered(Filtered(enqueued, P), P \ Settled(d)) = Filtered(enqueued, P \cap (P \ Settled(d)))
    BY <1>5, FilteredTwice
  <2>3. P \cap (P \ Settled(d)) = P \ Settled(d)
    OBVIOUS
  <2>q. QED  BY <1>1, <1>6, <2>1, <2>2, <2>3
<1>8. ASSUME Known
      PROVE  /\ transitionRevision \in Nat /\ transitionRevision < d.rev
             /\ Applied(authoritative) \subseteq Applied(d.digest)
             /\ ~Repairs(d) => d.rev = transitionRevision + 1
  <2>1. transitionRevision \in Nat
    BY <1>8, TypeFacts DEF IInv
  <2>2. transitionRevision < d.rev
    BY <1>1, <1>2, <1>8, <2>1 DEF Stale
  <2>3. ~Repairs(d) => d.rev = transitionRevision + 1
    BY <1>1, <1>8 DEF Gap, Repairs
  <2>4. viewRevision \in 0..d.viewRev
    BY <1>2, <1>8, <2>2 DEF IInv, ClientBehind
  <2>5. Applied(SubSeq(committed, 1, viewRevision)) \subseteq Applied(d.digest)
    BY <2>4, DigestFacts
  <2>q. QED  BY <1>8, <2>1, <2>2, <2>3, <2>5 DEF IInv, ViewWasCommitted
<1>9. repaired' <=> (repaired \/ Repairs(d))
  BY <1>1
<1>q. QED  BY <1>1, <1>2, <1>3, <1>4, <1>6, <1>7, <1>8, <1>9

\* An unbroken run that starts with the applied delta was unbroken before, and
\* what it acknowledges beyond that delta is acknowledged still.
LEMMA ReconcileUnbroken ==
    ASSUME IInv, NEW d \in sent, reconcile(d), Known, ~Repairs(d), NEW r \in Nat
    PROVE  /\ Unbroken(r)' => Unbroken(r)
           /\ \A view : Acknowledged(r, view) => Acknowledged(r, view)'
<1>1. /\ UNCHANGED sent /\ transitionRevision' = d.rev /\ d.rev = transitionRevision + 1
      /\ transitionRevision \in Nat
      /\ Elements(pending') = Elements(pending) \ Settled(d)
  BY ReconcileFacts
<1>2. ASSUME Unbroken(r)' PROVE Unbroken(r)
  <2> SUFFICES ASSUME NEW g \in 1..r, transitionRevision < g
               PROVE  \E e \in sent : ~Repairs(e) /\ e.rev = g
    BY DEF Unbroken
  <2>1. CASE g = d.rev
    BY <2>1
  <2>2. CASE g # d.rev
    BY <1>1, <1>2, <2>2 DEF Unbroken
  <2>q. QED  BY <2>1, <2>2
<1>3. ASSUME NEW view, Acknowledged(r, view) PROVE Acknowledged(r, view)'
  <2> SUFFICES ASSUME NEW s \in Applied(view) \cap Elements(pending')
               PROVE  \E g \in 1..r :
                        /\ transitionRevision' < g
                        /\ \A e \in sent' : ~Repairs(e) /\ e.rev = g => s \in e.acknowledgements
    BY DEF Acknowledged
  <2>1. s \in Applied(view) \cap Elements(pending) /\ s \notin d.acknowledgements
    BY <1>1 DEF Settled
  <2>2. PICK g \in 1..r :
          /\ transitionRevision < g
          /\ \A e \in sent : ~Repairs(e) /\ e.rev = g => s \in e.acknowledgements
    BY <1>3, <2>1 DEF Acknowledged
  <2>3. g # d.rev
    BY <2>1, <2>2
  <2>q. QED  BY <1>1, <2>2, <2>3
<1>q. QED  BY <1>2, <1>3

LEMMA ReconcileSettles ==
    ASSUME IInv, NEW d \in sent, reconcile(d)
    PROVE  SettledOnce'
<1>1. /\ UNCHANGED <<rejected, sent>> /\ transitionRevision' = d.rev /\ d.rev \in Nat
      /\ authoritative' = d.digest
      /\ repaired' <=> (repaired \/ Repairs(d))
      /\ Elements(pending') = Elements(pending) \ Settled(d)
      /\ Known => /\ transitionRevision \in Nat /\ transitionRevision < d.rev
                  /\ ~Repairs(d) => d.rev = transitionRevision + 1
  BY ReconcileFacts
<1>2. ~Known => Elements(pending') = {}
  BY <1>1, PendingFacts
<1>3. ASSUME NEW n \in rejected, n.rev <= d.rev, n.id \in Elements(pending'), Known
      PROVE  FALSE
  <2>1. n.rev \in Nat
    BY DEF IInv, Predicted
  <2>2. n.id \in Elements(pending) /\ n.id \notin d.rejections
    BY <1>1, <1>3 DEF Settled
  <2>3. n.rev > transitionRevision
    BY <1>1, <1>3, <2>1, <2>2 DEF IInv, SettledOnce, RejectedBy
  <2>4. ~Repairs(d) => d.rev = n.rev
    BY <1>1, <1>3, <2>1, <2>3
  <2>q. QED  BY <1>3, <2>2, <2>3, <2>4 DEF IInv, RejectionsSent
<1>4. RejectedBy(transitionRevision)' \cap Elements(pending') = {}
  BY <1>1, <1>2, <1>3 DEF RejectedBy
<1>5. ASSUME Known, ~repaired, ~Repairs(d), NEW s \in Applied(d.digest) \cap Elements(pending')
      PROVE  FALSE
  <2>1. Unbroken(d.rev)
    BY <1>1, <1>5 DEF Unbroken
  <2>2. Acknowledged(d.rev, d.digest)
    BY <1>5, <2>1 DEF IInv, AcknowledgementsSent
  <2>3. s \in Applied(d.digest) \cap Elements(pending) /\ s \notin d.acknowledgements
    BY <1>1, <1>5 DEF Settled
  <2>4. PICK g \in 1..d.rev :
          /\ transitionRevision < g
          /\ \A e \in sent : ~Repairs(e) /\ e.rev = g => s \in e.acknowledgements
    BY <2>2, <2>3 DEF Acknowledged
  <2>5. g = d.rev
    BY <1>1, <1>5, <2>4
  <2>q. QED  BY <1>5, <2>3, <2>4, <2>5
<1>6. ~repaired' => Applied(authoritative') \cap Elements(pending') = {}
  BY <1>1, <1>2, <1>5
<1>q. QED  BY <1>4, <1>6 DEF SettledOnce

LEMMA ReconcileStep ==
    ASSUME IInv, PredictionTypeOK', NEW d \in sent, reconcile(d)
    PROVE  IInv'
<1>1. /\ UNCHANGED <<revision, committed, window, rejected, sent, enqueued>>
      /\ d.rev \in Nat /\ d.viewRev \in Nat /\ Known'
      /\ transitionRevision' = d.rev /\ viewRevision' = d.viewRev
      /\ authoritative' = d.digest
      /\ repaired' <=> (repaired \/ Repairs(d))
      /\ Elements(pending') = Elements(pending) \ Settled(d)
      /\ pending' = Filtered(enqueued, Elements(pending'))
      /\ Known => /\ transitionRevision \in Nat /\ transitionRevision < d.rev
                  /\ Applied(authoritative) \subseteq Applied(d.digest)
                  /\ ~Repairs(d) => d.rev = transitionRevision + 1
  BY ReconcileFacts
<1>d. /\ d.rev <= revision /\ d.viewRev <= Len(committed)
      /\ d.digest = SubSeq(committed, 1, d.viewRev)
      /\ d.acknowledgements \subseteq Applied(d.digest)
      /\ d.rejections \subseteq RejectedBy(d.rev)
  BY DEF IInv, DeltasHonest
<1>2. Predicted'
  BY <1>1 DEF IInv, Predicted, Spent, RejectedBy
<1>3. DeltasHonest' /\ DeltasInOrder'
  <2>1. \A r : RejectedBy(r)' = RejectedBy(r)
    BY <1>1 DEF RejectedBy
  <2>q. QED  BY <1>1, <2>1 DEF IInv, DeltasHonest, DeltasInOrder
<1>4. ClientBehind'
  <2>1. \A e \in sent : e.rev > d.rev => e.viewRev >= d.viewRev
    <3> SUFFICES ASSUME NEW e \in sent, e.rev > d.rev PROVE e.viewRev >= d.viewRev
      OBVIOUS
    <3>1. e.rev \in Nat /\ e.viewRev \in Nat
      BY DeltaFacts DEF IInv
    <3>q. QED  BY <1>1, <3>1 DEF IInv, DeltasInOrder
  <2>q. QED  BY <1>1, <1>d, <2>1 DEF ClientBehind
<1>5. ViewWasCommitted'
  BY <1>1, <1>d DEF ViewWasCommitted
<1>6. PendingKept'
  <2> SUFFICES ASSUME NEW x \in Elements(enqueued), x \notin Elements(pending')
               PROVE  x \in Applied(d.digest) \cup RejectedBy(d.rev)
    <3>1. RejectedBy(transitionRevision)' = RejectedBy(d.rev)
      BY <1>1 DEF RejectedBy
    <3>q. QED  BY <1>1, <3>1 DEF PendingKept
  <2>1. Known
    BY PendingFacts
  <2>2. CASE x \in Settled(d)
    BY <1>d, <2>2 DEF Settled
  <2>3. CASE x \notin Settled(d)
    <3>1. x \in Applied(authoritative) \cup RejectedBy(transitionRevision)
      BY <1>1, <2>3 DEF IInv, PendingKept
    <3>2. RejectedBy(transitionRevision) \subseteq RejectedBy(d.rev)
      BY <1>1, <2>1 DEF RejectedBy, IInv, Predicted
    <3>q. QED  BY <1>1, <2>1, <3>1, <3>2
  <2>q. QED  BY <2>2, <2>3
<1>7. RejectionsSent'
  <2> SUFFICES ASSUME NEW e \in sent, NEW n \in rejected
               PROVE  /\ ~Repairs(e) /\ e.rev = n.rev => n.id \in e.rejections
                      /\ Repairs(e) /\ n.rev <= e.rev /\ n.rev > d.rev => n.id \in e.rejections
    BY <1>1 DEF RejectionsSent
  <2>1. n.rev \in Nat
    BY DEF IInv, Predicted
  <2>2. n.rev > d.rev => (Known => n.rev > transitionRevision)
    BY <1>1, <2>1
  <2>q. QED  BY <2>2 DEF IInv, RejectionsSent
<1>8. SettledOnce'
  BY ReconcileSettles
<1>9. AcknowledgementsSent'
  <2> SUFFICES ASSUME ~repaired, ~Repairs(d)
               PROVE  /\ window # {} => ~Unbroken(revision)'
                      /\ Unbroken(revision)' => Acknowledged(revision, committed)'
                      /\ \A e \in sent :
                           ~Repairs(e) /\ Unbroken(e.rev)' => Acknowledged(e.rev, e.digest)'
    BY <1>1 DEF AcknowledgementsSent
  <2>1. CASE ~Known
    <3>1. window = {} /\ Elements(pending') = {}
      BY <1>1, <2>1, PendingFacts
    <3>q. QED  BY <3>1 DEF Acknowledged
  <2>2. CASE Known
    <3>1. revision \in Nat
      BY TypeFacts DEF IInv
    <3>2. \A r \in Nat : Unbroken(r)' => Unbroken(r)
      BY <2>2, ReconcileUnbroken
    <3>3. \A r \in Nat : \A view : Acknowledged(r, view) => Acknowledged(r, view)'
      BY <2>2, ReconcileUnbroken
    <3>4. Unbroken(revision)' => Unbroken(revision)
      <4>1. PICK r \in Nat : r = revision /\ r = revision'
        BY <1>1, <3>1
      <4>2. Unbroken(r)' => Unbroken(r)
        BY <3>2
      <4>q. QED  BY <4>1, <4>2 DEF Unbroken
    <3>5. Acknowledged(revision, committed) => Acknowledged(revision, committed)'
      <4>1. PICK r, view : r \in Nat /\ r = revision /\ r = revision' /\ view = committed /\ view = committed'
        BY <1>1, <3>1
      <4>2. r \in Nat
        BY <4>1
      <4>3. Acknowledged(r, view) => Acknowledged(r, view)'
        BY <3>3, <4>2
      <4>q. QED  BY <4>1, <4>3 DEF Acknowledged
    <3>6. ASSUME NEW e \in sent, ~Repairs(e), Unbroken(e.rev)'
          PROVE  Acknowledged(e.rev, e.digest)'
      <4>1. e.rev \in Nat
        BY DeltaFacts DEF IInv
      <4>2. Unbroken(e.rev)
        BY <3>2, <3>6, <4>1
      <4>3. Acknowledged(e.rev, e.digest)
        BY <2>2, <3>6, <4>2 DEF IInv, AcknowledgementsSent
      <4>q. QED  BY <3>3, <4>1, <4>3
    <3>q. QED  BY <2>2, <3>4, <3>5, <3>6 DEF IInv, AcknowledgementsSent
  <2>q. QED  BY <2>1, <2>2
<1>q. QED  BY <1>2, <1>3, <1>4, <1>5, <1>6, <1>7, <1>8, <1>9 DEF IInv

LEMMA SameStep ==
    ASSUME IInv, UNCHANGED <<kernel, enqueued, pending, authoritative,
                             transitionRevision, viewRevision, repaired>>, PredictionTypeOK'
    PROVE  IInv'
<1>1. UNCHANGED <<revision, committed, window, rejected, sent, enqueued, pending,
                  authoritative, transitionRevision, viewRevision, repaired>>
  BY DEF kernel
<1>2. Predicted' /\ ClientBehind' /\ ViewWasCommitted' /\ RejectionsSent'
  BY <1>1 DEF IInv, Predicted, Spent, RejectedBy, ClientBehind, Known,
              ViewWasCommitted, RejectionsSent
<1>3. DeltasHonest' /\ DeltasInOrder'
  BY <1>1 DEF IInv, DeltasHonest, DeltasInOrder, RejectedBy
<1>4. PendingKept' /\ SettledOnce'
  BY <1>1 DEF IInv, PendingKept, SettledOnce, RejectedBy, Known
<1>5. AcknowledgementsSent'
  BY <1>1 DEF IInv, AcknowledgementsSent, Known, Unbroken, Acknowledged
<1>q. QED  BY <1>2, <1>3, <1>4, <1>5 DEF IInv
-----------------------------------------------------------------------------
(* The invariant, and what follows from it.                                *)

LEMMA InvInit == PredictionInit => IInv
<1> SUFFICES ASSUME PredictionInit PROVE IInv
  OBVIOUS
<1>1. PredictionTypeOK
  BY TypeInit
<1>2. /\ revision = 0 /\ committed = <<>> /\ window = {} /\ rejected = {} /\ sent = {}
      /\ enqueued = <<>> /\ pending = <<>> /\ authoritative = <<>> /\ repaired = FALSE
      /\ Known => transitionRevision = 0 /\ viewRevision = 0
  BY DEF PredictionInit, Known
<1>3. Elements(<<>>) = {} /\ Applied(<<>>) = {}
  BY DEF Elements, Applied
<1>4. Predicted
  BY <1>2, <1>3 DEF Predicted, Spent, RejectedBy
<1>5. DeltasHonest /\ DeltasInOrder /\ ClientBehind /\ RejectionsSent
  BY <1>2 DEF DeltasHonest, DeltasInOrder, ClientBehind, RejectionsSent
<1>6. SubSeq(<<>>, 1, 0) = <<>> /\ Len(<<>>) = 0
  BY SubSeqEmpty
<1>7. ViewWasCommitted
  BY <1>2, <1>6 DEF ViewWasCommitted
<1>8. PendingKept
  BY <1>2, <1>3, FilteredEmpty DEF PendingKept
<1>9. SettledOnce
  BY <1>2, <1>3 DEF SettledOnce
<1>10. AcknowledgementsSent
  BY <1>2, <1>3 DEF AcknowledgementsSent, Acknowledged
<1>q. QED  BY <1>1, <1>4, <1>5, <1>7, <1>8, <1>9, <1>10 DEF IInv

LEMMA InvNext == IInv /\ [PredictionNext]_predictionVars => IInv'
<1> SUFFICES ASSUME IInv, [PredictionNext]_predictionVars PROVE IInv'
  OBVIOUS
<1>t. PredictionTypeOK
  BY DEF IInv
<1>1. ASSUME \/ \E s \in Submissions : Accept(s) \/ Interact(s) \/ Reject(s)
             \/ Extend
             \/ \E extra \in 0..MaxCatchUp : Resolve(extra)
             \/ Snapshot
      PROVE  IInv'
  <2>1. PredictionTypeOK'
    BY <1>1, <1>t, TypeKernelStep
  <2>2. ASSUME NEW s \in Submissions, Accept(s) PROVE \E N \in SUBSET Delta : KernelStep(N)
    BY <2>2, AcceptStep
  <2>3. ASSUME NEW s \in Submissions, Interact(s) PROVE \E N \in SUBSET Delta : KernelStep(N)
    BY <2>3, InteractStep
  <2>4. ASSUME NEW s \in Submissions, Reject(s) PROVE \E N \in SUBSET Delta : KernelStep(N)
    BY <2>4, RejectStep
  <2>5. ASSUME Extend PROVE \E N \in SUBSET Delta : KernelStep(N)
    BY <2>5, ExtendStep
  <2>6. ASSUME NEW extra \in 0..MaxCatchUp, Resolve(extra)
        PROVE  \E N \in SUBSET Delta : KernelStep(N)
    <3>1. extra \in Nat
      BY PredictionAssumption
    <3>q. QED  BY <2>6, <3>1, ResolveStep
  <2>7. ASSUME Snapshot PROVE \E N \in SUBSET Delta : KernelStep(N)
    BY <2>7, SnapshotStep
  <2>8. \E N \in SUBSET Delta : KernelStep(N)
    BY <1>1, <2>2, <2>3, <2>4, <2>5, <2>6, <2>7
  <2>q. QED  BY <2>1, <2>8, KernelPreserves
<1>2. ASSUME \/ \E s \in Submissions : predict(s)
             \/ \E d \in sent : reconcile(d) \/ reconcileRefused(d)
             \/ UNCHANGED predictionVars
      PROVE  IInv'
  <2>1. PredictionTypeOK'
    BY <1>2, <1>t, TypeClientStep
  <2>2. ASSUME NEW s \in Submissions, predict(s) PROVE IInv'
    BY <2>1, <2>2, PredictStep
  <2>3. ASSUME NEW d \in sent, reconcile(d) PROVE IInv'
    BY <2>1, <2>3, ReconcileStep
  <2>4. ASSUME NEW d \in sent, reconcileRefused(d) PROVE IInv'
    BY <2>1, <2>4, SameStep DEF reconcileRefused
  <2>5. CASE UNCHANGED predictionVars
    BY <2>1, <2>5, SameStep DEF predictionVars, client
  <2>q. QED  BY <1>2, <2>2, <2>3, <2>4, <2>5
<1>q. QED  BY <1>1, <1>2 DEF PredictionNext

\* The state of the kernel and of the client keeps its type.
THEOREM PredictionTypeCorrect == PredictionSpec => []PredictionTypeOK
<1>1. IInv => PredictionTypeOK
  BY DEF IInv
<1>q. QED  BY <1>1, InvInit, InvNext, PTL DEF PredictionSpec

\* Whatever the channel does, the view a client builds from patches and snapshots
\* is the view the kernel showed at that view revision.
THEOREM ViewsAreCommitted == PredictionSpec => []ViewWasCommitted
<1>1. IInv => ViewWasCommitted
  BY DEF IInv
<1>q. QED  BY <1>1, InvInit, InvNext, PTL DEF PredictionSpec

\* Pending submissions keep their order, and one is dropped only when the view of
\* the client has applied it or it was rejected.
THEOREM PendingIsKept == PredictionSpec => []PendingKept
<1>1. IInv => PendingKept
  BY DEF IInv
<1>q. QED  BY <1>1, InvInit, InvNext, PTL DEF PredictionSpec

\* A submission the client knows rejected is not pending; nor is, for a client no
\* snapshot has repaired, one its view has applied.
THEOREM SubmissionsSettleOnce == PredictionSpec => []SettledOnce
<1>1. IInv => SettledOnce
  BY DEF IInv
<1>q. QED  BY <1>1, InvInit, InvNext, PTL DEF PredictionSpec

\* No step takes the client back to an older transition or an older view.
THEOREM ClientNeverGoesBack == PredictionSpec => NeverBackwards
<1>1. ASSUME IInv, [PredictionNext]_predictionVars, Known
      PROVE  transitionRevision' >= transitionRevision /\ viewRevision' >= viewRevision
  <2>1. transitionRevision \in Nat /\ viewRevision \in Nat
    BY <1>1, TypeFacts DEF IInv, ClientBehind
  <2>2. CASE UNCHANGED <<transitionRevision, viewRevision>>
    BY <2>1, <2>2
  <2>3. ASSUME NEW d \in sent, reconcile(d)
        PROVE  transitionRevision' >= transitionRevision /\ viewRevision' >= viewRevision
    <3>1. /\ transitionRevision' = d.rev /\ viewRevision' = d.viewRev
          /\ d.rev \in Nat /\ d.viewRev \in Nat /\ transitionRevision < d.rev
      BY <1>1, <2>3, ReconcileFacts
    <3>2. viewRevision <= d.viewRev
      BY <1>1, <2>1, <3>1 DEF IInv, ClientBehind
    <3>q. QED  BY <2>1, <3>1, <3>2
  <2>4. UNCHANGED <<transitionRevision, viewRevision>> \/ \E d \in sent : reconcile(d)
    BY <1>1 DEF PredictionNext, Accept, Interact, Reject, predict, Extend, Resolve, Snapshot,
                reconcileRefused, client, predictionVars
  <2>q. QED  BY <2>2, <2>3, <2>4
<1>2. IInv /\ [PredictionNext]_predictionVars =>
        [Known => /\ transitionRevision' >= transitionRevision
                  /\ viewRevision' >= viewRevision]_predictionVars
  BY <1>1
<1>q. QED  BY <1>2, InvInit, InvNext, PTL DEF PredictionSpec, NeverBackwards
===============================================================================
